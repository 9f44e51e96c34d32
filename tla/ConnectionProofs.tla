-------------------------- MODULE ConnectionProofs --------------------------
(***************************************************************************)
(* Proofs about the components that follow something outside the program:  *)
(* the proxy client and the monitors of the network and of Bluetooth.      *)
(* They share no state; each theorem is about the specification of one.    *)
(***************************************************************************)
EXTENDS ProxyClient, NetMonitor, BtMonitor, FiniteSetTheorems, SequenceTheorems,
        NaturalsInduction, WellFoundedInduction, TLAPS

-----------------------------------------------------------------------------
(* Induction over the natural numbers.                                     *)

(* A set of numbers has a least one: this is what stands for induction     *)
(* below, on a least counterexample.                                       *)
LEMMA Least ==
  ASSUME NEW T \in SUBSET Nat, T # {}
  PROVE  \E n \in T : \A m \in T : n <= m
<1> DEFINE R == OpToRel(<, Nat)
<1>1. IsWellFoundedOn(R, Nat)
  BY Zenon, NatLessThanWellFounded
<1>2. \A x, y \in Nat : <<x, y>> \in R <=> x < y
  BY Zenon DEF OpToRel
<1> HIDE DEF R
<1>3. \E x \in T : \A y \in T : <<y, x>> \notin R
  BY <1>1, WFMin, Zenon
<1>4. \E x \in T : \A y \in T : ~(y < x)
  BY <1>2, <1>3, Zenon
<1> QED BY <1>4

(* A function defined by recursion exists: what a step of it does is the   *)
(* function G[n].                                                          *)
Goes(f, size, base, G) == \A n \in 0..size : f[n] = IF n = 0 THEN base ELSE G[n][f[n - 1]]

LEMMA Recursion ==
  ASSUME NEW size \in Nat, NEW D, NEW base \in D,
         NEW G \in [1..size -> [D -> D]]
  PROVE  \E f \in [0..size -> D] : Goes(f, size, base, G)
<1> DEFINE Not == {k \in 0..size : ~\E f \in [0..k -> D] : Goes(f, k, base, G)}
<1>1. ASSUME Not # {} PROVE FALSE
  <2>1. Not \subseteq Nat
    OBVIOUS
  <2>2. PICK k \in Not : \A j \in Not : k <= j
    BY <1>1, <2>1, Least, Zenon
  <2>3. k \in 0..size /\ ~\E f \in [0..k -> D] : Goes(f, k, base, G)
    BY <2>2
  <2>4. CASE k = 0
    <3> DEFINE f == [n \in 0..0 |-> base]
    <3>1. f \in [0..0 -> D]
      OBVIOUS
    <3>2. Goes(f, 0, base, G)
      <4>1. \A n \in 0..0 : n = 0 /\ f[n] = base
        OBVIOUS
      <4> QED BY <4>1 DEF Goes
    <3> QED BY <2>3, <2>4, <3>1, <3>2
  <2>5. CASE k # 0
    <3>1. k - 1 \in 0..size /\ ~(k <= k - 1) /\ k \in 1..size
      BY <2>3, <2>5
    <3>2. k - 1 \notin Not
      BY <2>2, <3>1
    <3>3. PICK f \in [0..k - 1 -> D] : Goes(f, k - 1, base, G)
      BY <3>1, <3>2
    <3> DEFINE last == G[k][f[k - 1]]
               g == [n \in 0..k |-> IF n = k THEN last ELSE f[n]]
    <3>4. /\ k - 1 \in 0..k - 1 /\ k - 1 \in 0..k /\ k - 1 # k
          /\ k \in 0..k /\ \A n \in 0..k : n # k => n \in 0..k - 1
      BY <2>3, <2>5
    <3>5. last \in D
      <4>1. f[k - 1] \in D
        BY <3>4
      <4> QED BY <3>1, <4>1
    <3>6. g \in [0..k -> D] /\ g[k] = last /\ \A n \in 0..k : n # k => g[n] = f[n]
      BY <3>4, <3>5
    <3>7. g[k] = G[k][g[k - 1]]
      <4>1. g[k - 1] = f[k - 1]
        BY <3>4, <3>6
      <4> QED BY <3>6, <4>1
    <3> HIDE DEF g, last
    <3>8. ASSUME NEW n \in 0..k, n # k PROVE g[n] = IF n = 0 THEN base ELSE G[n][g[n - 1]]
      <4>1. f[n] = IF n = 0 THEN base ELSE G[n][f[n - 1]]
        <5>1. n \in 0..k - 1
          BY <3>4, <3>8
        <5> QED BY <3>3, <5>1 DEF Goes
      <4>2. n # 0 => n - 1 \in 0..k /\ n - 1 # k
        BY <2>3
      <4> QED BY <3>6, <3>8, <4>1, <4>2
    <3>9. Goes(g, k, base, G)
      BY <2>5, <3>7, <3>8 DEF Goes
    <3> QED BY <2>3, <3>6, <3>9
  <2> QED BY <2>4, <2>5
<1>2. size \in 0..size /\ size \notin Not
  BY <1>1
<1>3. \E f \in [0..size -> D] : Goes(f, size, base, G)
  BY <1>2
<1> QED BY <1>3


-----------------------------------------------------------------------------
(* ProxyClient: the descriptors.                                           *)

(***************************************************************************)
(* The descriptors of each step; who is shown connected, and running only  *)
(* once the second epoll is there; and that there is a thread while the    *)
(* main loop holds its id: this is what an early exit finds.               *)
(***************************************************************************)
Descriptors ==
  /\ sockets = (IF pc \in SocketSteps THEN 1 ELSE 0)
  /\ epolls = (IF pc \in EpollSteps THEN 1 ELSE 0)

Shown ==
  /\ pc \in Connected => connected = TRUE
  /\ pc \notin Connected => connected = FALSE
  /\ pc \notin Online => running = FALSE

ThreadControl ==
  /\ pc # "none" => threadId = TRUE
  /\ pc = "none" => threadId = FALSE

ProxyInv == Descriptors /\ Shown /\ ThreadControl

LEMMA ProxyStart == Init => ProxyInv
BY DEF Init, ProxyInv, Descriptors, Shown, ThreadControl, SocketSteps, EpollSteps, Connected,
       Online

(* The steps that neither open nor close a descriptor.                     *)
LEMMA QuietSteps ==
  ASSUME ProxyInv,
         Top \/ DialRefused \/ Established \/ Loop \/ Send \/ Clear \/ Wait \/ Sleep \/ End
  PROVE  ProxyInv'
<1> USE DEF ProxyInv, Descriptors, Shown, ThreadControl, SocketSteps, EpollSteps, Connected,
            Online, calls, shared, descriptors, Goto
<1>1. CASE Top
  BY <1>1 DEF Top
<1>2. CASE DialRefused
  BY <1>2 DEF DialRefused, DialFails
<1>3. CASE Loop
  <2>1. /\ pc = "loop" /\ pc' \in {"close", "send", "wait"}
        /\ UNCHANGED <<threadId, connected, running, sockets, epolls>>
    BY <1>3 DEF Loop
  <2> QED BY <2>1
<1>4. CASE Send
  BY <1>4 DEF Send
<1>5. CASE Clear
  BY <1>5 DEF Clear
<1>6. CASE Wait
  <2>1. /\ pc = "wait" /\ pc' \in {"close", "loop"}
        /\ UNCHANGED <<threadId, connected, sockets, epolls>>
    BY <1>6 DEF Wait
  <2> QED BY <2>1
<1>7. CASE Sleep
  BY <1>7 DEF Sleep
<1>8. CASE End
  BY <1>8 DEF End
<1>9. CASE Established
  BY <1>9 DEF Established
<1> QED BY <1>1, <1>2, <1>3, <1>4, <1>5, <1>6, <1>7, <1>8, <1>9, Zenon

(* An exit closes what is open, whichever descriptors those are.           *)
LEMMA ExitSteps ==
  ASSUME ProxyInv, DialFails, threadId' = threadId, pc # "none", pc \notin Online,
         Closes(IF pc \in SocketSteps THEN 1 ELSE 0, IF pc \in EpollSteps THEN 1 ELSE 0)
  PROVE  ProxyInv'
BY DEF ProxyInv, Descriptors, Shown, ThreadControl, SocketSteps, EpollSteps, Connected, Online,
       DialFails, Goto, Closes

(* The steps that open or close one.                                       *)
LEMMA DescriptorSteps ==
  ASSUME ProxyInv,
         \/ Dial \/ SetOption \/ Connect \/ CreateEpoll \/ Watch \/ Await \/ GetResult
         \/ Refused \/ Register \/ Listen \/ Close
  PROVE  ProxyInv'
<1>0. pc \notin Online => /\ Closes(1, 0) /\ DialFails /\ pc \in SocketSteps \ EpollSteps => ProxyInv'
                          /\ Closes(1, 1) /\ DialFails /\ pc \in SocketSteps \cap EpollSteps => ProxyInv'
  <2>1. DialFails => threadId' = threadId
    BY DEF DialFails, Goto, calls
  <2>2. pc \in SocketSteps => pc # "none"
    BY DEF SocketSteps, Connected, Online
  <2> QED BY <2>1, <2>2, ExitSteps
<1> USE DEF ProxyInv, Descriptors, Shown, ThreadControl, SocketSteps, EpollSteps, Connected,
            Online, calls, shared, descriptors, Goto, Opens, Closes
<1>1. CASE Dial
  BY <1>1 DEF Dial
<1>2. CASE SetOption
  <2>1. CASE Closes(1, 0) /\ DialFails
    BY <1>0, <1>2, <2>1 DEF SetOption
  <2>2. CASE Goto("connect") /\ UNCHANGED <<shared, descriptors>>
    BY <1>2, <2>2 DEF SetOption
  <2> QED BY <1>2, <2>1, <2>2, Zenon DEF SetOption
<1>3. CASE Connect
  <2>1. CASE Closes(1, 0) /\ DialFails
    BY <1>0, <1>3, <2>1 DEF Connect
  <2>2. CASE Goto("epoll") /\ UNCHANGED <<shared, descriptors>>
    BY <1>3, <2>2 DEF Connect
  <2> QED BY <1>3, <2>1, <2>2, Zenon DEF Connect
<1>4. CASE CreateEpoll
  <2>1. CASE Closes(1, 0) /\ DialFails
    BY <1>0, <1>4, <2>1 DEF CreateEpoll
  <2>2. CASE Opens(0, 1) /\ Goto("watch") /\ UNCHANGED shared
    BY <1>4, <2>2 DEF CreateEpoll
  <2> QED BY <1>4, <2>1, <2>2, Zenon DEF CreateEpoll
<1>5. CASE Watch
  <2>1. CASE WatchFails
    BY <1>0, <1>5, <2>1 DEF Watch, WatchFails
  <2>2. CASE Goto("await") /\ UNCHANGED <<shared, descriptors>>
    BY <1>5, <2>2 DEF Watch
  <2> QED BY <1>5, <2>1, <2>2, Zenon DEF Watch
<1>6. CASE Await
  <2>1. CASE Closes(1, 1) /\ DialFails
    BY <1>0, <1>6, <2>1 DEF Await
  <2>2. CASE Goto("result") /\ UNCHANGED <<shared, descriptors>>
    BY <1>6, <2>2 DEF Await
  <2> QED BY <1>6, <2>1, <2>2, Zenon DEF Await
<1>7. CASE GetResult
  <2>1. CASE Closes(1, 1) /\ DialFails
    BY <1>0, <1>7, <2>1 DEF GetResult
  <2>2. CASE Closes(0, 1) /\ Goto("verdict") /\ UNCHANGED shared
    BY <1>7, <2>2 DEF GetResult
  <2> QED BY <1>7, <2>1, <2>2, Zenon DEF GetResult
<1>8. CASE Refused
  BY <1>0, <1>8 DEF Refused
<1>9. CASE Register
  <2>1. CASE Closes(1, 0) /\ DialFails
    BY <1>0, <1>9, <2>1 DEF Register
  <2>2. CASE Opens(0, 1) /\ Goto("listen") /\ UNCHANGED shared
    BY <1>9, <2>2 DEF Register
  <2> QED BY <1>9, <2>1, <2>2, Zenon DEF Register
<1>10. CASE Listen
  <2>1. CASE Closes(1, 1) /\ DialFails
    BY <1>0, <1>10, <2>1 DEF Listen
  <2>2. CASE Goto("loop") /\ UNCHANGED <<shared, descriptors>>
    BY <1>10, <2>2 DEF Listen
  <2> QED BY <1>10, <2>1, <2>2, Zenon DEF Listen
<1>11. CASE Close
  BY <1>11 DEF Close
<1> QED BY <1>1, <1>2, <1>3, <1>4, <1>5, <1>6, <1>7, <1>8, <1>9, <1>10, <1>11, Zenon

LEMMA LoopCalls ==
  ASSUME ProxyInv, Start \/ StopBegins \/ StopJoins \/ RequestScan \/ UNCHANGED vars
  PROVE  ProxyInv'
<1> USE DEF ProxyInv, Descriptors, Shown, ThreadControl, SocketSteps, EpollSteps, Connected,
            Online, calls, shared, descriptors
<1>1. CASE Start
  BY <1>1 DEF Start
<1>2. CASE StopBegins
  BY <1>2 DEF StopBegins
<1>3. CASE StopJoins
  BY <1>3 DEF StopJoins
<1>4. CASE RequestScan
  BY <1>4 DEF RequestScan
<1>5. CASE UNCHANGED vars
  BY <1>5 DEF vars
<1> QED BY <1>1, <1>2, <1>3, <1>4, <1>5, Zenon

(* No descriptor is lost over any number of connections, and the thread    *)
(* shows itself connected only while it is (proxy_client.c:43-106,         *)
(* 199-230, 291-299).                                                      *)
THEOREM DescriptorsAreKept == Spec => []DescriptorsMatchStep
<1>1. ASSUME ProxyInv, [Next]_vars PROVE ProxyInv'
  BY <1>1, QuietSteps, DescriptorSteps, LoopCalls, Zenon DEF Next, ThreadStep
<1>2. ASSUME ProxyInv PROVE DescriptorsMatchStep
  <2>1. connected = (pc \in Connected)
    <3>1. CASE pc \in Connected
      BY <1>2, <3>1 DEF ProxyInv, Shown
    <3>2. CASE pc \notin Connected
      <4>1. connected = FALSE
        BY <1>2, <3>2 DEF ProxyInv, Shown
      <4>2. (pc \in Connected) = FALSE
        BY <3>2
      <4> QED BY <4>1, <4>2, Zenon
    <3> QED BY <3>1, <3>2, Zenon
  <2>2. running => pc \in Connected
    BY <1>2 DEF ProxyInv, Shown, Online, Connected
  <2> QED BY <1>2, <2>1, <2>2, Zenon DEF ProxyInv, Descriptors, DescriptorsMatchStep
<1> QED BY <1>1, <1>2, ProxyStart, PTL DEF Spec
-----------------------------------------------------------------------------
(* ProxyClient: the reports.                                               *)

(* The hosts among the first items of a report, as HostsIn computes them.  *)
First(report) ==
  CHOOSE f : f = [n \in 0..Len(report) |-> IF n = 0 THEN <<>> ELSE f[n - 1] \o HostOf(report[n])]

LEMMA FirstStep ==
  ASSUME NEW report \in Reports
  PROVE  /\ \A n \in 0..Len(report) : First(report)[n] \in Seq(Hosts)
         /\ First(report)[0] = <<>>
         /\ \A n \in 1..Len(report) :
              First(report)[n] = First(report)[n - 1] \o HostOf(report[n])
         /\ HostsIn(report) = First(report)[Len(report)]
<1>0. HostsIn(report) = First(report)[Len(report)]
  BY DEF HostsIn, First
<1>1. report \in Seq(Hosts \union {Note})
  BY ProxyAssumption
<1>a. PICK size \in Nat : size = Len(report)
  BY <1>1, LenProperties
<1> DEFINE D == Seq(Hosts)
           base == <<>>
           G == [n \in 1..size |-> [d \in D |-> d \o HostOf(report[n])]]
<1>2. \A n \in 1..size : \A d \in D : G[n][d] = d \o HostOf(report[n]) /\ G[n][d] \in D
  <2> TAKE n \in 1..size
  <2>1. report[n] \in Hosts \union {Note}
    BY <1>1, <1>a, ElementOfSeq
  <2> TAKE d \in D
  <2>2. HostOf(report[n]) \in D
    BY <2>1 DEF HostOf
  <2>3. d \o HostOf(report[n]) \in D
    BY <2>2, ConcatProperties
  <2> QED BY <2>3
<1>3. base \in D
  BY EmptySeq
<1> HIDE DEF G, D, base
<1>4. PICK f \in [0..size -> D] : Goes(f, size, base, G)
  <2>1. G \in [1..size -> [D -> D]]
    BY <1>2 DEF G
  <2> QED BY <1>3, <2>1, Recursion
<1>5. \A n \in 1..size : f[n - 1] \in D
  <2> TAKE n \in 1..size
  <2>1. n - 1 \in 0..size
    OBVIOUS
  <2> QED BY <2>1
<1> DEFINE Rule(g) == [n \in 0..size |-> IF n = 0 THEN <<>> ELSE g[n - 1] \o HostOf(report[n])]
<1>6. f = Rule(f)
  <2>1. ASSUME NEW n \in 0..size
        PROVE  f[n] = IF n = 0 THEN <<>> ELSE f[n - 1] \o HostOf(report[n])
    <3>1. n # 0 => n \in 1..size
      OBVIOUS
    <3>2. n # 0 => G[n][f[n - 1]] = f[n - 1] \o HostOf(report[n])
      BY <1>2, <1>5, <3>1
    <3> QED BY <1>4, <3>2 DEF base, Goes
  <2> QED BY <1>4, <2>1
<1>7. First(report) = Rule(First(report))
  <2>1. First(report) = CHOOSE g : g = Rule(g)
    BY <1>a DEF First, Rule
  <2> HIDE DEF Rule
  <2> QED BY <1>6, <2>1
<1> DEFINE first == First(report)
<1>8. \A n \in 0..size : first[n] = IF n = 0 THEN <<>> ELSE first[n - 1] \o HostOf(report[n])
  BY <1>7
<1> HIDE DEF first, Rule
<1>9. first[0] = <<>> /\ \A n \in 1..size : first[n] = first[n - 1] \o HostOf(report[n])
  <2>1. 0 \in 0..size /\ \A n \in 1..size : n \in 0..size /\ n # 0
    OBVIOUS
  <2> QED BY <1>8, <2>1
<1> DEFINE Bad == {n \in 0..size : first[n] \notin D}
<1>10. ASSUME Bad # {} PROVE FALSE
  <2>1. Bad \subseteq Nat
    OBVIOUS
  <2>2. PICK n \in Bad : \A j \in Bad : n <= j
    BY <1>10, <2>1, Least, Zenon
  <2>3. n \in 1..size
    BY <2>2, <1>9, <1>3 DEF base
  <2>4. n - 1 \in 0..size /\ ~(n <= n - 1)
    BY <2>3
  <2>5. first[n - 1] \in D
    BY <2>2, <2>4
  <2>6. first[n] = G[n][first[n - 1]]
    BY <1>2, <1>9, <2>3, <2>5
  <2> QED BY <1>2, <2>2, <2>3, <2>5, <2>6
<1>11. \A n \in 0..size : first[n] \in D
  BY <1>10
<1> QED BY <1>0, <1>9, <1>11, <1>a DEF first, D

(* The list of the client holds the first MaxHosts of them.                *)
LEMMA CappedGrows ==
  ASSUME NEW list \in Seq(Hosts), NEW host \in Hosts
  PROVE  /\ Capped(list) \in Seq(Hosts)
         /\ Capped(Append(list, host)) = IF Len(Capped(list)) < MaxHosts
                                         THEN Append(Capped(list), host) ELSE Capped(list)
<1>a. PICK n \in Nat : n = Len(list)
  BY LenProperties
<1>b. PICK max \in Nat : max = MaxHosts
  BY ProxyAssumption
<1> DEFINE longer == Append(list, host)
<1>1. /\ longer \in Seq(Hosts) /\ Len(longer) = n + 1 /\ longer[n + 1] = host
      /\ \A i \in 1..n : longer[i] = list[i]
  BY <1>a, AppendProperties
<1>2. SubSeq(list, 1, n) = list /\ SubSeq(longer, 1, n + 1) = longer
  BY <1>a, <1>1, SubSeqFull
<1>3. CASE n < max
  <2>1. Capped(list) = list
    BY <1>a, <1>b, <1>2, <1>3 DEF Capped
  <2>2. Capped(longer) = SubSeq(longer, 1, n + 1)
    <3>1. (IF n + 1 < max THEN n + 1 ELSE max) = n + 1
      BY <1>3
    <3> QED BY <1>b, <1>1, <3>1 DEF Capped
  <2> QED BY <1>a, <1>b, <1>2, <1>3, <2>1, <2>2
<1>4. CASE ~(n < max)
  <2> HIDE DEF longer
  <2> DEFINE some == SubSeq(list, 1, max)
             others == SubSeq(longer, 1, max)
  <2>1. Capped(list) = some
    BY <1>a, <1>b, <1>4 DEF Capped
  <2>2. Capped(longer) = others
    <3>1. ~(n + 1 < max)
      BY <1>4
    <3> QED BY <1>b, <1>1, <3>1 DEF Capped
  <2>3. \A i \in 1..max : i \in 1..n /\ i \in 1..n + 1 /\ 1 + i - 1 = i
    BY <1>4
  <2>4. 1 \in Int /\ max \in Int
    OBVIOUS
  <2>5. /\ some \in Seq(Hosts) /\ Len(some) = IF 1 <= max THEN max - 1 + 1 ELSE 0
        /\ \A i \in 1..max - 1 + 1 : some[i] = list[1 + i - 1]
    <3>1. \A i \in 1..max : list[i] \in Hosts
      BY <1>a, <2>3, ElementOfSeq
    <3> QED BY <2>4, <3>1, SubSeqProperties
  <2>6. /\ others \in Seq(Hosts) /\ Len(others) = IF 1 <= max THEN max - 1 + 1 ELSE 0
        /\ \A i \in 1..max - 1 + 1 : others[i] = longer[1 + i - 1]
    <3>1. \A i \in 1..max : longer[i] \in Hosts
      BY <1>1, <2>3, ElementOfSeq
    <3> QED BY <2>4, <3>1, SubSeqProperties
  <2> HIDE DEF some, others, longer
  <2>7. Len(some) = max /\ Len(others) = max
    BY <2>5, <2>6
  <2>8. \A i \in 1..max : some[i] = others[i]
    <3> TAKE i \in 1..max
    <3>1. i \in 1..n /\ 1 + i - 1 = i /\ i \in 1..max - 1 + 1
      BY <2>3
    <3>2. some[i] = list[i]
      BY <2>5, <3>1
    <3>3. others[i] = longer[i]
      BY <2>6, <3>1
    <3>4. longer[i] = list[i]
      BY <1>1, <3>1
    <3> QED BY <3>2, <3>3, <3>4
  <2>9. some = others
    BY <2>5, <2>6, <2>7, <2>8, SeqEqual
  <2>10. ~(Len(some) < MaxHosts)
    BY <1>b, <2>7
  <2> QED BY <2>1, <2>2, <2>5, <2>9, <2>10 DEF longer
<1> QED BY <1>3, <1>4

LEMMA CappedEmpty == Capped(<<>>) = <<>>
<1>1. PICK n \in Nat : n = MaxHosts
  BY ProxyAssumption
<1>2. (IF 0 < n THEN 0 ELSE n) = 0
  OBVIOUS
<1>3. Capped(<<>>) = SubSeq(<<>>, 1, 0)
  BY <1>1, <1>2, EmptySeq DEF Capped
<1>4. SubSeq(<<>>, 1, 0) = <<>>
  BY SubSeqEmpty
<1> QED BY <1>3, <1>4

-----------------------------------------------------------------------------
(***************************************************************************)
(* What the proxy delivers: each piece is followed by the next one of its  *)
(* line, the end of a line by the next line, and END by a BEGIN if there   *)
(* is more.                                                                *)
(***************************************************************************)
Lines == {line \in [report : Reports, at : Nat] : line.at <= Len(line.report) + 1}
AllPieces == [line : Lines, part : {"head", "middle", "tail"}]
LineAt(report, at) == [report |-> report, at |-> at]

IsFirst(piece) == piece.part = "head" /\ piece.line.at = 0
IsLast(piece) == piece.part = "tail" /\ piece.line.at = Len(piece.line.report) + 1

Follows(piece, next) ==
  \/ /\ piece.part = "head"
     /\ next = Piece(piece.line, IF Kind(piece.line) = "note" THEN "middle" ELSE "tail")
  \/ /\ piece.part = "middle" /\ Kind(piece.line) = "note"
     /\ next \in {Piece(piece.line, "middle"), Piece(piece.line, "tail")}
  \/ /\ piece.part = "tail" /\ piece.line.at <= Len(piece.line.report)
     /\ next = Piece(LineAt(piece.line.report, piece.line.at + 1), "head")
  \/ IsLast(piece) /\ IsFirst(next)

Linked(pieces) ==
  /\ pieces \in Seq(AllPieces)
  /\ \A i, j \in 1..Len(pieces) : j = i + 1 => Follows(pieces[i], pieces[j])

Chain(pieces) ==
  /\ Linked(pieces)
  /\ \A i \in 1..Len(pieces) : i = Len(pieces) => IsLast(pieces[i])

LEMMA ReportLength == \A report \in Reports : Len(report) \in Nat /\ report \in Seq(Hosts \union {Note})
<1> TAKE report \in Reports
<1>1. report \in Seq(Hosts \union {Note})
  BY ProxyAssumption
<1> QED BY <1>1, LenProperties

LEMMA ChainEmpty == Chain(<<>>)
<1>1. <<>> \in Seq(AllPieces) /\ Len(<<>>) = 0
  BY EmptySeq
<1> QED BY <1>1 DEF Chain, Linked

(* What is left of a chain is one.                                         *)
LEMMA ChainTail ==
  ASSUME NEW s, Chain(s), s # <<>>
  PROVE  /\ s[1] \in AllPieces /\ Chain(Tail(s))
         /\ Tail(s) = <<>> => IsLast(s[1])
         /\ Tail(s) # <<>> => Follows(s[1], Tail(s)[1]) /\ Tail(s)[1] \in AllPieces
<1>1. s \in Seq(AllPieces)
  BY DEF Chain, Linked
<1>a. PICK n \in Nat : n = Len(s)
  BY <1>1, LenProperties
<1>2. n > 0
  BY <1>1, <1>a, EmptySeq
<1>3. /\ \A i \in 1..n : i = n => IsLast(s[i])
      /\ \A i, j \in 1..n : j = i + 1 => Follows(s[i], s[j])
  BY <1>a DEF Chain, Linked
<1> DEFINE rest == Tail(s)
<1>4. rest \in Seq(AllPieces) /\ Len(rest) = n - 1 /\ \A i \in 1..n - 1 : rest[i] = s[i + 1]
  BY <1>1, <1>a, HeadTailProperties
<1> HIDE DEF rest
<1>b. PICK m \in Nat : m = n - 1
  BY <1>2
<1>5. \A i \in 1..m : i = m => IsLast(rest[i])
  <2> TAKE i \in 1..m
  <2>1. PICK k \in 1..n : k = i + 1
    BY <1>b
  <2>2. i = m => k = n
    BY <1>b, <2>1
  <2>3. rest[i] = s[k]
    BY <1>4, <1>b, <2>1
  <2> QED BY <1>3, <2>1, <2>2, <2>3
<1>6. \A i, j \in 1..m : j = i + 1 => Follows(rest[i], rest[j])
  <2> TAKE i, j \in 1..m
  <2>1. PICK k, l \in 1..n : k = i + 1 /\ l = j + 1
    BY <1>b
  <2>2. j = i + 1 => l = k + 1
    BY <2>1
  <2>3. rest[i] = s[k] /\ rest[j] = s[l]
    BY <1>4, <1>b, <2>1
  <2> QED BY <1>3, <2>2, <2>3
<1>7. Chain(rest)
  BY <1>4, <1>5, <1>6, <1>b DEF Chain, Linked
<1>8. s[1] \in AllPieces
  <2>1. 1 \in 1..n
    BY <1>2
  <2> QED BY <1>1, <1>a, <2>1, ElementOfSeq
<1>9. ASSUME rest = <<>> PROVE IsLast(s[1])
  <2>1. Len(rest) = 0
    BY <1>9, EmptySeq
  <2>2. n = 1 /\ 1 \in 1..n
    BY <1>2, <1>4, <2>1
  <2> QED BY <1>3, <2>2
<1>10. ASSUME rest # <<>> PROVE Follows(s[1], rest[1]) /\ rest[1] \in AllPieces
  <2>1. Len(rest) > 0
    BY <1>4, <1>10, EmptySeq
  <2>2. 1 \in 1..n - 1 /\ 1 \in 1..n /\ 2 \in 1..n /\ 2 = 1 + 1
    BY <1>2, <1>4, <2>1
  <2>3. rest[1] = s[2]
    BY <1>4, <2>2
  <2>4. s[2] \in AllPieces
    BY <1>1, <1>a, <2>2, ElementOfSeq
  <2> QED BY <1>3, <2>2, <2>3, <2>4
<1> QED BY <1>7, <1>8, <1>9, <1>10 DEF rest

(* Two linked sequences join where the ends fit.                           *)
LEMMA LinkedJoin ==
  ASSUME NEW s, NEW t, Linked(s), Linked(t), t # <<>>,
         \A i \in 1..Len(s) : i = Len(s) => Follows(s[i], t[1])
  PROVE  /\ Linked(s \o t) /\ s \o t # <<>> /\ Len(s \o t) \in Nat
         /\ (s \o t)[1] = IF s = <<>> THEN t[1] ELSE s[1]
         /\ (s \o t)[Len(s \o t)] = t[Len(t)]
<1>1. s \in Seq(AllPieces) /\ t \in Seq(AllPieces)
  BY DEF Linked
<1>a. PICK n, m \in Nat : n = Len(s) /\ m = Len(t)
  BY <1>1, LenProperties
<1>2. m > 0
  BY <1>1, <1>a, EmptySeq
<1> DEFINE joined == s \o t
<1>3. /\ joined \in Seq(AllPieces) /\ Len(joined) = n + m
      /\ \A i \in 1..n + m : joined[i] = IF i <= n THEN s[i] ELSE t[i - n]
  BY <1>1, <1>a, ConcatProperties
<1>4. /\ \A i \in 1..n : i = n => Follows(s[i], t[1])
      /\ \A i, j \in 1..n : j = i + 1 => Follows(s[i], s[j])
      /\ \A i, j \in 1..m : j = i + 1 => Follows(t[i], t[j])
  BY <1>a DEF Linked
<1> HIDE DEF joined
<1>b. PICK k \in Nat : k = n + m
  OBVIOUS
<1>5. joined[k] = t[m]
  <2>1. m \in 1..m /\ ~(k <= n) /\ k - n = m /\ k \in 1..n + m
    BY <1>2, <1>b
  <2> QED BY <1>3, <2>1
<1>6. ASSUME NEW i \in 1..k, NEW j \in 1..k, j = i + 1 PROVE Follows(joined[i], joined[j])
  <2>1. CASE j <= n
    <3>1. i \in 1..n /\ j \in 1..n /\ i <= n
      BY <1>6, <2>1
    <3>2. joined[i] = s[i] /\ joined[j] = s[j]
      BY <1>3, <1>b, <2>1, <3>1
    <3> QED BY <1>4, <1>6, <3>1, <3>2
  <2>2. CASE i = n
    <3>1. i \in 1..n /\ i <= n /\ ~(j <= n) /\ j - n = 1
      BY <1>6, <2>2
    <3>2. joined[i] = s[i] /\ joined[j] = t[1]
      BY <1>3, <1>b, <3>1
    <3> QED BY <1>4, <2>2, <3>1, <3>2
  <2>3. CASE i > n
    <3>1. PICK a, b \in 1..m : a = i - n /\ b = j - n
      BY <1>6, <1>b, <2>3
    <3>2. b = a + 1 /\ ~(i <= n) /\ ~(j <= n)
      BY <1>6, <2>3, <3>1
    <3>3. joined[i] = t[a] /\ joined[j] = t[b]
      BY <1>3, <1>b, <3>1, <3>2
    <3> QED BY <1>4, <3>2, <3>3
  <2>4. j <= n \/ i = n \/ i > n
    BY <1>6
  <2> QED BY <2>1, <2>2, <2>3, <2>4
<1>7. Linked(joined)
  BY <1>3, <1>6, <1>b DEF Linked
<1>8. joined # <<>>
  BY <1>2, <1>3, EmptySeq
<1>9. joined[1] = IF s = <<>> THEN t[1] ELSE s[1]
  <2>1. 1 \in 1..n + m
    BY <1>2
  <2>2. CASE s = <<>>
    <3>1. n = 0
      BY <2>2, <1>a, EmptySeq
    <3>2. ~(1 <= n) /\ 1 - n = 1
      BY <3>1
    <3> QED BY <1>3, <2>1, <2>2, <3>2
  <2>3. CASE s # <<>>
    <3>1. 1 <= n
      BY <2>3, <1>1, <1>a, EmptySeq
    <3> QED BY <1>3, <2>1, <2>3, <3>1
  <2> QED BY <2>2, <2>3
<1> QED BY <1>3, <1>5, <1>7, <1>8, <1>9, <1>a, <1>b DEF joined

(* More of what the proxy delivers begins with a BEGIN.                    *)
LEMMA ChainJoin ==
  ASSUME NEW s, NEW t, Chain(s), Chain(t), t # <<>>, IsFirst(t[1])
  PROVE  /\ Chain(s \o t) /\ s \o t # <<>>
         /\ s = <<>> => IsFirst((s \o t)[1])
<1>1. Linked(s) /\ Linked(t) /\ \A i \in 1..Len(s) : i = Len(s) => Follows(s[i], t[1])
  BY DEF Chain, Follows
<1> DEFINE joined == s \o t
<1>2. /\ Linked(joined) /\ joined # <<>> /\ Len(joined) \in Nat
      /\ joined[1] = IF s = <<>> THEN t[1] ELSE s[1]
      /\ joined[Len(joined)] = t[Len(t)]
  BY <1>1, LinkedJoin
<1>3. Len(t) \in 1..Len(t)
  <2>1. t \in Seq(AllPieces)
    BY <1>1 DEF Linked
  <2> QED BY <2>1, EmptySeq
<1>4. IsLast(t[Len(t)])
  BY <1>3 DEF Chain
<1> HIDE DEF joined
<1>5. Chain(joined)
  BY <1>2, <1>4 DEF Chain
<1> QED BY <1>2, <1>5 DEF joined

(* The pieces of a line are linked, from its head to its tail.             *)
LEMMA PiecesLinked ==
  ASSUME NEW line \in Lines
  PROVE  /\ Linked(Pieces(line)) /\ Pieces(line) # <<>>
         /\ Pieces(line)[1] = Piece(line, "head")
         /\ Pieces(line)[Len(Pieces(line))] = Piece(line, "tail")
<1>1. \A part \in {"head", "middle", "tail"} :
        /\ Piece(line, part) \in AllPieces
        /\ Piece(line, part).line = line /\ Piece(line, part).part = part
  BY DEF AllPieces, Piece
<1> DEFINE h == Piece(line, "head")
           m == Piece(line, "middle")
           t == Piece(line, "tail")
<1>2. /\ h \in AllPieces /\ h.line = line /\ h.part = "head"
      /\ m \in AllPieces /\ m.line = line /\ m.part = "middle"
      /\ t \in AllPieces
  BY <1>1
<1>3. CASE Kind(line) = "note"
  <2>1. Follows(h, m) /\ Follows(m, m) /\ Follows(m, t)
    BY <1>2, <1>3 DEF Follows
  <2>2. Pieces(line) = <<h, m, m, t>>
    BY <1>3 DEF Pieces
  <2> HIDE DEF h, m, t
  <2>3. Linked(<<h, m, m, t>>)
    <3>1. /\ <<h, m, m, t>> \in Seq(AllPieces) /\ Len(<<h, m, m, t>>) = 4
          /\ <<h, m, m, t>>[1] = h /\ <<h, m, m, t>>[2] = m
          /\ <<h, m, m, t>>[3] = m /\ <<h, m, m, t>>[4] = t
      BY <1>2
    <3>2. \A i, j \in 1..4 : j = i + 1 => <<i, j>> \in {<<1, 2>>, <<2, 3>>, <<3, 4>>}
      OBVIOUS
    <3> DEFINE four == <<h, m, m, t>>
    <3> HIDE DEF four
    <3>3. ASSUME NEW i \in 1..4, NEW j \in 1..4, j = i + 1 PROVE Follows(four[i], four[j])
      BY <2>1, <3>1, <3>2, <3>3 DEF four
    <3> QED BY <3>1, <3>3 DEF Linked, four
  <2> QED BY <2>2, <2>3 DEF h, t
<1>4. CASE Kind(line) # "note"
  <2>1. Follows(h, t)
    BY <1>2, <1>4 DEF Follows
  <2>2. Pieces(line) = <<h, t>>
    BY <1>4 DEF Pieces
  <2> HIDE DEF h, m, t
  <2>3. Linked(<<h, t>>)
    BY <1>2, <2>1 DEF Linked
  <2> QED BY <2>2, <2>3 DEF h, t
<1> QED BY <1>3, <1>4

Texts(f, report) ==
  f = [n \in 0..Len(report) + 1 |->
         (IF n = 0 THEN <<>> ELSE f[n - 1]) \o Pieces([report |-> report, at |-> n])]

\* The text of an answer up to its line at a place.
Begun(text, report, at) ==
  /\ Linked(text) /\ text # <<>>
  /\ IsFirst(text[1]) /\ text[Len(text)] = Piece(LineAt(report, at), "tail")

(* The answer to SCAN_REQUEST runs from a BEGIN to an END.                 *)
LEMMA AnswerIsChain ==
  ASSUME NEW report \in Reports
  PROVE  Chain(Answer(report)) /\ Answer(report) # <<>> /\ IsFirst(Answer(report)[1])
<1>a. PICK size \in Nat : size = Len(report)
  BY ReportLength
<1>b. PICK last \in Nat : last = size + 1
  OBVIOUS
<1>1. ASSUME NEW n \in 0..last
      PROVE  LineAt(report, n) \in Lines /\ LineAt(report, n).at = n
             /\ LineAt(report, n).report = report
  BY <1>a, <1>b DEF LineAt, Lines
<1> DEFINE D == Seq(AllPieces)
           lines(n) == Pieces(LineAt(report, n))
           base == lines(0)
           G == [n \in 1..last |-> [d \in D |-> d \o lines(n)]]
<1>2. \A n \in 0..last : Linked(lines(n)) /\ lines(n) # <<>> /\ lines(n) \in D
        /\ lines(n)[1] = Piece(LineAt(report, n), "head")
        /\ lines(n)[Len(lines(n))] = Piece(LineAt(report, n), "tail")
  BY <1>1, PiecesLinked DEF Linked
<1> HIDE DEF lines
<1>3. 0 \in 0..last /\ last \in 0..last /\ \A n \in 1..last : n \in 0..last /\ n # 0
  OBVIOUS
<1>4. base \in D
  BY <1>2, <1>3
<1>5. \A n \in 1..last : \A d \in D : G[n][d] = d \o lines(n) /\ G[n][d] \in D
  <2> TAKE n \in 1..last
  <2>1. lines(n) \in D
    BY <1>2, <1>3
  <2> TAKE d \in D
  <2>2. d \o lines(n) \in D
    BY <2>1, ConcatProperties
  <2> QED BY <2>2
<1>6. G \in [1..last -> [D -> D]]
  BY <1>5
<1> HIDE DEF G, D, base
<1>7. PICK f \in [0..last -> D] : Goes(f, last, base, G)
  BY <1>4, <1>6, Recursion
<1>8. base = <<>> \o lines(0)
  BY <1>2, <1>3, ConcatEmptySeq DEF base, D
<1> DEFINE Rule(g) == [n \in 0..last |-> (IF n = 0 THEN <<>> ELSE g[n - 1]) \o lines(n)]
<1>9. f = Rule(f)
  <2>1. ASSUME NEW n \in 0..last
        PROVE  f[n] = (IF n = 0 THEN <<>> ELSE f[n - 1]) \o lines(n)
    <3>1. n # 0 => n \in 1..last /\ n - 1 \in 0..last
      OBVIOUS
    <3>2. n # 0 => G[n][f[n - 1]] = f[n - 1] \o lines(n)
      BY <1>5, <3>1
    <3> QED BY <1>7, <1>8, <3>2 DEF Goes
  <2> QED BY <1>7, <2>1
<1>10. Answer(report) = (CHOOSE g : Texts(g, report))[Len(report) + 1]
  BY DEF Answer, Texts
<1>11. \A g : Texts(g, report) <=> g = Rule(g)
  BY <1>a, <1>b DEF Texts, lines, LineAt
<1> DEFINE text == CHOOSE g : Texts(g, report)
<1>12. text = Rule(text)
  <2> HIDE DEF Rule
  <2> QED BY <1>9, <1>11
<1> HIDE DEF text
<1>13. \A n \in 0..last : text[n] = (IF n = 0 THEN <<>> ELSE text[n - 1]) \o lines(n)
  BY <1>12
<1> HIDE DEF Rule
<1> DEFINE Bad == {n \in 0..last : ~Begun(text[n], report, n)}
<1>14. ASSUME Bad # {} PROVE FALSE
  <2>1. Bad \subseteq Nat
    OBVIOUS
  <2>2. PICK n \in Bad : \A j \in Bad : n <= j
    BY <1>14, <2>1, Least, Zenon
  <2>3. n \in 0..last /\ ~Begun(text[n], report, n)
    BY <2>2
  <2>4. CASE n = 0
    <3>1. text[0] = lines(0)
      BY <1>3, <1>8, <1>13 DEF base
    <3>2. IsFirst(lines(0)[1])
      BY <1>1, <1>2, <1>3 DEF IsFirst, Piece
    <3> QED BY <1>2, <1>3, <2>3, <2>4, <3>1, <3>2 DEF Begun
  <2>5. CASE n # 0
    <3>1. PICK k \in 0..last : k = n - 1 /\ n = k + 1 /\ ~(n <= k)
      BY <2>3, <2>5
    <3>2. Begun(text[k], report, k)
      BY <2>2, <3>1
    <3>3. text[n] = text[k] \o lines(n)
      BY <1>13, <2>3, <2>5, <3>1
    <3>4. Follows(Piece(LineAt(report, k), "tail"), lines(n)[1])
      <4>1. LineAt(report, k).at <= Len(LineAt(report, k).report)
        BY <1>1, <1>a, <1>b, <2>3, <3>1
      <4>2. LineAt(LineAt(report, k).report, LineAt(report, k).at + 1) = LineAt(report, n)
        BY <1>1, <3>1
      <4> QED BY <1>2, <2>3, <4>1, <4>2 DEF Follows, Piece
    <3> DEFINE before == text[k]
               more == lines(n)
    <3>5. /\ Linked(before) /\ Linked(more) /\ more # <<>>
          /\ \A i \in 1..Len(before) : i = Len(before) => Follows(before[i], more[1])
      BY <1>2, <2>3, <3>2, <3>4 DEF Begun
    <3>6. IsFirst(before[1]) /\ before # <<>> /\ more[Len(more)] = Piece(LineAt(report, n), "tail")
      BY <1>2, <2>3, <3>2 DEF Begun
    <3> HIDE DEF before, more
    <3>7. Begun(before \o more, report, n)
      BY <3>5, <3>6, LinkedJoin DEF Begun
    <3> QED BY <2>3, <3>3, <3>7 DEF before, more
  <2> QED BY <2>4, <2>5
<1>15. Begun(text[last], report, last)
  BY <1>3, <1>14
<1>16. Answer(report) = text[last]
  BY <1>10, <1>a, <1>b DEF text
<1>17. IsLast(Piece(LineAt(report, last), "tail"))
  BY <1>1, <1>3, <1>a, <1>b DEF IsLast, Piece
<1> QED BY <1>15, <1>16, <1>17 DEF Begun, Chain

-----------------------------------------------------------------------------
(* What parse_proxy_line makes of a line.                                  *)
LEMMA Kinds ==
  ASSUME NEW line \in Lines
  PROVE  /\ Kind(line) = "begin" <=> line.at = 0
         /\ Kind(line) = "end" <=> line.at = Len(line.report) + 1
         /\ line.at \in 1..Len(line.report) =>
              /\ Kind(line) = (IF line.report[line.at] = Note THEN "note" ELSE "host")
              /\ line.report[line.at] \in Hosts \union {Note}
         /\ line.at = 0 \/ line.at \in 1..Len(line.report) \/ line.at = Len(line.report) + 1
<1>1. line.report \in Reports /\ line.at \in Nat /\ line.at <= Len(line.report) + 1
  BY DEF Lines
<1>a. PICK size \in Nat : size = Len(line.report)
  BY <1>1, ReportLength
<1>b. PICK at \in Nat : at = line.at
  BY <1>1
<1>2. at = 0 \/ at \in 1..size \/ at = size + 1
  BY <1>1, <1>a, <1>b
<1>3. CASE at = 0
  <2>1. ~(at \in 1..size) /\ at # size + 1
    BY <1>3
  <2> QED BY <1>3, <1>a, <1>b, <2>1 DEF Kind
<1>4. CASE at \in 1..size
  <2>1. at # 0 /\ at # size + 1 /\ ~(at > size)
    BY <1>4
  <2>2. Kind(line) = IF line.report[line.at] = Note THEN "note" ELSE "host"
    BY <1>4, <1>a, <1>b, <2>1 DEF Kind
  <2>3. line.report[line.at] \in Hosts \union {Note}
    BY <1>1, <1>4, <1>a, <1>b, ReportLength, ElementOfSeq
  <2> QED BY <1>4, <1>a, <1>b, <2>1, <2>2, <2>3
<1>5. CASE at = size + 1
  <2>1. ~(at \in 1..size) /\ at # 0 /\ at > size
    BY <1>5
  <2> QED BY <1>5, <1>a, <1>b, <2>1 DEF Kind
<1> QED BY <1>2, <1>3, <1>4, <1>5

Clients == [hosts : Seq(Hosts), running : BOOLEAN, told : Seq(Hosts) \union {None},
            disturbed : BOOLEAN, left : Seq(Hosts), buffer : Seq(AllPieces)]

Listed(list, host) == IF Len(list) < MaxHosts THEN Append(list, host) ELSE list

LEMMA ListedIsList ==
  ASSUME NEW list \in Seq(Hosts), NEW host \in Hosts
  PROVE  Listed(list, host) \in Seq(Hosts)
BY AppendProperties DEF Listed

LEMMA HostsInIsList == \A report \in Reports : HostsIn(report) \in Seq(Hosts)
<1> TAKE report \in Reports
<1>1. Len(report) \in 0..Len(report)
  BY ReportLength
<1> QED BY <1>1, FirstStep

\* What parse_proxy_line makes of a line that is whole.
(* What a whole line changes.                                              *)
IsParsed(client, line, after) ==
  /\ after \in Clients /\ after.buffer = client.buffer
  /\ Kind(line) # "begin" => after.left = client.left
  /\ Kind(line) = "note" => after = client
  /\ Kind(line) = "begin" => /\ after.hosts = <<>> /\ after.told = None
                             /\ after.disturbed = FALSE /\ after.left = <<>>
  /\ Kind(line) = "host" => /\ after.hosts = Listed(client.hosts, line.report[line.at])
                            /\ after.told = None
                            /\ after.disturbed = client.disturbed
  /\ Kind(line) = "end" =>
       /\ after.hosts = client.hosts
       /\ after.told = IF client.disturbed THEN None ELSE HostsIn(line.report)
       /\ after.disturbed = client.disturbed

LEMMA ParseWhole ==
  ASSUME NEW client \in Clients, NEW line \in Lines, NEW kept \in BOOLEAN, NEW after,
         after = Parse(client, Pieces(line), kept)
  PROVE  IsParsed(client, line, after)
<1> DEFINE chunk == Pieces(line)
<1>1. chunk[1].line = line /\ chunk[1].part = "head"
  <2>1. chunk[1] = Piece(line, "head")
    BY PiecesLinked
  <2> QED BY <2>1 DEF Piece
<1>2. CASE Kind(line) = "note"
  <2>1. after = client
    BY <1>1, <1>2 DEF Parse
  <2> QED BY <1>2, <2>1 DEF IsParsed
<1>3. CASE Kind(line) = "begin"
  <2>1. after = [client EXCEPT !.hosts = <<>>, !.running = TRUE, !.told = None,
                               !.disturbed = FALSE, !.left = <<>>]
    BY <1>1, <1>3 DEF Parse
  <2>2. <<>> \in Seq(Hosts)
    BY EmptySeq
  <2> QED BY <1>3, <2>1, <2>2 DEF Clients, IsParsed
<1>4. CASE Kind(line) = "host"
  <2> DEFINE host == line.report[line.at]
  <2>1. after = [client EXCEPT !.hosts = Listed(client.hosts, host), !.told = None]
    BY <1>1, <1>4 DEF Parse, Listed
  <2>2. host \in Hosts
    BY <1>4, Kinds
  <2>3. Listed(client.hosts, host) \in Seq(Hosts)
    BY <2>2, ListedIsList DEF Clients
  <2> HIDE DEF host
  <2>4. /\ after \in Clients /\ after.buffer = client.buffer /\ after.left = client.left
        /\ after.hosts = Listed(client.hosts, host)
        /\ after.told = None /\ after.disturbed = client.disturbed
    BY <2>1, <2>3 DEF Clients
  <2> QED BY <1>4, <2>4 DEF host, IsParsed
<1>5. CASE Kind(line) = "end"
  <2> DEFINE known == IF client.disturbed THEN None ELSE HostsIn(line.report)
  <2>1. after = [client EXCEPT !.running = FALSE, !.told = known]
    BY <1>1, <1>5 DEF Parse
  <2>2. line.report \in Reports
    BY DEF Lines
  <2>3. known \in Seq(Hosts) \union {None}
    BY <2>2, HostsInIsList
  <2> HIDE DEF known
  <2>4. /\ after \in Clients /\ after.buffer = client.buffer /\ after.hosts = client.hosts
        /\ after.left = client.left /\ after.told = known /\ after.disturbed = client.disturbed
    BY <2>1, <2>3 DEF Clients
  <2> QED BY <1>5, <2>4 DEF known, IsParsed
<1>6. Kind(line) \in {"note", "begin", "host", "end"}
  BY Kinds
<1> QED BY <1>2, <1>3, <1>4, <1>5, <1>6

\* What does not begin with the beginning of a line is taken for nothing, and
\* neither is what begins a Note.
LEMMA ParseNothing ==
  ASSUME NEW client, NEW chunk, NEW kept \in BOOLEAN,
         chunk[1].part # "head" \/ Kind(chunk[1].line) = "note",
         NEW after, after = Parse(client, chunk, kept)
  PROVE  after = client
BY DEF Parse

(* What is made of a chunk that is not a line.                             *)
IsMisread(client, chunk, after) ==
  LET line == chunk[1].line
  IN \/ after = client
     \/ /\ Kind(line) = "begin"
        /\ after = [client EXCEPT !.hosts = <<>>, !.running = TRUE, !.told = None]
     \/ /\ Kind(line) = "host" /\ chunk[1].part = "head"
        /\ after = [client EXCEPT !.hosts = Listed(client.hosts, line.report[line.at]),
                                  !.told = None]
     \/ Kind(line) = "end" /\ after = [client EXCEPT !.running = FALSE, !.told = None]

LEMMA ParseMisread ==
  ASSUME NEW client \in Clients, NEW chunk, chunk[1] \in AllPieces, NEW kept \in BOOLEAN,
         chunk # Pieces(chunk[1].line), NEW after, after = Parse(client, chunk, kept)
  PROVE  IsMisread(client, chunk, after) /\ after \in Clients
<1> DEFINE line == chunk[1].line
<1>1. line \in Lines
  BY DEF AllPieces
<1>2. IsMisread(client, chunk, after)
  <2>1. CASE chunk[1].part # "head" \/ ~kept \/ Kind(line) = "note"
    <3>1. after = client
      BY <2>1 DEF Parse
    <3> QED BY <3>1 DEF IsMisread
  <2>2. CASE ~(chunk[1].part # "head" \/ ~kept \/ Kind(line) = "note")
    <3>1. Kind(line) \in {"begin", "host", "end"}
      BY <1>1, <2>2, Kinds
    <3>2. CASE Kind(line) = "begin"
      <4>1. after = [client EXCEPT !.hosts = <<>>, !.running = TRUE, !.told = None,
                                   !.disturbed = client.disturbed, !.left = client.left]
        BY <2>2, <3>2 DEF Parse, Clients
      <4>2. after = [client EXCEPT !.hosts = <<>>, !.running = TRUE, !.told = None]
        BY <4>1 DEF Clients
      <4> QED BY <3>2, <4>2 DEF IsMisread
    <3>3. CASE Kind(line) = "host"
      <4>1. after = [client EXCEPT !.hosts = Listed(client.hosts, line.report[line.at]),
                                   !.told = None]
        BY <2>2, <3>3 DEF Parse, Listed
      <4> QED BY <2>2, <3>3, <4>1 DEF IsMisread
    <3>4. CASE Kind(line) = "end"
      <4>1. after = [client EXCEPT !.running = FALSE, !.told = None]
        BY <2>2, <3>4 DEF Parse
      <4> QED BY <3>4, <4>1 DEF IsMisread
    <3> QED BY <3>1, <3>2, <3>3, <3>4
  <2> QED BY <2>1, <2>2
<1>3. <<>> \in Seq(Hosts)
  BY EmptySeq
<1>4. Kind(line) = "host" => Listed(client.hosts, line.report[line.at]) \in Seq(Hosts)
  <2>1. Kind(line) = "host" => line.report[line.at] \in Hosts
    BY <1>1, Kinds
  <2> QED BY <2>1, ListedIsList DEF Clients
<1>5. after \in Clients
  <2> DEFINE list == Listed(client.hosts, line.report[line.at])
  <2>1. \/ after = client
        \/ after = [client EXCEPT !.hosts = <<>>, !.running = TRUE, !.told = None]
        \/ /\ list \in Seq(Hosts)
           /\ after = [client EXCEPT !.hosts = list, !.told = None]
        \/ after = [client EXCEPT !.running = FALSE, !.told = None]
    BY <1>2, <1>4 DEF IsMisread
  <2> HIDE DEF list
  <2> QED BY <1>3, <2>1 DEF Clients
<1> QED BY <1>2, <1>5

\* While what was received is not known to be whole, only a BEGIN changes that.
IsDisturbed(client, chunk, after) ==
  /\ after \in Clients /\ after.buffer = client.buffer /\ after.told = None
  /\ \/ after.disturbed = TRUE
     \/ /\ after.disturbed = FALSE /\ after.hosts = <<>> /\ after.left = <<>>
        /\ chunk = Pieces(chunk[1].line) /\ Kind(chunk[1].line) = "begin"

LEMMA ParseDisturbed ==
  ASSUME NEW client \in Clients, NEW chunk, chunk[1] \in AllPieces, NEW kept \in BOOLEAN,
         client.told = None, client.disturbed = TRUE,
         NEW after, after = Parse(client, chunk, kept)
  PROVE  IsDisturbed(client, chunk, after)
<1> DEFINE line == chunk[1].line
<1>1. line \in Lines
  BY DEF AllPieces
<1>2. CASE chunk = Pieces(line)
  <2>1. after = Parse(client, Pieces(line), kept)
    BY <1>2
  <2> HIDE DEF line
  <2>2. Kind(line) \in {"note", "begin", "host", "end"}
    BY <1>1, Kinds
  <2>0. IsParsed(client, line, after)
    BY <1>1, <2>1, ParseWhole
  <2>3. after.told = None /\ after \in Clients /\ after.buffer = client.buffer
    BY <2>0, <2>2 DEF IsParsed
  <2>4. Kind(line) # "begin" => after.disturbed = TRUE
    BY <2>0, <2>2 DEF IsParsed
  <2>5. Kind(line) = "begin" => after.disturbed = FALSE /\ after.hosts = <<>>
                               /\ after.left = <<>>
    BY <2>0 DEF IsParsed
  <2> QED BY <1>2, <2>3, <2>4, <2>5 DEF line, IsDisturbed
<1>3. CASE chunk # Pieces(line)
  <2>1. IsMisread(client, chunk, after) /\ after \in Clients
    BY <1>3, ParseMisread
  <2>2. \/ after = client
        \/ after = [client EXCEPT !.hosts = <<>>, !.running = TRUE, !.told = None]
        \/ after = [client EXCEPT !.hosts = Listed(client.hosts, line.report[line.at]),
                                  !.told = None]
        \/ after = [client EXCEPT !.running = FALSE, !.told = None]
    BY <2>1 DEF IsMisread
  <2> HIDE DEF line
  <2>3. after.buffer = client.buffer /\ after.told = None /\ after.disturbed = TRUE
    BY <2>2 DEF Clients
  <2> QED BY <2>1, <2>3 DEF IsDisturbed
<1> QED BY <1>2, <1>3

-----------------------------------------------------------------------------
(***************************************************************************)
(* Where the client is in what is delivered: before the end of a BEGIN     *)
(* that will be joined to what the buffer holds; in the middle of a line,  *)
(* or between two; a Note may have lost its beginning.  Within a report    *)
(* its list is that of the items before the line, after the host a joined  *)
(* BEGIN was taken for; after it, the next line is a BEGIN.                *)
(***************************************************************************)
Awaits(buffer, pieces, line) ==
  \/ buffer = <<>> /\ pieces[1] = Piece(line, "head")
  \/ /\ Kind(line) # "note" /\ pieces[1] = Piece(line, "tail")
     /\ buffer = <<Piece(line, "head")>>
  \/ /\ Kind(line) = "note" /\ pieces[1] \in {Piece(line, "middle"), Piece(line, "tail")}
     /\ buffer = <<>> \/ buffer[1].line = line

Before(client) == {<<>>, client.left}

InReport(client, pieces) ==
  /\ pieces # <<>> /\ client.told = None
  /\ \E report \in Reports, pre \in Before(client) : \E n \in 0..Len(report) :
       /\ client.hosts = Capped(pre \o First(report)[n])
       /\ Awaits(client.buffer, pieces, LineAt(report, n + 1))

IsTold(client) ==
  client.told # None => client.hosts \in {Capped(client.told), Capped(client.left \o client.told)}

AfterReport(client, pieces) ==
  /\ IsTold(client)
  /\ \/ client.buffer = <<>> /\ (pieces # <<>> => IsFirst(pieces[1]))
     \/ \E line \in Lines :
          /\ Kind(line) = "begin" /\ client.buffer = <<Piece(line, "head")>>
          /\ pieces # <<>> /\ pieces[1] = Piece(line, "tail")

Joining(client, pieces) ==
  /\ client.hosts = <<>> /\ client.told = None
  /\ pieces # <<>> /\ pieces[1].line.at = 0
  /\ HostsBegun(client.buffer) \in Before(client)

Faithful(client, pieces) ==
  /\ client \in Clients /\ Chain(pieces)
  /\ \/ client.disturbed = TRUE /\ client.told = None
     \/ /\ client.disturbed = FALSE
        /\ Joining(client, pieces) \/ InReport(client, pieces) \/ AfterReport(client, pieces)

Next1(piece, rest) ==
  /\ rest = <<>> => IsLast(piece)
  /\ rest # <<>> => Follows(piece, rest[1]) /\ rest[1] \in AllPieces

LEMMA LineFields ==
  ASSUME NEW report \in Reports, NEW n \in 0..Len(report)
  PROVE  /\ LineAt(report, n + 1) \in Lines
         /\ LineAt(report, n + 1).report = report /\ LineAt(report, n + 1).at = n + 1
BY ReportLength DEF LineAt, Lines

\* A whole line but END is followed by the next line of its report.
LEMMA NextLine ==
  ASSUME NEW line \in Lines, Kind(line) # "end", NEW rest, Next1(Piece(line, "tail"), rest)
  PROVE  rest # <<>> /\ rest[1] = Piece(LineAt(line.report, line.at + 1), "head")
<1>1. line.report \in Reports /\ line.at \in Nat /\ line.at <= Len(line.report) + 1
  BY DEF Lines
<1>a. PICK size, at \in Nat : size = Len(line.report) /\ at = line.at
  BY <1>1, ReportLength
<1>2. at # size + 1
  BY <1>a, Kinds
<1>3. at <= size
  BY <1>1, <1>2, <1>a
<1>4. Piece(line, "tail").line = line /\ Piece(line, "tail").part = "tail"
  BY DEF Piece
<1>5. ~IsLast(Piece(line, "tail"))
  BY <1>2, <1>4, <1>a DEF IsLast
<1>6. rest # <<>> /\ Follows(Piece(line, "tail"), rest[1])
  BY <1>5 DEF Next1
<1> QED BY <1>4, <1>5, <1>6 DEF Follows

LEMMA AfterBegin ==
  ASSUME NEW client \in Clients, NEW line \in Lines, Kind(line) = "begin", NEW rest,
         Next1(Piece(line, "tail"), rest), NEW pre \in Before(client),
         client.hosts = Capped(pre), client.told = None, client.buffer = <<>>
  PROVE  InReport(client, rest)
<1>1. line.report \in Reports /\ line.at = 0
  BY Kinds DEF Lines
<1>2. rest # <<>> /\ rest[1] = Piece(LineAt(line.report, 0 + 1), "head")
  BY <1>1, NextLine
<1>3. 0 \in 0..Len(line.report) /\ First(line.report)[0] = <<>>
  <2>1. Len(line.report) \in Nat
    BY <1>1, ReportLength
  <2>2. First(line.report)[0] = <<>>
    BY <1>1, FirstStep
  <2> QED BY <2>1, <2>2
<1>4. client.hosts = Capped(pre \o First(line.report)[0])
  <2>1. pre \in Seq(Hosts)
    BY EmptySeq DEF Before, Clients
  <2>2. pre \o <<>> = pre
    BY <2>1, ConcatEmptySeq
  <2> QED BY <1>3, <2>2
<1> QED BY <1>1, <1>2, <1>3, <1>4 DEF InReport, Awaits

\* An item of a report, received: the list is that of one more item.
LEMMA AfterItem ==
  ASSUME NEW client \in Clients, NEW report \in Reports, NEW n \in 0..Len(report),
         NEW line \in Lines, line = LineAt(report, n + 1), Kind(line) # "end",
         NEW rest, Next1(Piece(line, "tail"), rest), NEW pre \in Before(client), NEW list,
         list = Capped(pre \o First(report)[n]),
         client.hosts = IF report[n + 1] = Note THEN list ELSE Listed(list, report[n + 1]),
         client.told = None, client.buffer = <<>>
  PROVE  InReport(client, rest)
<1>a. PICK size \in Nat : size = Len(report)
  BY ReportLength
<1>1. line.report = report /\ line.at = n + 1
  BY LineFields
<1>b. PICK k \in Nat : k = n + 1
  BY <1>a
<1>2. k \in 1..size
  <2>1. k # size + 1 /\ k # 0
    BY <1>1, <1>a, <1>b, Kinds
  <2> QED BY <2>1, <1>a, <1>b
<1>3. rest # <<>> /\ rest[1] = Piece(LineAt(report, k + 1), "head")
  BY <1>1, <1>b, NextLine
<1>4. report[k] \in Hosts \union {Note}
  BY <1>2, <1>a, ReportLength, ElementOfSeq
<1>5. /\ First(report)[n] \in Seq(Hosts)
      /\ First(report)[k] = First(report)[n] \o HostOf(report[k])
  <2>1. n = k - 1
    BY <1>a, <1>b
  <2> QED BY <1>2, <1>a, <2>1, FirstStep
<1> DEFINE some == First(report)[n]
           before == pre \o some
           item == HostOf(report[k])
<1>6. /\ before \in Seq(Hosts) /\ item \in Seq(Hosts)
      /\ pre \o First(report)[k] = before \o item
  <2>1. pre \in Seq(Hosts) /\ item \in Seq(Hosts)
    BY <1>4, EmptySeq DEF Before, Clients, HostOf
  <2>2. some \in Seq(Hosts) /\ First(report)[k] = some \o item
    BY <1>5
  <2> HIDE DEF some, item
  <2>3. (pre \o some) \o item = pre \o (some \o item) /\ pre \o some \in Seq(Hosts)
    BY <2>1, <2>2, ConcatAssociative, ConcatProperties
  <2> QED BY <2>1, <2>2, <2>3
<1>7. Capped(pre \o First(report)[k]) =
        IF report[k] = Note THEN list ELSE Listed(list, report[k])
  <2>1. CASE report[k] = Note
    <3>1. before \o item = before
      BY <1>6, <2>1, ConcatEmptySeq DEF HostOf
    <3> QED BY <1>6, <2>1, <3>1
  <2>2. CASE report[k] # Note
    <3>1. report[k] \in Hosts
      BY <1>4, <2>2
    <3>2. before \o item = Append(before, report[k])
      BY <1>6, <2>2, <3>1, AppendIsConcat DEF HostOf
    <3>3. list = Capped(before)
      OBVIOUS
    <3> HIDE DEF before, item
    <3>4. Capped(Append(before, report[k])) = Listed(Capped(before), report[k])
      BY <1>6, <3>1, CappedGrows DEF Listed
    <3> QED BY <1>6, <2>2, <3>2, <3>3, <3>4
  <2> QED BY <2>1, <2>2
<1>8. client.hosts = Capped(pre \o First(report)[k])
  BY <1>7, <1>b
<1>9. k \in 0..Len(report)
  BY <1>2, <1>a
<1>10. Awaits(client.buffer, rest, LineAt(report, k + 1))
  BY <1>3 DEF Awaits
<1> HIDE DEF before, some, item
<1> QED BY <1>3, <1>8, <1>9, <1>10 DEF InReport

\* END: the list is that of the report it ends.
LEMMA AfterEnd ==
  ASSUME NEW client \in Clients, NEW report \in Reports, NEW n \in 0..Len(report),
         NEW line \in Lines, line = LineAt(report, n + 1), Kind(line) = "end",
         NEW rest, Next1(Piece(line, "tail"), rest), NEW pre \in Before(client),
         client.hosts = Capped(pre \o First(report)[n]), client.told = HostsIn(report),
         client.buffer = <<>>
  PROVE  AfterReport(client, rest)
<1>a. PICK size \in Nat : size = Len(report)
  BY ReportLength
<1>1. line.report = report /\ line.at = n + 1
  BY LineFields
<1>2. n = size
  <2>1. line.at = Len(line.report) + 1
    BY Kinds
  <2> QED BY <1>1, <1>a, <2>1
<1>3. client.hosts = Capped(pre \o client.told)
  BY <1>2, <1>a, FirstStep
<1>4. <<>> \o client.told = client.told
  BY HostsInIsList, ConcatEmptySeq
<1>5. IsTold(client)
  BY <1>3, <1>4 DEF IsTold, Before
<1>6. Piece(line, "tail").line = line /\ Piece(line, "tail").part = "tail"
  BY DEF Piece
<1>7. ~(line.at <= Len(line.report))
  BY <1>1, <1>2, <1>a
<1>8. rest # <<>> => IsFirst(rest[1])
  BY <1>6, <1>7 DEF Next1, Follows
<1> QED BY <1>5, <1>8 DEF AfterReport

-----------------------------------------------------------------------------
(* One piece more: inside a line, or at its end.                           *)
LEMMA TakePart ==
  ASSUME NEW client \in Clients, NEW piece \in AllPieces, piece.part # "tail", NEW kept,
         NEW after, after = Take(client, piece, kept)
  PROVE  /\ after \in Clients /\ after.buffer = Append(client.buffer, piece)
         /\ after.hosts = client.hosts /\ after.told = client.told
         /\ after.disturbed = client.disturbed /\ after.left = client.left
<1> DEFINE chunk == Append(client.buffer, piece)
<1>1. after = [client EXCEPT !.buffer = chunk]
  BY DEF Take
<1>2. client.buffer \in Seq(AllPieces)
  BY DEF Clients
<1>3. chunk \in Seq(AllPieces)
  BY <1>2, AppendProperties
<1> HIDE DEF chunk
<1>4. /\ after \in Clients /\ after.buffer = chunk
      /\ after.hosts = client.hosts /\ after.told = client.told
      /\ after.disturbed = client.disturbed /\ after.left = client.left
  BY <1>1, <1>3 DEF Clients
<1> QED BY <1>4 DEF chunk

LEMMA TakeEnd ==
  ASSUME NEW client \in Clients, NEW piece \in AllPieces, piece.part = "tail", NEW kept,
         NEW after, after = Take(client, piece, kept)
  PROVE  \E empty \in Clients :
           /\ empty.buffer = <<>> /\ empty.hosts = client.hosts
           /\ empty.told = client.told /\ empty.disturbed = client.disturbed
           /\ empty.left = client.left
           /\ after = Parse(empty, Append(client.buffer, piece), kept)
<1> DEFINE empty == [client EXCEPT !.buffer = <<>>]
<1>1. after = Parse(empty, Append(client.buffer, piece), kept)
  BY DEF Take
<1>2. <<>> \in Seq(AllPieces)
  BY EmptySeq
<1>3. /\ empty \in Clients /\ empty.buffer = <<>> /\ empty.hosts = client.hosts
      /\ empty.told = client.told /\ empty.disturbed = client.disturbed
      /\ empty.left = client.left
  BY <1>2 DEF Clients
<1> HIDE DEF empty
<1> QED BY <1>1, <1>3

LEMMA Pair ==
  ASSUME NEW S, NEW a \in S, NEW b \in S
  PROVE  Append(<<a>>, b) = <<a, b>>
<1>1. /\ <<a>> \in Seq(S) /\ Len(<<a>>) = 1 /\ <<a>>[1] = a
      /\ <<a, b>> \in Seq(S) /\ Len(<<a, b>>) = 2 /\ <<a, b>>[1] = a /\ <<a, b>>[2] = b
  OBVIOUS
<1> DEFINE one == <<a>>
           two == <<a, b>>
           second == Append(one, b)
<1> HIDE DEF one, two
<1>2. /\ one \in Seq(S) /\ Len(one) = 1 /\ one[1] = a
      /\ two \in Seq(S) /\ Len(two) = 2 /\ two[1] = a /\ two[2] = b
  BY <1>1 DEF one, two
<1>a. one \in Seq(S)
  BY <1>2
<1>3. /\ second \in Seq(S) /\ Len(second) = Len(one) + 1 /\ second[Len(one) + 1] = b
      /\ \A i \in 1..Len(one) : second[i] = one[i]
  BY <1>a, AppendProperties
<1> HIDE DEF second
<1>4. second = two
  <2>1. \A i \in 1..2 : i = 1 \/ i = 2
    OBVIOUS
  <2>2. Len(second) = 2 /\ \A i \in 1..2 : second[i] = two[i]
    BY <1>2, <1>3, <2>1
  <2> QED BY <1>2, <1>3, <2>2, SeqEqual
<1> QED BY <1>4 DEF one, two, second

\* The pieces of a line, and its chunk when they are two.
LEMMA Chunks ==
  ASSUME NEW line \in Lines
  PROVE  LET h == Piece(line, "head")
             m == Piece(line, "middle")
             t == Piece(line, "tail")
         IN /\ Append(<<>>, h) = <<h>>
            /\ Kind(line) # "note" => Append(<<h>>, t) = Pieces(line)
            /\ h.part = "head" /\ m.part = "middle" /\ t.part = "tail"
            /\ h.line = line /\ m.line = line /\ t.line = line
            /\ h \in AllPieces /\ m \in AllPieces /\ t \in AllPieces
<1> DEFINE h == Piece(line, "head")
           m == Piece(line, "middle")
           t == Piece(line, "tail")
<1>1. /\ h.part = "head" /\ m.part = "middle" /\ t.part = "tail"
      /\ h.line = line /\ m.line = line /\ t.line = line
      /\ h \in AllPieces /\ m \in AllPieces /\ t \in AllPieces
  BY DEF Piece, AllPieces
<1>2. Kind(line) # "note" => Pieces(line) = <<h, t>>
  BY DEF Pieces
<1> HIDE DEF h, m, t
<1>3. Append(<<>>, h) = <<h>>
  OBVIOUS
<1>4. Append(<<h>>, t) = <<h, t>>
  BY <1>1, Pair
<1> QED BY <1>1, <1>2, <1>3, <1>4 DEF h, m, t

(* A chunk begins with what was in the buffer, if anything was.            *)
LEMMA ChunkEnds ==
  ASSUME NEW buffer \in Seq(AllPieces), NEW piece \in AllPieces, NEW chunk,
         chunk = Append(buffer, piece)
  PROVE  /\ chunk[1] \in AllPieces /\ chunk[Len(chunk)] = piece /\ chunk # <<>>
         /\ chunk[1] = IF buffer = <<>> THEN piece ELSE buffer[1]
<1>1. /\ chunk \in Seq(AllPieces) /\ Len(chunk) = Len(buffer) + 1
      /\ chunk[Len(buffer) + 1] = piece /\ chunk # <<>>
      /\ \A i \in 1..Len(buffer) : chunk[i] = buffer[i]
  BY AppendProperties
<1>a. PICK n \in Nat : n = Len(buffer)
  BY LenProperties
<1>2. 1 \in 1..n + 1
  OBVIOUS
<1>3. chunk[1] = IF buffer = <<>> THEN piece ELSE buffer[1]
  <2>1. CASE buffer = <<>>
    BY <1>1, <2>1, EmptySeq
  <2>2. CASE buffer # <<>>
    <3>1. 1 \in 1..n
      BY <1>a, <2>2, EmptySeq
    <3> QED BY <1>1, <1>a, <2>2, <3>1
  <2> QED BY <2>1, <2>2
<1> QED BY <1>1, <1>2, <1>3, <1>a, ElementOfSeq

LEMMA BegunStays ==
  ASSUME NEW buffer \in Seq(AllPieces), NEW piece \in AllPieces, ~IsHost(piece)
  PROVE  HostsBegun(Append(buffer, piece)) = HostsBegun(buffer)
<1> DEFINE chunk == Append(buffer, piece)
<1>1. chunk # <<>> /\ chunk[1] = IF buffer = <<>> THEN piece ELSE buffer[1]
  BY ChunkEnds
<1> HIDE DEF chunk
<1>2. HostsBegun(chunk) = HostsBegun(buffer)
  BY <1>1 DEF HostsBegun
<1> QED BY <1>2 DEF chunk

(* The line of a BEGIN.                                                    *)
LEMMA BeginPiece ==
  ASSUME NEW piece \in AllPieces, piece.line.at = 0
  PROVE  /\ piece.line \in Lines /\ Kind(piece.line) = "begin" /\ ~IsHost(piece)
         /\ piece = Piece(piece.line, piece.part)
<1>1. piece.line \in Lines /\ piece = Piece(piece.line, piece.part)
  BY DEF AllPieces, Piece
<1>2. Kind(piece.line) = "begin"
  BY <1>1, Kinds
<1> QED BY <1>1, <1>2 DEF IsHost

\* A piece that is not the end of a line.
LEMMA TakeInside ==
  ASSUME NEW client, NEW pieces, Faithful(client, pieces), pieces # <<>>,
         pieces[1].part # "tail", NEW kept \in BOOLEAN
  PROVE  Faithful(Take(client, pieces[1], kept), Tail(pieces))
<1> DEFINE piece == pieces[1]
           rest == Tail(pieces)
           after == Take(client, piece, kept)
<1>1. client \in Clients /\ Chain(pieces)
  BY DEF Faithful
<1>2. piece \in AllPieces /\ Chain(rest) /\ Next1(piece, rest)
  BY <1>1, ChainTail DEF Next1
<1>3. /\ after \in Clients /\ after.buffer = Append(client.buffer, piece)
      /\ after.hosts = client.hosts /\ after.told = client.told
      /\ after.disturbed = client.disturbed /\ after.left = client.left
  BY <1>1, <1>2, TakePart
<1>4. rest # <<>> /\ Follows(piece, rest[1]) /\ ~IsLast(piece)
  BY <1>2 DEF Next1, IsLast
<1> HIDE DEF rest, after
<1>5. ASSUME InReport(client, pieces) PROVE InReport(after, rest)
  <2>0. PICK report \in Reports, pre \in Before(client) :
          \E n \in 0..Len(report) : /\ client.hosts = Capped(pre \o First(report)[n])
                                    /\ Awaits(client.buffer, pieces, LineAt(report, n + 1))
    BY <1>5 DEF InReport
  <2>1. PICK n \in 0..Len(report) : /\ client.hosts = Capped(pre \o First(report)[n])
                                    /\ Awaits(client.buffer, pieces, LineAt(report, n + 1))
    BY <2>0
  <2> DEFINE line == LineAt(report, n + 1)
             h == Piece(line, "head")
             m == Piece(line, "middle")
             t == Piece(line, "tail")
  <2>2. line \in Lines
    BY LineFields
  <2> HIDE DEF line
  <2>3. /\ Append(<<>>, h) = <<h>>
        /\ h.part = "head" /\ m.part = "middle" /\ t.part = "tail"
        /\ h.line = line /\ m.line = line
    BY <2>2, Chunks
  <2>4. Awaits(client.buffer, pieces, line)
    BY <2>1 DEF line
  <2>5. Awaits(after.buffer, rest, line)
    <3>1. CASE client.buffer = <<>> /\ piece = h
      <4>1. after.buffer = <<h>> /\ <<h>>[1] = h
        BY <1>3, <2>3, <3>1
      <4>2. rest[1] = IF Kind(line) = "note" THEN m ELSE t
        BY <1>4, <2>3, <3>1 DEF Follows
      <4> QED BY <2>3, <4>1, <4>2 DEF Awaits
    <3>2. CASE /\ Kind(line) = "note" /\ piece = m
               /\ client.buffer = <<>> \/ client.buffer[1].line = line
      <4>1. rest[1] \in {m, t}
        BY <1>4, <2>3, <3>2 DEF Follows
      <4>2. after.buffer[1].line = line
        <5>1. client.buffer \in Seq(AllPieces)
          BY <1>1 DEF Clients
        <5>2. after.buffer[1] = IF client.buffer = <<>> THEN piece ELSE client.buffer[1]
          BY <1>2, <1>3, <5>1, ChunkEnds
        <5> QED BY <2>3, <3>2, <5>2
      <4> QED BY <3>2, <4>1, <4>2 DEF Awaits
    <3>3. piece # t
      BY <2>3
    <3> QED BY <2>4, <3>1, <3>2, <3>3 DEF Awaits
  <2>6. pre \in Before(after)
    BY <1>3, <2>0 DEF Before
  <2> QED BY <1>3, <1>4, <1>5, <2>1, <2>5, <2>6 DEF InReport, line
<1>j. ASSUME Joining(client, pieces) PROVE Joining(after, rest)
  <2>1. piece \in AllPieces /\ piece.line.at = 0
    BY <1>2, <1>j DEF Joining
  <2>2. Kind(piece.line) = "begin" /\ ~IsHost(piece)
    BY <2>1, BeginPiece
  <2>3. rest[1] = Piece(piece.line, "tail")
    BY <1>4, <2>2 DEF Follows
  <2>4. HostsBegun(after.buffer) = HostsBegun(client.buffer)
    <3>1. client.buffer \in Seq(AllPieces)
      BY <1>1 DEF Clients
    <3> QED BY <1>3, <2>1, <2>2, <3>1, BegunStays
  <2>5. rest[1].line.at = 0
    BY <2>1, <2>3 DEF Piece
  <2>6. HostsBegun(after.buffer) \in Before(after)
    BY <1>3, <1>j, <2>4 DEF Joining, Before
  <2> QED BY <1>3, <1>4, <1>j, <2>5, <2>6 DEF Joining
<1>6. ASSUME AfterReport(client, pieces) PROVE AfterReport(after, rest)
  <2>1. IsTold(after)
    BY <1>3, <1>6 DEF AfterReport, IsTold
  <2>2. client.buffer = <<>> /\ IsFirst(piece)
    <3>1. ASSUME NEW line \in Lines, piece = Piece(line, "tail") PROVE FALSE
      BY <3>1 DEF Piece
    <3> QED BY <1>6, <3>1 DEF AfterReport
  <2> DEFINE line == piece.line
  <2>3. line \in Lines /\ piece.part = "head" /\ line.at = 0
    BY <1>2, <2>2 DEF AllPieces, IsFirst
  <2>4. Kind(line) = "begin"
    BY <2>3, Kinds
  <2>5. piece = Piece(line, "head")
    BY <1>2, <2>3 DEF AllPieces, Piece
  <2>6. rest[1] = Piece(line, "tail")
    BY <1>4, <2>3, <2>4 DEF Follows
  <2> HIDE DEF line
  <2>7. after.buffer = <<Piece(line, "head")>>
    BY <1>3, <2>2, <2>3, <2>5, Chunks
  <2> QED BY <1>4, <2>1, <2>3, <2>4, <2>6, <2>7 DEF AfterReport
<1>7. Faithful(after, rest)
  BY <1>1, <1>2, <1>3, <1>5, <1>6, <1>j DEF Faithful, rest
<1> QED BY <1>7 DEF after, rest

\* The end of a line.
LEMMA TakeLast ==
  ASSUME NEW client, NEW pieces, Faithful(client, pieces), pieces # <<>>,
         pieces[1].part = "tail", NEW kept \in BOOLEAN
  PROVE  Faithful(Take(client, pieces[1], kept), Tail(pieces))
<1> DEFINE piece == pieces[1]
           rest == Tail(pieces)
           after == Take(client, piece, kept)
           chunk == Append(client.buffer, piece)
<1>1. client \in Clients /\ client.buffer \in Seq(AllPieces) /\ Chain(pieces)
  BY DEF Faithful, Clients
<1>2. piece \in AllPieces /\ Chain(rest) /\ Next1(piece, rest) /\ piece.part = "tail"
  BY <1>1, ChainTail DEF Next1
<1>3. PICK empty \in Clients :
           /\ empty.buffer = <<>> /\ empty.hosts = client.hosts
           /\ empty.told = client.told /\ empty.disturbed = client.disturbed
           /\ empty.left = client.left
           /\ after = Parse(empty, chunk, kept)
  BY <1>1, <1>2, TakeEnd
<1>4. /\ chunk[1] \in AllPieces /\ chunk[Len(chunk)] = piece
      /\ chunk[1] = IF client.buffer = <<>> THEN piece ELSE client.buffer[1]
  BY <1>1, <1>2, ChunkEnds
<1>5. piece.line \in Lines /\ piece = Piece(piece.line, "tail")
  BY <1>2 DEF AllPieces, Piece
<1> HIDE DEF rest, after, chunk, piece
<1>6. ASSUME client.disturbed = TRUE, client.told = None PROVE Faithful(after, rest)
  <2> DEFINE line == chunk[1].line
  <2>1. /\ after \in Clients /\ after.buffer = <<>> /\ after.told = None
        /\ \/ after.disturbed = TRUE
           \/ /\ after.disturbed = FALSE /\ after.hosts = <<>> /\ after.left = <<>>
              /\ chunk = Pieces(line) /\ Kind(line) = "begin"
    <3>1. empty.disturbed = TRUE /\ empty.told = None
      BY <1>3, <1>6
    <3>2. chunk[1] \in AllPieces /\ after = Parse(empty, chunk, kept)
      BY <1>3, <1>4
    <3>3. IsDisturbed(empty, chunk, after)
      BY <3>1, <3>2, ParseDisturbed
    <3> QED BY <1>3, <3>3 DEF IsDisturbed
  <2>2. line \in Lines
    BY <1>4 DEF AllPieces
  <2> HIDE DEF line
  <2>3. CASE after.disturbed = TRUE
    BY <1>2, <2>1, <2>3 DEF Faithful
  <2>4. CASE after.disturbed = FALSE /\ after.hosts = <<>> /\ chunk = Pieces(line)
             /\ Kind(line) = "begin"
    <3>1. piece = Piece(line, "tail")
      BY <1>4, <2>2, <2>4, PiecesLinked
    <3>2. <<>> \in Before(after) /\ after.hosts = Capped(<<>>)
      BY <2>4, CappedEmpty DEF Before
    <3>3. InReport(after, rest)
      BY <1>2, <2>1, <2>2, <2>4, <3>1, <3>2, AfterBegin
    <3> QED BY <1>2, <2>1, <2>4, <3>3 DEF Faithful
  <2> QED BY <2>1, <2>3, <2>4
<1>7. ASSUME client.disturbed = FALSE, AfterReport(client, pieces) PROVE Faithful(after, rest)
  <2>1. PICK line \in Lines : /\ Kind(line) = "begin" /\ client.buffer = <<Piece(line, "head")>>
                              /\ piece = Piece(line, "tail")
    BY <1>2, <1>7 DEF AfterReport, IsFirst, piece
  <2>2. chunk = Pieces(line)
    BY <2>1, Chunks DEF chunk
  <2>3. /\ after \in Clients /\ after.buffer = empty.buffer
        /\ after.hosts = <<>> /\ after.told = None /\ after.disturbed = FALSE
    <3>1. IsParsed(empty, line, after)
      BY <1>3, <2>2, ParseWhole
    <3> QED BY <2>1, <3>1 DEF IsParsed
  <2>4. InReport(after, rest)
    <3>1. <<>> \in Before(after) /\ after.hosts = Capped(<<>>)
      BY <2>3, CappedEmpty DEF Before
    <3> QED BY <1>2, <1>3, <2>1, <2>3, <3>1, AfterBegin
  <2> QED BY <1>2, <2>3, <2>4 DEF Faithful
<1>8. ASSUME client.disturbed = FALSE, InReport(client, pieces) PROVE Faithful(after, rest)
  <2>0. PICK report \in Reports, pre \in Before(client) :
          \E n \in 0..Len(report) : /\ client.hosts = Capped(pre \o First(report)[n])
                                    /\ Awaits(client.buffer, pieces, LineAt(report, n + 1))
    BY <1>8 DEF InReport
  <2>1. PICK n \in 0..Len(report) : /\ client.hosts = Capped(pre \o First(report)[n])
                                    /\ Awaits(client.buffer, pieces, LineAt(report, n + 1))
    BY <2>0
  <2> DEFINE line == LineAt(report, n + 1)
             h == Piece(line, "head")
             m == Piece(line, "middle")
             t == Piece(line, "tail")
             item == report[n + 1]
             list == Capped(pre \o First(report)[n])
  <2>2. line \in Lines /\ line.report = report /\ line.at = n + 1
    BY LineFields
  <2>3. /\ h.part = "head" /\ m.part = "middle" /\ t.part = "tail" /\ t.line = line
        /\ Kind(line) # "note" => Append(<<h>>, t) = Pieces(line)
    BY <2>2, Chunks
  <2>4. Awaits(client.buffer, pieces, line)
    BY <2>1
  <2>5. piece # h /\ piece # m
    BY <1>2, <2>3
  <2>6. /\ piece = t
        /\ Kind(line) # "note" => chunk = Pieces(line)
        /\ Kind(line) = "note" => chunk[1].part # "head" \/ Kind(chunk[1].line) = "note"
    <3> HIDE DEF line
    <3>1. CASE Kind(line) # "note" /\ piece = t /\ client.buffer = <<h>>
      BY <2>3, <3>1 DEF chunk
    <3>2. CASE /\ Kind(line) = "note" /\ piece = t
               /\ client.buffer = <<>> \/ client.buffer[1].line = line
      BY <1>4, <2>3, <3>2
    <3> QED BY <2>4, <2>5, <3>1, <3>2 DEF Awaits, piece
  <2>7. /\ Kind(line) = "begin" <=> n + 1 = 0
        /\ Kind(line) = "end" <=> n + 1 = Len(report) + 1
        /\ Kind(line) \notin {"begin", "end"} =>
             Kind(line) = (IF item = Note THEN "note" ELSE "host")
    BY <2>2, Kinds
  <2>8. Kind(line) # "begin"
    BY <2>7, ReportLength
  <2> HIDE DEF line, list, item
  <2>9. ASSUME Kind(line) = "note" PROVE Faithful(after, rest)
    <3>1. after = empty
      BY <1>3, <2>6, <2>9, ParseNothing
    <3>2. /\ after.hosts = list /\ after.told = None /\ after.buffer = <<>>
          /\ after.disturbed = FALSE /\ after \in Clients /\ pre \in Before(after)
      BY <1>3, <1>8, <2>0, <2>1, <3>1 DEF InReport, list, Before
    <3>3. item = Note
      BY <2>7, <2>9
    <3>4. InReport(after, rest)
      BY <1>2, <2>2, <2>6, <2>9, <3>2, <3>3, AfterItem DEF line, list, item
    <3> QED BY <1>2, <3>2, <3>4 DEF Faithful
  <2>10. ASSUME Kind(line) = "host" PROVE Faithful(after, rest)
    <3>1. chunk = Pieces(line)
      BY <2>6, <2>10
    <3>2. /\ after.hosts = Listed(list, item) /\ after.told = None /\ after.buffer = <<>>
          /\ after.disturbed = FALSE /\ after \in Clients /\ pre \in Before(after)
      <4>1. empty.hosts = list /\ empty.disturbed = FALSE
        BY <1>3, <1>8, <2>1 DEF list
      <4>2. /\ after \in Clients /\ after.buffer = empty.buffer
            /\ after.hosts = Listed(empty.hosts, line.report[line.at])
            /\ after.told = None /\ after.disturbed = empty.disturbed
            /\ after.left = empty.left
        <5>1. IsParsed(empty, line, after)
          BY <1>3, <2>2, <3>1, ParseWhole
        <5> QED BY <2>10, <5>1 DEF IsParsed
      <4> QED BY <1>3, <2>0, <2>2, <4>1, <4>2 DEF item, Before
    <3>3. item # Note
      BY <2>7, <2>10
    <3>4. InReport(after, rest)
      BY <1>2, <2>2, <2>6, <2>10, <3>2, <3>3, AfterItem DEF line, list, item
    <3> QED BY <1>2, <3>2, <3>4 DEF Faithful
  <2>11. ASSUME Kind(line) = "end" PROVE Faithful(after, rest)
    <3>1. chunk = Pieces(line)
      BY <2>6, <2>11
    <3>2. /\ after.hosts = list /\ after.told = HostsIn(report) /\ after.buffer = <<>>
          /\ after.disturbed = FALSE /\ after \in Clients /\ pre \in Before(after)
      <4>1. empty.hosts = list /\ empty.disturbed = FALSE
        BY <1>3, <1>8, <2>1 DEF list
      <4>2. /\ after \in Clients /\ after.buffer = empty.buffer
            /\ after.hosts = empty.hosts /\ after.left = empty.left
            /\ after.told = IF empty.disturbed THEN None ELSE HostsIn(line.report)
            /\ after.disturbed = empty.disturbed
        <5>1. IsParsed(empty, line, after)
          BY <1>3, <2>2, <3>1, ParseWhole
        <5> QED BY <2>11, <5>1 DEF IsParsed
      <4> QED BY <1>3, <2>0, <2>2, <4>1, <4>2 DEF Before
    <3>3. AfterReport(after, rest)
      BY <1>2, <2>2, <2>6, <2>11, <3>2, AfterEnd DEF line, list
    <3> QED BY <1>2, <3>2, <3>3 DEF Faithful
  <2> QED BY <2>7, <2>8, <2>9, <2>10, <2>11
<1>j. ASSUME client.disturbed = FALSE, Joining(client, pieces) PROVE Faithful(after, rest)
  <2>1. piece.line.at = 0 /\ empty.hosts = <<>> /\ empty.told = None /\ empty.disturbed = FALSE
    BY <1>3, <1>j DEF Joining, piece
  <2>2. Kind(piece.line) = "begin" /\ ~IsHost(piece)
    BY <1>2, <2>1, BeginPiece
  <2>3. HostsBegun(chunk) \in Before(client)
    BY <1>1, <1>2, <1>j, <2>2, BegunStays DEF Joining, chunk
  <2> DEFINE line == chunk[1].line
             host == line.report[line.at]
  <2>4. line \in Lines
    BY <1>4 DEF AllPieces
  <2>5. /\ after \in Clients /\ after.buffer = <<>> /\ after.told = None
        /\ after.disturbed = FALSE /\ \E pre \in Before(after) : after.hosts = Capped(pre)
    <3>1. CASE chunk = Pieces(line)
      <4> HIDE DEF line
      <4>1. line = piece.line
        <5>1. piece = Piece(line, "tail")
          BY <1>4, <2>4, <3>1, PiecesLinked
        <5> QED BY <5>1 DEF Piece
      <4>2. IsParsed(empty, line, after)
        BY <1>3, <2>4, <3>1, ParseWhole
      <4>3. /\ after \in Clients /\ after.buffer = <<>> /\ after.told = None
            /\ after.disturbed = FALSE /\ after.hosts = <<>>
        BY <1>3, <2>2, <4>1, <4>2 DEF IsParsed
      <4> QED BY <4>3, CappedEmpty DEF Before
    <3>2. CASE chunk # Pieces(line)
      <4>1. IsMisread(empty, chunk, after) /\ after \in Clients
        BY <1>3, <1>4, <3>2, ParseMisread
      <4>2. CASE Kind(line) = "host" /\ chunk[1].part = "head"
        <5>1. host \in Hosts
          BY <2>4, <4>2, Kinds
        <5>2. HostsBegun(chunk) = <<host>>
          <6>1. IsHost(chunk[1]) /\ chunk # <<>>
            BY <1>1, <1>2, <4>2, ChunkEnds DEF IsHost, chunk
          <6> QED BY <6>1 DEF HostsBegun
        <5>3. client.left = <<host>>
          BY <2>3, <5>2 DEF Before
        <5>4. Listed(<<>>, host) = Capped(<<host>>)
          <6>1. <<>> \in Seq(Hosts) /\ Append(<<>>, host) = <<host>>
            BY EmptySeq
          <6>2. Capped(Append(<<>>, host)) = Listed(Capped(<<>>), host)
            BY <5>1, <6>1, CappedGrows DEF Listed
          <6> QED BY <6>1, <6>2, CappedEmpty
        <5> HIDE DEF host
        <5>5. \/ after = empty
              \/ after = [empty EXCEPT !.hosts = Listed(<<>>, host), !.told = None]
          BY <2>1, <4>1, <4>2 DEF IsMisread, host
        <5>6. after.hosts \in {<<>>, Capped(<<host>>)} /\ after.told = None
              /\ after.disturbed = FALSE /\ after.buffer = <<>> /\ after.left = client.left
          BY <1>3, <2>1, <5>4, <5>5 DEF Clients
        <5> QED BY <4>1, <5>3, <5>6, CappedEmpty DEF Before
      <4>3. CASE ~(Kind(line) = "host" /\ chunk[1].part = "head")
        <5>1. \/ after = empty
              \/ after = [empty EXCEPT !.hosts = <<>>, !.running = TRUE, !.told = None]
              \/ after = [empty EXCEPT !.running = FALSE, !.told = None]
          BY <4>1, <4>3 DEF IsMisread
        <5>2. after.hosts = <<>> /\ after.told = None /\ after.disturbed = FALSE
              /\ after.buffer = <<>>
          BY <1>3, <2>1, <5>1 DEF Clients
        <5> QED BY <4>1, <5>2, CappedEmpty DEF Before
      <4> QED BY <4>2, <4>3
    <3> QED BY <3>1, <3>2
  <2> HIDE DEF line, host
  <2>6. PICK pre \in Before(after) : after.hosts = Capped(pre)
    BY <2>5
  <2>7. InReport(after, rest)
    BY <1>2, <1>5, <2>2, <2>5, <2>6, AfterBegin
  <2> QED BY <1>2, <2>5, <2>7 DEF Faithful
<1>9. \/ client.disturbed = TRUE /\ client.told = None
      \/ client.disturbed = FALSE /\ InReport(client, pieces)
      \/ client.disturbed = FALSE /\ AfterReport(client, pieces)
      \/ client.disturbed = FALSE /\ Joining(client, pieces)
  BY DEF Faithful
<1>10. Faithful(after, rest)
  BY <1>6, <1>7, <1>8, <1>9, <1>j
<1> QED BY <1>10 DEF after, rest, piece

-----------------------------------------------------------------------------
(* The ranges of the client, whatever it takes.                            *)
LEMMA ParseType ==
  ASSUME NEW client \in Clients, NEW chunk, chunk[1] \in AllPieces, NEW kept \in BOOLEAN,
         NEW after, after = Parse(client, chunk, kept)
  PROVE  after \in Clients
<1> DEFINE line == chunk[1].line
<1>1. line \in Lines
  BY DEF AllPieces
<1>2. CASE chunk = Pieces(line)
  <2>1. after = Parse(client, Pieces(line), kept)
    BY <1>2
  <2> HIDE DEF line
  <2>2. IsParsed(client, line, after)
    BY <1>1, <2>1, ParseWhole
  <2> QED BY <2>2 DEF IsParsed
<1>3. CASE chunk # Pieces(line)
  BY <1>3, ParseMisread
<1> QED BY <1>2, <1>3

LEMMA TakeType ==
  ASSUME NEW client \in Clients, NEW piece \in AllPieces, NEW kept \in BOOLEAN
  PROVE  Take(client, piece, kept) \in Clients
<1> DEFINE after == Take(client, piece, kept)
           chunk == Append(client.buffer, piece)
<1>1. CASE piece.part # "tail"
  BY <1>1, TakePart
<1>2. CASE piece.part = "tail"
  <2>1. PICK empty \in Clients : after = Parse(empty, chunk, kept)
    BY <1>2, TakeEnd
  <2>2. chunk[1] \in AllPieces
    <3>1. client.buffer \in Seq(AllPieces)
      BY DEF Clients
    <3> QED BY <3>1, ChunkEnds
  <2> HIDE DEF after, chunk
  <2>3. after \in Clients
    BY <2>1, <2>2, ParseType
  <2> QED BY <2>3 DEF after
<1> QED BY <1>1, <1>2

LEMMA TakeKeeps ==
  ASSUME NEW client, NEW pieces, Faithful(client, pieces), pieces # <<>>,
         NEW kept \in BOOLEAN
  PROVE  Faithful(Take(client, pieces[1], kept), Tail(pieces))
BY TakeInside, TakeLast

(* The client as it is, and with room for a byte.                          *)
Client == [hosts |-> hosts, running |-> running, told |-> told,
           disturbed |-> disturbed, left |-> left, buffer |-> rx]
Opened == [hosts |-> hosts, running |-> running, told |-> told,
           disturbed |-> disturbed, left |-> left, buffer |-> Buffered]

\* What is dropped from a full buffer is at most the beginning of a Note.
LEMMA OpenedIsFaithful ==
  ASSUME NEW pieces, Faithful(Client, pieces)
  PROVE  Faithful(Opened, pieces)
<1>1. /\ hosts \in Seq(Hosts) /\ running \in BOOLEAN /\ told \in Seq(Hosts) \union {None}
      /\ disturbed \in BOOLEAN /\ left \in Seq(Hosts) /\ rx \in Seq(AllPieces)
  BY DEF Faithful, Client, Clients
<1>2. Buffered \in Seq(AllPieces) /\ (Buffered = rx \/ Buffered = <<>>)
  BY <1>1, EmptySeq DEF Buffered
<1>3. Opened \in Clients
  BY <1>1, <1>2 DEF Opened, Clients
<1>4. /\ Opened.hosts = hosts /\ Opened.told = told /\ Opened.disturbed = disturbed
      /\ Opened.buffer = Buffered /\ Opened.left = left /\ Client.left = left
      /\ Client.hosts = hosts /\ Client.told = told /\ Client.disturbed = disturbed
      /\ Client.buffer = rx
  BY DEF Opened, Client
<1>5. \A piece : rx = <<>> \/ rx = <<piece>> => Buffered = rx
  <2> TAKE piece
  <2>1. rx = <<>> \/ rx = <<piece>> => Len(rx) = 0 \/ Len(rx) = 1
    OBVIOUS
  <2>2. ~(0 >= BufPieces) /\ ~(1 >= BufPieces)
    BY ProxyAssumption
  <2> QED BY <2>1, <2>2 DEF Buffered
<1>6. ASSUME InReport(Client, pieces) PROVE InReport(Opened, pieces)
  <2>1. \A line : Awaits(rx, pieces, line) => Awaits(Buffered, pieces, line)
    <3> TAKE line
    <3>1. CASE Buffered = rx
      BY <3>1
    <3>2. CASE Buffered # rx
      BY <1>2, <1>5, <3>2 DEF Awaits
    <3> QED BY <3>1, <3>2
  <2>2. Before(Opened) = Before(Client)
    BY <1>4 DEF Before
  <2> QED BY <1>4, <1>6, <2>1, <2>2 DEF InReport
<1>7. ASSUME AfterReport(Client, pieces) PROVE AfterReport(Opened, pieces)
  <2>1. Buffered = rx
    BY <1>4, <1>5, <1>7 DEF AfterReport
  <2> QED BY <1>4, <1>7, <2>1 DEF AfterReport, IsTold
<1>8. ASSUME Joining(Client, pieces) PROVE Joining(Opened, pieces)
  <2>1. HostsBegun(<<>>) = <<>>
    BY DEF HostsBegun
  <2>2. HostsBegun(Buffered) \in Before(Opened)
    BY <1>2, <1>4, <1>8, <2>1 DEF Joining, Before
  <2> QED BY <1>4, <1>8, <2>2 DEF Joining
<1> QED BY <1>3, <1>4, <1>6, <1>7, <1>8 DEF Faithful

Goings(f, count, kept) ==
  f = [n \in 0..count |->
         IF n = 0 THEN [hosts |-> hosts, running |-> running, told |-> told,
                        disturbed |-> disturbed, left |-> left, buffer |-> Buffered]
                  ELSE Take(f[n - 1], stream[n], kept)]

(* However many pieces are read at a time.                                 *)
LEMMA ReceivedIsFaithful ==
  ASSUME Faithful(Client, stream), NEW count \in 1..Len(stream), NEW kept \in BOOLEAN
  PROVE  Faithful(Received(count, kept), SubSeq(stream, count + 1, Len(stream)))
<1>1. Faithful(Opened, stream)
  BY OpenedIsFaithful
<1>2. Opened \in Clients /\ stream \in Seq(AllPieces)
  BY <1>1 DEF Faithful, Chain, Linked
<1>a. PICK size \in Nat : size = Len(stream)
  BY <1>2, LenProperties
<1>3. count \in 1..size
  BY <1>a
<1>4. ASSUME NEW n \in 1..count PROVE n \in 1..size /\ stream[n] \in AllPieces
  <2>1. n \in 1..size
    BY <1>3
  <2> QED BY <1>2, <1>a, <2>1, ElementOfSeq
<1> DEFINE G == [n \in 1..count |-> [client \in Clients |-> Take(client, stream[n], kept)]]
           start == Opened
<1>5. \A n \in 1..count : \A client \in Clients :
        G[n][client] = Take(client, stream[n], kept) /\ G[n][client] \in Clients
  BY <1>4, TakeType
<1>6. G \in [1..count -> [Clients -> Clients]]
  BY <1>5
<1> HIDE DEF G, start
<1>7. PICK f \in [0..count -> Clients] : Goes(f, count, start, G)
  <2>1. start \in Clients
    BY <1>2 DEF start
  <2>2. count \in Nat
    BY <1>3
  <2> QED BY <1>6, <2>1, <2>2, Recursion
<1> DEFINE Rule(g) == [n \in 0..count |->
                         IF n = 0 THEN Opened ELSE Take(g[n - 1], stream[n], kept)]
<1>8. f = Rule(f)
  <2>1. ASSUME NEW n \in 0..count
        PROVE  f[n] = IF n = 0 THEN Opened ELSE Take(f[n - 1], stream[n], kept)
    <3>1. n # 0 => n \in 1..count /\ n - 1 \in 0..count
      BY <1>3
    <3>2. n # 0 => G[n][f[n - 1]] = Take(f[n - 1], stream[n], kept)
      BY <1>5, <3>1
    <3> QED BY <1>7, <3>2 DEF Goes, start
  <2> QED BY <1>7, <2>1
<1>9. Received(count, kept) = (CHOOSE g : Goings(g, count, kept))[count]
  BY DEF Received, Goings
<1>10. \A g : Goings(g, count, kept) <=> g = Rule(g)
  BY DEF Goings, Opened
<1> DEFINE after == CHOOSE g : Goings(g, count, kept)
<1>11. after = Rule(after)
  <2> HIDE DEF Rule
  <2> QED BY <1>8, <1>10
<1> HIDE DEF after
<1>12. \A n \in 0..count : after[n] = IF n = 0 THEN Opened ELSE Take(after[n - 1], stream[n], kept)
  BY <1>11
<1> HIDE DEF Rule
<1> DEFINE Rest(n) == SubSeq(stream, n + 1, Len(stream))
           Bad == {n \in 0..count : ~Faithful(after[n], Rest(n))}
<1>13. ASSUME Bad # {} PROVE FALSE
  <2>1. Bad \subseteq Nat
    BY <1>3
  <2>2. PICK n \in Bad : \A j \in Bad : n <= j
    BY <1>13, <2>1, Least, Zenon
  <2>3. n \in 0..count /\ ~Faithful(after[n], Rest(n))
    BY <2>2
  <2>4. CASE n = 0
    <3>1. Rest(0) = stream
      BY <1>2, SubSeqFull
    <3>2. after[0] = Opened
      BY <1>12, <2>3, <2>4
    <3> QED BY <1>1, <2>3, <2>4, <3>1, <3>2
  <2>5. CASE n # 0
    <3>1. PICK k \in 0..count : k = n - 1 /\ n = k + 1 /\ ~(n <= k)
      BY <1>3, <2>3, <2>5
    <3>2. Faithful(after[k], Rest(k))
      BY <2>2, <3>1
    <3>3. after[n] = Take(after[k], stream[n], kept)
      BY <1>12, <2>3, <2>5, <3>1
    <3>4. n \in 1..size /\ size \in n..size
      BY <1>3, <2>3, <2>5
    <3>5. Rest(k) = SubSeq(stream, n, size) /\ Rest(n) = SubSeq(stream, n + 1, size)
      BY <1>a, <3>1
    <3>6. Tail(Rest(k)) = Rest(n) /\ Head(Rest(k)) = stream[n]
      BY <1>2, <1>a, <3>4, <3>5, HeadTailOfSubSeq
    <3>7. Rest(k) # <<>> /\ Rest(k)[1] = stream[n]
      <4> DEFINE some == SubSeq(stream, n, size)
      <4>1. \A i \in n..size : stream[i] \in AllPieces
        <5>1. \A i \in n..size : i \in 1..size
          BY <3>4
        <5> QED BY <1>2, <1>a, <5>1, ElementOfSeq
      <4>2. n \in Int /\ size \in Int /\ n <= size
        BY <3>4
      <4>3. /\ some \in Seq(AllPieces) /\ Len(some) = size - n + 1
            /\ \A i \in 1..size - n + 1 : some[i] = stream[n + i - 1]
        BY <4>1, <4>2, SubSeqProperties
      <4> HIDE DEF some
      <4>4. 1 \in 1..size - n + 1 /\ n + 1 - 1 = n /\ size - n + 1 # 0
        BY <4>2
      <4>5. some[1] = stream[n] /\ some # <<>>
        BY <4>3, <4>4, EmptySeq
      <4> QED BY <3>5, <4>5 DEF some
    <3> HIDE DEF Rest
    <3>8. Faithful(Take(after[k], Rest(k)[1], kept), Tail(Rest(k)))
      BY <3>2, <3>7, TakeKeeps
    <3> QED BY <2>3, <3>3, <3>6, <3>7, <3>8
  <2> QED BY <2>4, <2>5
<1>14. count \in 0..count
  BY <1>3
<1> QED BY <1>9, <1>13, <1>14 DEF after

-----------------------------------------------------------------------------
(***************************************************************************)
(* Until the thread has asked for a report, over a new connection nothing  *)
(* is under way; from then on the client is faithful to what is.           *)
(***************************************************************************)
Fresh == stream = <<>> /\ requestScan = TRUE

ReportInv ==
  /\ Client \in Clients /\ IsTold(Client)
  /\ disturbed = TRUE => told = None
  /\ pc \in {"register", "listen"} => Fresh
  /\ pc \in {"loop", "send"} => Fresh \/ Faithful(Client, stream)
  /\ pc = "clear" => Chain(stream) /\ stream # <<>>
  /\ pc = "wait" => Faithful(Client, stream)

LEMMA ClientFields ==
  /\ Client.hosts = hosts /\ Client.running = running /\ Client.told = told
  /\ Client.disturbed = disturbed /\ Client.left = left /\ Client.buffer = rx
BY DEF Client

LEMMA FaithfulIsTold ==
  ASSUME NEW client, NEW pieces, Faithful(client, pieces)
  PROVE  client \in Clients /\ Chain(pieces) /\ IsTold(client)
BY DEF Faithful, IsTold, InReport, AfterReport, Joining

LEMMA ReportStart == Init => ReportInv
<1> SUFFICES ASSUME Init PROVE ReportInv
  OBVIOUS
<1>1. /\ Client.told = None /\ pc = "none"
      /\ hosts = <<>> /\ rx = <<>> /\ running = FALSE /\ disturbed = FALSE /\ told = None
      /\ left = <<>>
  BY DEF Init, Client
<1>2. \A S : <<>> \in Seq(S)
  BY EmptySeq
<1>3. Client \in Clients
  BY <1>1, <1>2 DEF Client, Clients
<1> QED BY <1>1, <1>3 DEF ReportInv, IsTold

\* Steps that leave the client and what is delivered as they are.
LEMMA ReportStays ==
  ASSUME ReportInv, UNCHANGED <<hosts, running, told, disturbed, left, rx, stream>>,
         requestScan = TRUE => requestScan' = TRUE,
         \/ pc' = pc
         \/ pc' \in {"none", "top", "dial", "option", "connect", "epoll", "watch", "await",
                     "result", "verdict", "sleep", "ending", "ended", "close"}
         \/ pc = "register" /\ pc' = "listen"
         \/ pc = "listen" /\ pc' = "loop"
         \/ pc = "loop" /\ pc' = "send"
         \/ pc = "loop" /\ requestScan # TRUE /\ pc' = "wait"
         \/ pc = "wait" /\ pc' = "loop"
  PROVE  ReportInv'
<1>1. Client' = Client
  BY DEF Client
<1>2. Fresh => Fresh'
  BY DEF Fresh
<1>3. Faithful(Client, stream) => Faithful(Client', stream')
  BY <1>1
<1>4. Client' \in Clients /\ IsTold(Client') /\ (disturbed' = TRUE => told' = None)
  BY <1>1 DEF ReportInv
<1>5. pc' \in {"register", "listen"} => Fresh'
  BY <1>2 DEF ReportInv
<1>6. pc' \in {"loop", "send"} => Fresh' \/ Faithful(Client', stream')
  BY <1>2, <1>3 DEF ReportInv
<1>7. pc' = "clear" => Chain(stream') /\ stream' # <<>>
  BY DEF ReportInv
<1>8. pc' = "wait" => Faithful(Client', stream')
  BY <1>3 DEF ReportInv, Fresh
<1> QED BY <1>4, <1>5, <1>6, <1>7, <1>8 DEF ReportInv, IsTold

\* Steps that only say whether the client is shown as running, and end.
LEMMA ReportEnds ==
  ASSUME ReportInv, UNCHANGED <<hosts, told, disturbed, left>>, running' \in BOOLEAN,
         rx' \in Seq(AllPieces),
         pc' \in {"sleep", "ended", "close", "top"}
  PROVE  ReportInv'
<1>1. /\ hosts \in Seq(Hosts) /\ told \in Seq(Hosts) \union {None} /\ disturbed \in BOOLEAN
      /\ left \in Seq(Hosts)
  BY DEF ReportInv, Client, Clients
<1>2. Client' \in Clients
  BY <1>1 DEF Client, Clients
<1>3. /\ Client'.told = told /\ Client'.hosts = hosts /\ Client'.left = left
      /\ Client.told = told /\ Client.hosts = hosts /\ Client.left = left
  BY DEF Client
<1>4. IsTold(Client')
  BY <1>3 DEF ReportInv, IsTold
<1>5. disturbed' = TRUE => told' = None
  BY DEF ReportInv
<1> QED BY <1>2, <1>4, <1>5 DEF ReportInv

LEMMA ReportNext == ReportInv /\ [Next]_vars => ReportInv'
<1> SUFFICES ASSUME ReportInv, [Next]_vars PROVE ReportInv'
  OBVIOUS
<1> USE DEF Goto, shared, ghost, calls
<1>0. /\ rx \in Seq(AllPieces) /\ <<>> \in Seq(AllPieces) /\ running \in BOOLEAN
      /\ told \in Seq(Hosts) \union {None} /\ <<>> \in Seq(Hosts)
      /\ FALSE \in BOOLEAN /\ TRUE \in BOOLEAN
  BY EmptySeq DEF ReportInv, Client, Clients
<1>1. CASE Top
  BY <1>1, ReportStays DEF Top
<1>2. CASE Dial
  BY <1>2, ReportStays DEF Dial
<1>3. CASE DialRefused
  BY <1>3, ReportStays DEF DialRefused, DialFails
<1>4. CASE SetOption \/ Connect \/ CreateEpoll \/ Watch \/ Await \/ GetResult \/ Refused
  <2>1. CASE SetOption
    BY <2>1, ReportStays DEF SetOption, DialFails
  <2>2. CASE Connect
    BY <2>2, ReportStays DEF Connect, DialFails
  <2>3. CASE CreateEpoll
    BY <2>3, ReportStays DEF CreateEpoll, DialFails
  <2>4. CASE Watch
    BY <2>4, ReportStays DEF Watch, WatchFails, DialFails
  <2>5. CASE Await
    BY <2>5, ReportStays DEF Await, DialFails
  <2>6. CASE GetResult
    BY <2>6, ReportStays DEF GetResult, DialFails
  <2>7. CASE Refused
    BY <2>7, ReportStays DEF Refused, DialFails
  <2> QED BY <1>4, <2>1, <2>2, <2>3, <2>4, <2>5, <2>6, <2>7
<1>5. CASE Established
  <2>1. /\ Client' = Client /\ stream' = <<>> /\ requestScan' = TRUE /\ pc' = "register"
        /\ told' = told /\ disturbed' = disturbed
    BY <1>5 DEF Established, Client
  <2> QED BY <2>1 DEF ReportInv, IsTold, Fresh
<1>6. CASE Register
  BY <1>6, ReportStays DEF Register, DialFails
<1>l. CASE Listen
  BY <1>l, ReportStays DEF Listen, DialFails
<1>7. CASE Loop
  BY <1>7, ReportStays DEF Loop
<1>8. CASE Send
  <2>1. CASE pc' = "close"
    BY <1>0, <1>8, <2>1, ReportEnds DEF Send
  <2>2. CASE pc' # "close"
    <3>1. PICK report \in Reports : stream' = stream \o Answer(report)
      BY <1>8, <2>2 DEF Send
    <3>2. Chain(stream)
      <4>1. CASE Fresh
        BY <4>1, ChainEmpty DEF Fresh
      <4>2. CASE ~Fresh
        BY <1>8, <4>2, FaithfulIsTold DEF ReportInv, Send
      <4> QED BY <4>1, <4>2
    <3>3. Chain(stream \o Answer(report)) /\ stream \o Answer(report) # <<>>
      BY <3>2, AnswerIsChain, ChainJoin
    <3>4. Client' = Client /\ told' = told /\ disturbed' = disturbed /\ pc' = "clear"
      BY <1>8, <2>2 DEF Send, Client
    <3> QED BY <3>1, <3>3, <3>4 DEF ReportInv, IsTold
  <2> QED BY <2>1, <2>2
<1>9. CASE Clear
  <2>1. /\ hosts' = <<>> /\ running' = TRUE /\ told' = None /\ left' = HostsBegun(rx)
        /\ rx' = rx /\ stream' = stream /\ pc' = "wait" /\ pc = "clear"
        /\ disturbed' = ~(stream[1].part = "head" /\ stream[1].line.at = 0)
    BY <1>9 DEF Clear
  <2>2. Chain(stream) /\ stream # <<>> /\ disturbed' \in BOOLEAN
    BY <2>1 DEF ReportInv
  <2>3. HostsBegun(rx) \in Seq(Hosts)
    <3>1. CASE rx # <<>> /\ IsHost(rx[1])
      <4>1. rx[1] \in AllPieces
        <5>1. 1 \in 1..Len(rx)
          BY <1>0, <3>1, EmptySeq
        <5> QED BY <1>0, <5>1, ElementOfSeq
      <4> DEFINE line == rx[1].line
      <4>2. line \in Lines /\ Kind(line) = "host"
        BY <3>1, <4>1 DEF AllPieces, IsHost
      <4>3. line.report[line.at] \in Hosts
        BY <4>2, Kinds
      <4> QED BY <3>1, <4>3 DEF HostsBegun
    <3>2. CASE ~(rx # <<>> /\ IsHost(rx[1]))
      BY <1>0, <3>2 DEF HostsBegun
    <3> QED BY <3>1, <3>2
  <2>4. Client' \in Clients
    BY <1>0, <2>1, <2>2, <2>3 DEF Client, Clients
  <2>5. /\ Client'.hosts = <<>> /\ Client'.told = None /\ Client'.buffer = rx
        /\ Client'.left = HostsBegun(rx) /\ Client'.disturbed = disturbed'
    BY <2>1 DEF Client
  <2>6. ASSUME disturbed' = FALSE PROVE Joining(Client', stream')
    <3>1. stream'[1].line.at = 0
      BY <2>1, <2>6
    <3> QED BY <2>1, <2>2, <2>5, <3>1 DEF Joining, Before
  <2>7. Faithful(Client', stream')
    BY <2>1, <2>2, <2>4, <2>5, <2>6 DEF Faithful
  <2> QED BY <2>1, <2>4, <2>5, <2>7 DEF ReportInv, IsTold
<1>10. CASE Wait
  <2>1. CASE Goto("close") /\ UNCHANGED <<shared, stream, ghost>>
    BY <1>0, <2>1, ReportEnds
  <2>2. CASE rx' = Buffered /\ pc' = "close" /\ UNCHANGED <<shared, stream, ghost>>
    <3>1. Buffered \in Seq(AllPieces)
      BY <1>0 DEF Buffered
    <3> QED BY <1>0, <2>2, <3>1, ReportEnds
  <2>3. CASE Goto("loop") /\ UNCHANGED <<shared, stream, ghost>>
    BY <1>10, <2>3, ReportStays DEF Wait
  <2>4. ASSUME NEW count \in 1..Len(stream), NEW kept \in BOOLEAN, Receive(count, kept),
               stream' = SubSeq(stream, count + 1, Len(stream)), pc' = "loop"
        PROVE  ReportInv'
    <3>1. Faithful(Client, stream)
      BY <1>10 DEF ReportInv, Wait
    <3> DEFINE client == Received(count, kept)
    <3>2. Faithful(client, stream')
      BY <2>4, <3>1, ReceivedIsFaithful
    <3> HIDE DEF client
    <3>3. /\ hosts' = client.hosts /\ running' = client.running /\ told' = client.told
          /\ disturbed' = client.disturbed /\ left' = client.left /\ rx' = client.buffer
      BY <2>4 DEF Receive, LeftOver, client
    <3>4. client \in Clients /\ IsTold(client)
      BY <3>2, FaithfulIsTold
    <3>5. Client' = client
      BY <3>3, <3>4 DEF Client, Clients
    <3>6. disturbed' = TRUE => told' = None
      BY <3>2, <3>3 DEF Faithful
    <3> QED BY <2>4, <3>2, <3>4, <3>5, <3>6 DEF ReportInv, IsTold
  <2> QED BY <1>10, <2>1, <2>2, <2>3, <2>4 DEF Wait
<1>11. CASE Close
  BY <1>0, <1>11, ReportEnds DEF Close
<1>12. CASE Sleep
  BY <1>12, ReportStays DEF Sleep
<1>13. CASE End
  BY <1>0, <1>13, ReportEnds DEF End
<1>14. CASE Start
  <2>1. CASE pc' = "top" /\ rx' = <<>>
    BY <1>0, <1>14, <2>1, ReportEnds DEF Start
  <2>2. CASE UNCHANGED <<threadId, pc, rx>>
    BY <1>14, <2>2, ReportStays DEF Start
  <2> QED BY <1>14, <2>1, <2>2 DEF Start
<1>15. CASE StopBegins
  BY <1>15, ReportStays DEF StopBegins
<1>16. CASE StopJoins
  BY <1>16, ReportStays DEF StopJoins
<1>17. CASE RequestScan
  BY <1>17, ReportStays DEF RequestScan
<1>18. CASE UNCHANGED vars
  BY <1>18, ReportStays DEF vars
<1> QED BY <1>1, <1>2, <1>3, <1>4, <1>5, <1>6, <1>l, <1>7, <1>8, <1>9, <1>10, <1>11, <1>12,
           <1>13, <1>14, <1>15, <1>16, <1>17, <1>18 DEF Next, ThreadStep

(* A list shown for a report received to its end is the list of that       *)
(* report, cut at the capacity, but for the one host before it whose line  *)
(* the loss of a connection cut: over any number of connections and        *)
(* requests, however the bytes are grouped into reads and whatever the     *)
(* buffer held when the new BEGIN was joined to it (proxy_client.c:128,    *)
(* 139-142, 156-186, 239-241, 259-288).                                    *)
THEOREM ReportsAreWhole == Spec => []ReportIsWhole
<1>1. ReportInv => ReportIsWhole
  BY DEF ReportInv, IsTold, Client, ReportIsWhole
<1> QED BY <1>1, ReportStart, ReportNext, PTL DEF Spec

-----------------------------------------------------------------------------
(* NetMonitor.                                                             *)

Slots == 0..Capacity - 1
Signals == Fallback..Best

\* The slot d places before another.
Back(from, d) == IF d <= from THEN from - d ELSE from + Capacity - d

NetTypeOK ==
  /\ netConnected \in BOOLEAN
  /\ history \in [Slots -> Int] /\ historyHead \in Slots
  /\ lowest \in Int /\ highest \in Int /\ sampled \in Seq(Signals)
  /\ since \in Nat /\ total \in Nat /\ clock \in Nat /\ online \in Nat

(***************************************************************************)
(* The ring, the extremes and the times: the slots behind the head hold    *)
(* the latest signals, and since is 0 exactly while there is no network.   *)
(***************************************************************************)
Latest(ring, head, list) ==
  \A d \in 1..Lower(Len(list), Capacity) : ring[Back(head, d)] = list[Len(list) + 1 - d]

RingExact == /\ historyCount = Lower(Len(sampled), Capacity)
             /\ Latest(history, historyHead, sampled)

Extremes(list, low, high) ==
  /\ \E i \in 1..Len(list) : low = list[i]
  /\ \E i \in 1..Len(list) : high = list[i]
  /\ \A i \in 1..Len(list) : low <= list[i] /\ list[i] <= high

ExtremesExact == /\ samples = Len(sampled)
                 /\ samples > 0 => Extremes(sampled, lowest, highest)

TimesExact == /\ netConnected => 0 < since /\ since <= clock
              /\ ~netConnected => since = 0
              /\ total + (IF netConnected THEN clock - since ELSE 0) = online

NetInv == NetTypeOK /\ RingExact /\ ExtremesExact /\ TimesExact

-----------------------------------------------------------------------------
LEMMA ModBelowTwice ==
  ASSUME NEW C \in Nat, C > 0, NEW a \in Nat, a < 2 * C
  PROVE  a % C = IF a < C THEN a ELSE a - C
<1>1. CASE a < C
  BY <1>1
<1>2. CASE a >= C
  BY <1>2
<1> QED BY <1>1, <1>2

(* normalize_rssi_dbm gives a signal, whatever it is given.                *)
LEMMA NormalIsSignal ==
  ASSUME NEW raw \in Int
  PROVE  Normal(raw) \in Signals
BY DEF Normal, Higher, Lower, Signals, Fallback, Best

(* A signal is entered: what was d places behind the head is now d + 1.    *)
LEMMA RingStep ==
  ASSUME NEW ring \in [Slots -> Int], NEW head \in Slots, NEW list \in Seq(Signals),
         NEW new \in Signals, Latest(ring, head, list)
  PROVE  /\ (head + 1) % Capacity \in Slots
         /\ Latest([ring EXCEPT ![head] = new], (head + 1) % Capacity, Append(list, new))
<1> PICK n \in Nat : n = Len(list)
  BY LenProperties
<1> PICK C \in Nat : C = Capacity /\ C > 0
  BY NetAssumption
<1> DEFINE after == IF head + 1 < C THEN head + 1 ELSE 0
           longer == Append(list, new)
           filled == [ring EXCEPT ![head] = new]
<1>1. head \in Nat /\ head < C
  BY DEF Slots
<1>2. (head + 1) % Capacity = after /\ after \in Slots
  <2>1. head + 1 \in Nat /\ head + 1 < 2 * C
    BY <1>1
  <2>2. (head + 1) % C = IF head + 1 < C THEN head + 1 ELSE head + 1 - C
    <3> PICK a \in Nat : a = head + 1
      BY <2>1
    <3>1. a % C = IF a < C THEN a ELSE a - C
      BY <2>1, ModBelowTwice
    <3> QED BY <1>1, <3>1
  <2>3. head + 1 < C \/ head + 1 - C = 0
    BY <1>1
  <2>4. (head + 1) % C = after
    BY <2>2, <2>3
  <2> QED BY <1>1, <2>4 DEF Slots
<1>3. /\ Len(longer) = n + 1 /\ longer[n + 1] = new
      /\ \A i \in 1..n : longer[i] = list[i]
  BY AppendProperties
<1>4. filled[head] = new /\ \A slot \in Slots : slot # head => filled[slot] = ring[slot]
  OBVIOUS
<1> HIDE DEF longer, filled
<1>5. ASSUME NEW d \in 1..Lower(n + 1, C) PROVE filled[Back(after, d)] = longer[n + 2 - d]
  <2>1. d \in Nat /\ 1 <= d /\ d <= n + 1 /\ d <= C
    BY DEF Lower
  <2>2. CASE d = 1
    <3>1. Back(after, d) = head
      BY <1>1, <2>2 DEF Back
    <3>2. n + 2 - d = n + 1
      BY <2>2
    <3> QED BY <1>3, <1>4, <3>1, <3>2
  <2>3. CASE d # 1
    <3> PICK e \in Nat : e = d - 1
      BY <2>1
    <3>1. e \in 1..Lower(n, C) /\ e \in 1..n /\ e < C
      BY <2>1, <2>3 DEF Lower
    <3>2. Back(after, d) = Back(head, e)
      BY <1>1, <2>1, <3>1 DEF Back
    <3>3. Back(head, e) \in Slots /\ Back(head, e) # head
      BY <1>1, <3>1 DEF Back, Slots
    <3>4. ring[Back(head, e)] = list[n + 1 - e]
      BY <3>1 DEF Latest
    <3>5. n + 1 - e \in 1..n /\ n + 2 - d = n + 1 - e
      BY <3>1
    <3>6. longer[n + 1 - e] = list[n + 1 - e]
      BY <1>3, <3>5
    <3>7. filled[Back(head, e)] = ring[Back(head, e)]
      BY <1>4, <3>3
    <3> QED BY <3>2, <3>4, <3>5, <3>6, <3>7
  <2> QED BY <2>2, <2>3
<1>6. Latest(filled, after, longer)
  <2>1. n + 1 + 1 = n + 2
    OBVIOUS
  <2>2. \A d \in 1..Lower(n + 1, C) : n + 1 + 1 - d = n + 2 - d
    BY DEF Lower
  <2> HIDE DEF after
  <2> QED BY <1>3, <1>5, <2>2 DEF Latest
<1> QED BY <1>2, <1>6 DEF longer, filled

LEMMA ExtremesStep ==
  ASSUME NEW list \in Seq(Signals), NEW new \in Signals, NEW low \in Int, NEW high \in Int,
         Len(list) > 0 => Extremes(list, low, high)
  PROVE  Extremes(Append(list, new), IF Len(list) = 0 THEN new ELSE Lower(low, new),
                                     IF Len(list) = 0 THEN new ELSE Higher(high, new))
<1> PICK n \in Nat : n = Len(list)
  BY LenProperties
<1> DEFINE longer == Append(list, new)
<1>1. /\ Len(longer) = n + 1 /\ longer[n + 1] = new
      /\ \A i \in 1..n : longer[i] = list[i]
  BY AppendProperties
<1>2. new \in Int /\ \A i \in 1..n : list[i] \in Int
  <2>1. \A i \in 1..n : list[i] \in Signals
    BY ElementOfSeq
  <2>2. \A x \in Signals : x \in Int
    BY DEF Signals
  <2> QED BY <2>1, <2>2
<1> HIDE DEF longer
<1>3. CASE n = 0
  <2>1. Len(longer) = 1 /\ longer[1] = new
    BY <1>1, <1>3
  <2>2. Extremes(longer, new, new)
    BY <1>2, <2>1 DEF Extremes
  <2> QED BY <1>3, <2>2 DEF longer
<1>4. CASE n > 0
  <2>1. PICK i \in 1..n, j \in 1..n : low = list[i] /\ high = list[j]
    BY <1>4 DEF Extremes
  <2>2. \A k \in 1..n : low <= list[k] /\ list[k] <= high
    BY <1>4 DEF Extremes
  <2>3. low = longer[i] /\ high = longer[j] /\ i \in 1..n + 1 /\ j \in 1..n + 1
    BY <1>1, <2>1
  <2>4. \A k \in 1..n + 1 : /\ Lower(low, new) <= longer[k]
                            /\ longer[k] <= Higher(high, new)
    <3> TAKE k \in 1..n + 1
    <3>1. CASE k = n + 1
      BY <1>1, <1>2, <3>1 DEF Lower, Higher
    <3>2. CASE k \in 1..n
      <4> PICK x \in Int : x = list[k]
        BY <1>2, <3>2
      <4>1. low <= x /\ x <= high
        BY <2>2, <3>2
      <4>2. Lower(low, new) <= x /\ x <= Higher(high, new)
        BY <1>2, <4>1 DEF Lower, Higher
      <4> QED BY <1>1, <3>2, <4>2
    <3> QED BY <3>1, <3>2
  <2>5. n + 1 \in 1..n + 1
    OBVIOUS
  <2>6. \E k \in 1..n + 1 : Lower(low, new) = longer[k]
    BY <1>1, <2>3, <2>5 DEF Lower
  <2>7. \E k \in 1..n + 1 : Higher(high, new) = longer[k]
    BY <1>1, <2>3, <2>5 DEF Higher
  <2> QED BY <1>1, <1>4, <2>4, <2>6, <2>7 DEF Extremes
<1> QED BY <1>1, <1>3, <1>4 DEF longer

-----------------------------------------------------------------------------
LEMMA NetStart == NetInit => NetInv /\ HintsOfConnection
<1> SUFFICES ASSUME NetInit PROVE NetInv /\ HintsOfConnection
  OBVIOUS
<1>1. Len(sampled) = 0 /\ sampled \in Seq(Signals)
  BY DEF NetInit
<1>2. NetTypeOK
  BY <1>1, NetAssumption DEF NetInit, NetTypeOK, Slots
<1>3. RingExact
  <2>1. Lower(0, Capacity) = 0
    BY NetAssumption DEF Lower
  <2> QED BY <1>1, <2>1 DEF NetInit, RingExact, Latest
<1>4. ExtremesExact /\ TimesExact
  BY <1>1 DEF NetInit, ExtremesExact, TimesExact
<1>5. HintsOfConnection
  BY DEF NetInit, HintsOfConnection
<1> QED BY <1>2, <1>3, <1>4, <1>5 DEF NetInv

(* What a poll gives: a signal, and whether there is a network.            *)
LEMMA PollGives ==
  ASSUME NEW now, Down \/ Up
  PROVE  signal' \in Signals /\ netConnected' \in BOOLEAN
<1>1. Fallback \in Signals
  BY DEF Signals, Fallback, Best
<1>2. CASE Down
  BY <1>1, <1>2 DEF Down
<1>3. CASE Up
  <2>1. PICK raw \in RawSignals \union {Failed} :
          signal' = IF raw = Failed THEN Fallback ELSE Normal(raw)
    BY <1>3 DEF Up
  <2>2. raw # Failed => raw \in Int
    BY NetAssumption
  <2>3. signal' \in Signals
    BY <1>1, <2>1, <2>2, NormalIsSignal
  <2>4. netConnected' \in BOOLEAN
    BY <1>3, Zenon DEF Up
  <2> QED BY <2>3, <2>4
<1> QED BY <1>2, <1>3

LEMMA PollKeepsHints ==
  ASSUME HintsOfConnection, NetPoll
  PROVE  HintsOfConnection'
<1>1. CASE Down
  BY <1>1 DEF Down, HintsOfConnection
<1>2. CASE Up
  <2>1. PICK ip \in Addresses \union {Failed}, gateway \in Routes \union {Failed} :
          /\ address' = Kept(address, ip) /\ route' = Kept(route, gateway)
          /\ answers' = answers \union ({ip, gateway} \ {Failed})
    BY <1>2 DEF Up
  <2>2. address' \in answers' \union {NA} /\ route' \in answers' \union {NA}
    BY <2>1 DEF Kept, HintsOfConnection
  <2>3. netConnected' = TRUE
    BY <1>2, Zenon DEF Up
  <2> QED BY <2>2, <2>3 DEF HintsOfConnection
<1> QED BY <1>1, <1>2 DEF NetPoll

LEMMA PollKeepsRing ==
  ASSUME NetTypeOK, RingExact, NetPoll
  PROVE  /\ RingExact' /\ history' \in [Slots -> Int] /\ historyHead' \in Slots
         /\ sampled' \in Seq(Signals)
<1>1. signal' \in Signals
  BY PollGives DEF NetPoll
<1> PICK new \in Signals : new = signal'
  BY <1>1
<1> PICK n \in Nat : n = Len(sampled)
  BY LenProperties DEF NetTypeOK
<1> PICK C \in Nat : C = Capacity /\ C > 0
  BY NetAssumption
<1> PICK head \in Slots : head = historyHead
  BY DEF NetTypeOK
<1>2. /\ history' = [history EXCEPT ![head] = new] /\ historyHead' = (head + 1) % Capacity
      /\ historyCount' = Lower(historyCount + 1, Capacity) /\ sampled' = Append(sampled, new)
  BY DEF NetPoll, Record
<1>3. /\ history \in [Slots -> Int] /\ sampled \in Seq(Signals) /\ new \in Int
  BY DEF NetTypeOK, Signals
<1>4. /\ (head + 1) % Capacity \in Slots
      /\ Latest([history EXCEPT ![head] = new], (head + 1) % Capacity, Append(sampled, new))
  <2>1. Latest(history, head, sampled)
    BY DEF RingExact
  <2> QED BY <1>3, <2>1, RingStep
<1>5. Latest(history, historyHead, sampled)'
  <2> DEFINE ring == [history EXCEPT ![head] = new]
             after == (head + 1) % Capacity
             longer == Append(sampled, new)
  <2>1. Latest(ring, after, longer) /\ history' = ring /\ historyHead' = after /\ sampled' = longer
    BY <1>2, <1>4
  <2> HIDE DEF ring, after, longer
  <2> QED BY <2>1 DEF Latest
<1>6. historyCount' = Lower(Len(sampled'), Capacity)
  <2>1. Len(sampled') = n + 1
    BY <1>2, <1>3, AppendProperties
  <2>2. historyCount = Lower(n, C)
    BY DEF RingExact
  <2>3. Lower(Lower(n, C) + 1, C) = Lower(n + 1, C)
    BY DEF Lower
  <2> QED BY <1>2, <2>1, <2>2, <2>3
<1>7. history' \in [Slots -> Int] /\ historyHead' \in Slots /\ sampled' \in Seq(Signals)
  BY <1>2, <1>3, <1>4, AppendProperties
<1> QED BY <1>5, <1>6, <1>7 DEF RingExact

LEMMA PollKeepsExtremes ==
  ASSUME NetTypeOK, ExtremesExact, NetPoll
  PROVE  ExtremesExact' /\ lowest' \in Int /\ highest' \in Int
<1>1. signal' \in Signals
  BY PollGives DEF NetPoll
<1> PICK new \in Signals : new = signal'
  BY <1>1
<1> PICK n \in Nat : n = Len(sampled)
  BY LenProperties DEF NetTypeOK
<1> DEFINE low == IF Len(sampled) = 0 THEN new ELSE Lower(lowest, new)
           high == IF Len(sampled) = 0 THEN new ELSE Higher(highest, new)
           longer == Append(sampled, new)
<1>2. /\ lowest \in Int /\ highest \in Int /\ sampled \in Seq(Signals) /\ new \in Int
      /\ samples = n
  BY DEF NetTypeOK, ExtremesExact, Signals
<1>3. lowest' = low /\ highest' = high /\ sampled' = longer /\ samples' = n + 1
  BY <1>2 DEF NetPoll, Record
<1>4. low \in Int /\ high \in Int
  BY <1>2 DEF Lower, Higher
<1>5. Len(sampled) > 0 => Extremes(sampled, lowest, highest)
  BY <1>2 DEF ExtremesExact
<1>6. Extremes(longer, low, high)
  BY <1>2, <1>5, ExtremesStep
<1>7. Len(longer) = n + 1
  BY <1>2, AppendProperties
<1> HIDE DEF low, high, longer
<1>8. Extremes(sampled, lowest, highest)'
  BY <1>3, <1>6 DEF Extremes
<1>9. samples' = Len(sampled')
  BY <1>3, <1>7
<1> QED BY <1>3, <1>4, <1>8, <1>9 DEF ExtremesExact

LEMMA PollKeepsTimes ==
  ASSUME NetTypeOK, TimesExact, NetPoll
  PROVE  /\ TimesExact'
         /\ since' \in Nat /\ total' \in Nat /\ clock' \in Nat /\ online' \in Nat
<1>1. PICK now \in clock + 1..clock + MaxDelay :
        /\ Down \/ Up
        /\ TimeConnected(now)
        /\ online' = online + (IF netConnected THEN now - clock ELSE 0)
        /\ clock' = now
  BY Zenon DEF NetPoll
<1>2. /\ since \in Nat /\ total \in Nat /\ clock \in Nat /\ online \in Nat
      /\ netConnected \in BOOLEAN
  BY DEF NetTypeOK
<1>3. now \in Nat /\ clock < now
  BY <1>2, NetAssumption
<1>4. netConnected' \in BOOLEAN
  BY <1>1, PollGives
<1>5. CASE netConnected /\ netConnected'
  <2>1. since' = since /\ total' = total
    BY <1>1, <1>5 DEF TimeConnected
  <2>2. 0 < since /\ since <= clock /\ total + (clock - since) = online
    BY <1>5 DEF TimesExact
  <2>3. online' = online + (now - clock)
    BY <1>1, <1>5
  <2> QED BY <1>1, <1>2, <1>3, <1>5, <2>1, <2>2, <2>3 DEF TimesExact
<1>6. CASE netConnected /\ ~netConnected'
  <2>1. 0 < since /\ since <= clock /\ total + (clock - since) = online
    BY <1>6 DEF TimesExact
  <2>2. since' = 0 /\ total' = total + (now - since)
    BY <1>1, <1>6, <2>1 DEF TimeConnected
  <2>3. online' = online + (now - clock)
    BY <1>1, <1>6
  <2> QED BY <1>1, <1>2, <1>3, <1>6, <2>1, <2>2, <2>3 DEF TimesExact
<1>7. CASE ~netConnected /\ netConnected'
  <2>1. since = 0 /\ total + 0 = online
    BY <1>7 DEF TimesExact
  <2>2. since' = now /\ total' = total
    BY <1>1, <1>7 DEF TimeConnected
  <2>3. online' = online + 0
    BY <1>1, <1>7
  <2> QED BY <1>1, <1>2, <1>3, <1>7, <2>1, <2>2, <2>3 DEF TimesExact
<1>8. CASE ~netConnected /\ ~netConnected'
  <2>1. since = 0 /\ total + 0 = online
    BY <1>8 DEF TimesExact
  <2>2. since' = since /\ total' = total
    BY <1>1, <1>8 DEF TimeConnected
  <2>3. online' = online + 0
    BY <1>1, <1>8
  <2> QED BY <1>1, <1>2, <1>3, <1>8, <2>1, <2>2, <2>3 DEF TimesExact
<1> QED BY <1>5, <1>6, <1>7, <1>8

LEMMA PollKeepsInv ==
  ASSUME NetInv, NetPoll
  PROVE  NetInv'
<1>1. netConnected' \in BOOLEAN
  BY PollGives DEF NetPoll
<1>2. /\ RingExact' /\ history' \in [Slots -> Int] /\ historyHead' \in Slots
      /\ sampled' \in Seq(Signals)
  BY PollKeepsRing DEF NetInv
<1>3. ExtremesExact' /\ lowest' \in Int /\ highest' \in Int
  BY PollKeepsExtremes DEF NetInv
<1>4. TimesExact' /\ since' \in Nat /\ total' \in Nat /\ clock' \in Nat /\ online' \in Nat
  BY PollKeepsTimes DEF NetInv
<1>5. Slots' = Slots /\ Signals' = Signals
  BY DEF Slots, Signals
<1> QED BY <1>1, <1>2, <1>3, <1>4, <1>5, Zenon DEF NetInv, NetTypeOK

LEMMA NetInvIsInvariant == NetSpec => [](NetInv /\ HintsOfConnection)
<1>1. ASSUME NetInv, HintsOfConnection, UNCHANGED netVars
      PROVE  NetInv' /\ HintsOfConnection'
  <2>1. NetTypeOK'
    BY <1>1 DEF netVars, NetInv, NetTypeOK, Slots, Signals
  <2>2. RingExact'
    BY <1>1 DEF netVars, NetInv, RingExact, Latest
  <2>3. ExtremesExact'
    BY <1>1 DEF netVars, NetInv, ExtremesExact, Extremes
  <2>4. TimesExact' /\ HintsOfConnection'
    BY <1>1 DEF netVars, NetInv, TimesExact, HintsOfConnection
  <2> QED BY <2>1, <2>2, <2>3, <2>4 DEF NetInv
<1>2. ASSUME NetInv, HintsOfConnection, [NetPoll]_netVars
      PROVE  NetInv' /\ HintsOfConnection'
  BY <1>1, <1>2, PollKeepsInv, PollKeepsHints
<1> QED BY <1>2, NetStart, PTL DEF NetSpec

-----------------------------------------------------------------------------
(* A reader of the ring counts from its oldest slot.                       *)
LEMMA OldestFirst ==
  ASSUME NEW C \in Nat, C > 0, NEW head \in 0..C - 1, NEW count \in 0..C,
         NEW i \in 0..count - 1
  PROVE  (((head + C - count) % C) + i) % C
           = IF count - i <= head THEN head - (count - i) ELSE head + C - (count - i)
<1> PICK a \in Nat : a = head + C - count /\ a < 2 * C
  OBVIOUS
<1> DEFINE oldest == IF a < C THEN a ELSE a - C
           place == oldest + i
<1>1. a % C = oldest
  BY ModBelowTwice
<1>2. place \in Nat /\ place < 2 * C
  OBVIOUS
<1> HIDE DEF place
<1>3. place % C = IF place < C THEN place ELSE place - C
  BY <1>2, ModBelowTwice
<1>4. ((a % C) + i) % C = place % C
  BY <1>1 DEF place
<1>5. ((a % C) + i) % C = IF place < C THEN place ELSE place - C
  BY <1>3, <1>4
<1> QED BY <1>2, <1>5 DEF place

LEMMA HistoryIsLatest ==
  ASSUME NetTypeOK, RingExact
  PROVE  /\ historyCount = Lower(Len(sampled), Capacity)
         /\ \A i \in 0..historyCount - 1 :
              HistoryAt(i) = sampled[Len(sampled) - historyCount + i + 1]
<1> PICK n \in Nat : n = Len(sampled)
  BY LenProperties DEF NetTypeOK
<1> PICK C \in Nat : C = Capacity /\ C > 0
  BY NetAssumption
<1> PICK head \in Nat : head = historyHead /\ head < C
  BY DEF NetTypeOK, Slots
<1> PICK count \in Nat : count = historyCount /\ count <= C /\ count <= n
  BY DEF RingExact, Lower
<1>1. \A d \in 1..count : history[Back(head, d)] = sampled[n + 1 - d]
  BY DEF RingExact, Latest
<1>2. ASSUME NEW i \in 0..count - 1
      PROVE  (((head + C - count) % C) + i) % C = Back(head, count - i)
  BY OldestFirst DEF Back
<1>3. ASSUME NEW i \in 0..count - 1 PROVE HistoryAt(i) = sampled[n - count + i + 1]
  <2>1. HistoryAt(i) = history[(((head + C - count) % C) + i) % C]
    BY DEF HistoryAt
  <2>2. count - i \in 1..count /\ n + 1 - (count - i) = n - count + i + 1
    OBVIOUS
  <2>3. history[Back(head, count - i)] = sampled[n + 1 - (count - i)]
    BY <1>1, <2>2
  <2> QED BY <1>2, <2>1, <2>2, <2>3
<1> QED BY <1>3 DEF RingExact

LEMMA ExtremesAreSamples ==
  ASSUME NetTypeOK, ExtremesExact, samples > 0
  PROVE  /\ lowest \in ToSet(sampled) /\ highest \in ToSet(sampled)
         /\ \A i \in 1..Len(sampled) : sampled[i] \in lowest..highest
         /\ Fallback <= lowest /\ highest <= Best
<1>1. Extremes(sampled, lowest, highest)
  BY DEF ExtremesExact
<1>2. \A i \in 1..Len(sampled) : sampled[i] \in Signals
  BY ElementOfSeq DEF NetTypeOK
<1>3. DOMAIN sampled = 1..Len(sampled)
  BY LenProperties DEF NetTypeOK
<1>4. lowest \in ToSet(sampled) /\ highest \in ToSet(sampled)
  BY <1>1, <1>3 DEF Extremes, ToSet
<1>5. Fallback <= lowest /\ highest <= Best
  BY <1>1, <1>2 DEF Extremes, Signals
<1>6. \A x \in Signals : x \in Int
  BY DEF Signals
<1>7. \A i \in 1..Len(sampled) : sampled[i] \in lowest..highest
  BY <1>1, <1>2, <1>6 DEF Extremes, NetTypeOK
<1> QED BY <1>4, <1>5, <1>7

(* Whole seconds are short of a time by less than a second.                *)
LEMMA WholeSeconds ==
  ASSUME NEW spent \in Nat
  PROVE  /\ spent \div Second \in Int /\ Second * (spent \div Second) \in Int
         /\ Second * (spent \div Second) <= spent
         /\ spent < Second * (spent \div Second) + Second
<1> PICK second \in Nat : second = Second /\ second > 0
  BY NetAssumption
<1>1. /\ spent \div second \in Int
      /\ second * (spent \div second) <= spent
      /\ spent < second * (spent \div second) + second
  OBVIOUS
<1> QED BY <1>1

(* The hints of the scanner belong to the connection that is up.           *)
THEOREM HintsAreCurrent == NetSpec => []HintsOfConnection
BY NetInvIsInvariant, PTL

(* The history read back is the latest signals in order, whatever the size *)
(* of the ring; the extremes are those of all samples; and the total with  *)
(* the whole seconds of uptime is short of the time polls saw connected by *)
(* less than a second, at every frame (net_monitor.c:42-51, 65-70,         *)
(* 132-165).                                                               *)
THEOREM RecordIsExact == NetSpec => []RecordExact
<1>1. ASSUME NetInv PROVE RecordExact
  <2>1. NetTypeOK /\ RingExact /\ ExtremesExact /\ TimesExact
    BY <1>1 DEF NetInv
  <2>2. SignalHistory
    BY <2>1, HistoryIsLatest, ExtremesAreSamples DEF SignalHistory
  <2>3. ASSUME NEW now \in clock..clock + MaxDelay
        PROVE  LET shown == total + Second * Uptime(now)
               IN shown <= SeenBy(now) /\ SeenBy(now) < shown + Second
    <3>1. /\ since \in Nat /\ total \in Nat /\ clock \in Nat /\ online \in Nat
          /\ now \in Nat /\ clock <= now
      BY <2>1, NetAssumption DEF NetTypeOK
    <3>2. CASE netConnected
      <4>1. 0 < since /\ since <= clock /\ total + (clock - since) = online
        BY <2>1, <3>2 DEF TimesExact
      <4> PICK spent \in Nat : spent = now - since
        BY <3>1, <4>1
      <4>2. /\ Uptime(now) = spent \div Second
            /\ SeenBy(now) = total + spent
        BY <3>1, <3>2, <4>1 DEF Uptime, SeenBy
      <4>3. /\ Second * (spent \div Second) <= spent
            /\ spent < Second * (spent \div Second) + Second
        BY WholeSeconds
      <4>4. PICK whole \in Int : whole = Second * (spent \div Second)
        BY WholeSeconds
      <4>5. total + whole <= total + spent /\ total + spent < total + whole + Second
        <5>1. Second \in Nat
          BY NetAssumption
        <5> QED BY <3>1, <4>3, <4>4, <5>1
      <4> QED BY <4>2, <4>4, <4>5
    <3>3. CASE ~netConnected
      BY <2>1, <3>1, <3>3, NetAssumption DEF TimesExact, Uptime, SeenBy
    <3> QED BY <3>2, <3>3
  <2>4. TimesAddUp
    BY <2>1, <2>3 DEF NetTypeOK, TimesExact, TimesAddUp
  <2> QED BY <2>2, <2>4 DEF RecordExact
<1> QED BY <1>1, NetInvIsInvariant, PTL

-----------------------------------------------------------------------------
(* BtMonitor.                                                              *)

(***************************************************************************)
(* What each list has to do with the devices heard so far.                 *)
(***************************************************************************)
EventsAre(list, heardBy) ==
  /\ list \in Seq(Macs)
  /\ Len(list) = IF Len(heardBy) > MaxEvents THEN MaxEvents ELSE Len(heardBy)
  /\ \A i \in 1..Len(list) : list[i] = heardBy[Len(heardBy) - Len(list) + i]

Devices == [mac : Macs, typed : BOOLEAN]

DevicesAre(list, heardBy) ==
  /\ list \in Seq(Devices) /\ Len(list) <= MaxEvents
  /\ \A i, j \in 1..Len(list) : list[i].mac = list[j].mac => i = j
  /\ \A i \in 1..Len(list) : \E k \in 1..Len(heardBy) : heardBy[k] = list[i].mac

InOrder(list, heardBy) ==
  Cardinality(FirstTimes(heardBy)) <= MaxEvents =>
    /\ Len(list) = Cardinality(FirstTimes(heardBy))
    /\ \A i \in FirstTimes(heardBy) :
         list[RankIn(FirstTimes(heardBy), i)].mac = heardBy[i]

ListsAre(lists, heardBy) ==
  /\ EventsAre(lists.events, heardBy)
  /\ DevicesAre(lists.discovered, heardBy) /\ InOrder(lists.discovered, heardBy)

BtInv == heard \in Seq(Macs) /\ ListsAre(Lists, heard)

-----------------------------------------------------------------------------
(* A list of which the oldest entry goes when it is full.                  *)
LEMMA EnterShifts ==
  ASSUME NEW S, NEW list \in Seq(S), NEW entry \in S, Len(list) <= MaxEvents
  PROVE  /\ Enter(list, entry) \in Seq(S)
         /\ Len(list) < MaxEvents =>
              /\ Len(Enter(list, entry)) = Len(list) + 1
              /\ Enter(list, entry)[Len(list) + 1] = entry
              /\ \A i \in 1..Len(list) : Enter(list, entry)[i] = list[i]
         /\ Len(list) = MaxEvents =>
              /\ Len(Enter(list, entry)) = MaxEvents
              /\ Enter(list, entry)[MaxEvents] = entry
              /\ \A i \in 1..MaxEvents - 1 : Enter(list, entry)[i] = list[i + 1]
<1>a. PICK n \in Nat : n = Len(list)
  BY LenProperties
<1>b. PICK size \in Nat : size = MaxEvents /\ size > 0
  BY BtAssumption
<1>1. CASE n < size
  <2>1. Enter(list, entry) = Append(list, entry)
    BY <1>a, <1>b, <1>1 DEF Enter
  <2> QED BY <1>a, <1>b, <1>1, <2>1, AppendProperties
<1>2. CASE n = size
  <2>1. list # <<>>
    <3>1. Len(<<>>) = 0 /\ n # 0
      BY <1>b, <1>2
    <3> QED BY <1>a, <3>1
  <2>2. /\ Tail(list) \in Seq(S) /\ Len(Tail(list)) = n - 1
        /\ \A i \in 1..n - 1 : Tail(list)[i] = list[i + 1]
    BY <1>a, <2>1, HeadTailProperties
  <2>3. Enter(list, entry) = Append(Tail(list), entry)
    BY <1>a, <1>b, <1>2 DEF Enter
  <2> DEFINE rest == Tail(list)
             longer == Append(rest, entry)
  <2>4. rest \in Seq(S) /\ Len(rest) = n - 1 /\ \A i \in 1..n - 1 : rest[i] = list[i + 1]
    BY <2>2
  <2> HIDE DEF rest
  <2>5. /\ longer \in Seq(S) /\ Len(longer) = n /\ longer[n] = entry
        /\ \A i \in 1..n - 1 : longer[i] = rest[i]
    <3>1. /\ longer \in Seq(S) /\ Len(longer) = Len(rest) + 1 /\ longer[Len(rest) + 1] = entry
          /\ \A i \in 1..Len(rest) : longer[i] = rest[i]
      BY <2>4, AppendProperties
    <3>2. n - 1 + 1 = n
      OBVIOUS
    <3> QED BY <2>4, <3>1, <3>2
  <2>6. Enter(list, entry) = longer
    BY <2>3 DEF rest
  <2> HIDE DEF longer
  <2> QED BY <1>a, <1>b, <1>2, <2>4, <2>5, <2>6
<1>3. n < size \/ n = size
  BY <1>a, <1>b
<1> QED BY <1>1, <1>2, <1>3

LEMMA EventsStep ==
  ASSUME NEW list, NEW heardBy \in Seq(Macs), NEW mac \in Macs, EventsAre(list, heardBy)
  PROVE  EventsAre(Enter(list, mac), Append(heardBy, mac))
<1>a. PICK size \in Nat : size = MaxEvents /\ size > 0
  BY BtAssumption
<1>b. PICK n \in Nat : n = Len(heardBy)
  BY LenProperties
<1>1. list \in Seq(Macs)
  BY DEF EventsAre
<1>c. PICK k \in Nat : k = Len(list)
  BY <1>1, LenProperties
<1>2. k = IF n > size THEN size ELSE n
  BY <1>a, <1>b, <1>c DEF EventsAre
<1>d. \A i \in 1..k : list[i] = heardBy[n - k + i]
  BY <1>b, <1>c DEF EventsAre
<1> DEFINE longer == Append(heardBy, mac)
           entered == Enter(list, mac)
<1>3. /\ Len(longer) = n + 1 /\ longer[n + 1] = mac
      /\ \A i \in 1..n : longer[i] = heardBy[i]
  BY <1>b, AppendProperties
<1>4. /\ entered \in Seq(Macs)
      /\ k < size => /\ Len(entered) = k + 1 /\ entered[k + 1] = mac
                     /\ \A i \in 1..k : entered[i] = list[i]
      /\ k = size => /\ Len(entered) = size /\ entered[size] = mac
                     /\ \A i \in 1..size - 1 : entered[i] = list[i + 1]
  <2>1. Len(list) <= MaxEvents
    BY <1>a, <1>c, <1>2
  <2>2. /\ entered \in Seq(Macs)
        /\ Len(list) < MaxEvents =>
             /\ Len(entered) = Len(list) + 1 /\ entered[Len(list) + 1] = mac
             /\ \A i \in 1..Len(list) : entered[i] = list[i]
        /\ Len(list) = MaxEvents =>
             /\ Len(entered) = MaxEvents /\ entered[MaxEvents] = mac
             /\ \A i \in 1..MaxEvents - 1 : entered[i] = list[i + 1]
    BY <1>1, <2>1, EnterShifts
  <2> HIDE DEF entered
  <2> QED BY <1>a, <1>c, <2>2
<1> HIDE DEF longer, entered
<1>5. CASE k < size
  <2>1. k = n /\ ~(n + 1 > size)
    BY <1>2, <1>5
  <2>2. Len(entered) = n + 1 /\ entered[n + 1] = mac /\ \A i \in 1..n : entered[i] = list[i]
    BY <1>4, <1>5, <2>1
  <2>3. \A i \in 1..n : list[i] = heardBy[i]
    <3>1. \A i \in 1..n : n - n + i = i
      OBVIOUS
    <3> QED BY <1>d, <2>1, <3>1
  <2>4. \A i \in 1..n + 1 : i = n + 1 \/ i \in 1..n
    OBVIOUS
  <2>5. \A i \in 1..n + 1 : entered[i] = longer[i]
    BY <1>3, <2>2, <2>3, <2>4
  <2>6. \A i \in 1..n + 1 : n + 1 - (n + 1) + i = i
    OBVIOUS
  <2>7. \A i \in 1..Len(entered) : entered[i] = longer[Len(longer) - Len(entered) + i]
    BY <1>3, <2>2, <2>5, <2>6
  <2>8. Len(entered) = IF Len(longer) > MaxEvents THEN MaxEvents ELSE Len(longer)
    BY <1>a, <1>3, <2>1, <2>2
  <2> QED BY <1>4, <2>7, <2>8 DEF EventsAre, longer, entered
<1>6. CASE k = size
  <2>1. n >= size /\ n + 1 > size
    BY <1>2, <1>6
  <2>2. /\ Len(entered) = size /\ entered[size] = mac
        /\ \A i \in 1..size - 1 : entered[i] = list[i + 1]
    BY <1>4, <1>6
  <2>3. ASSUME NEW i \in 1..size PROVE entered[i] = longer[n + 1 - size + i]
    <3>1. CASE i = size
      <4>1. n + 1 - size + i = n + 1
        BY <3>1
      <4> QED BY <1>3, <2>2, <3>1, <4>1
    <3>2. CASE i # size
      <4>1. i \in 1..size - 1 /\ i + 1 \in 1..size
        BY <3>2
      <4>2. PICK j \in 1..n : j = n + 1 - size + i
        BY <2>1, <4>1
      <4>3. n - size + (i + 1) = j
        BY <4>2
      <4>4. list[i + 1] = heardBy[j]
        BY <1>d, <1>6, <4>1, <4>3
      <4> QED BY <1>3, <2>2, <4>1, <4>2, <4>4
    <3> QED BY <3>1, <3>2
  <2>4. \A i \in 1..Len(entered) : entered[i] = longer[Len(longer) - Len(entered) + i]
    BY <1>3, <2>2, <2>3
  <2>5. Len(entered) = IF Len(longer) > MaxEvents THEN MaxEvents ELSE Len(longer)
    BY <1>a, <1>3, <2>1, <2>2
  <2> QED BY <1>4, <2>4, <2>5 DEF EventsAre, longer, entered
<1>7. k < size \/ k = size
  BY <1>2
<1> QED BY <1>5, <1>6, <1>7 DEF longer, entered

-----------------------------------------------------------------------------
(* The first times: each new device adds one, the latest.                  *)
LEMMA FirstTimesFinite ==
  ASSUME NEW heardBy \in Seq(Macs)
  PROVE  /\ \A i \in FirstTimes(heardBy) : i \in 1..Len(heardBy)
         /\ IsFiniteSet(FirstTimes(heardBy)) /\ Cardinality(FirstTimes(heardBy)) \in Nat
<1>1. FirstTimes(heardBy) \subseteq 1..Len(heardBy)
  BY DEF FirstTimes
<1>a. PICK n \in Nat : n = Len(heardBy)
  BY LenProperties
<1>2. IsFiniteSet(1..n)
  BY FS_Interval
<1>3. IsFiniteSet(FirstTimes(heardBy))
  BY <1>1, <1>2, <1>a, FS_Subset
<1> QED BY <1>1, <1>3, FS_CardinalityType

LEMMA FirstTimesGrow ==
  ASSUME NEW heardBy \in Seq(Macs), NEW mac \in Macs
  PROVE  /\ (\E k \in 1..Len(heardBy) : heardBy[k] = mac) =>
              FirstTimes(Append(heardBy, mac)) = FirstTimes(heardBy)
         /\ (\A k \in 1..Len(heardBy) : heardBy[k] # mac) =>
              FirstTimes(Append(heardBy, mac)) = FirstTimes(heardBy) \union {Len(heardBy) + 1}
<1>a. PICK n \in Nat : n = Len(heardBy)
  BY LenProperties
<1> DEFINE longer == Append(heardBy, mac)
<1>1. /\ Len(longer) = n + 1 /\ longer[n + 1] = mac
      /\ \A i \in 1..n : longer[i] = heardBy[i]
  BY <1>a, AppendProperties
<1> HIDE DEF longer
<1>2. \A i \in 1..n : i \in FirstTimes(longer) <=> i \in FirstTimes(heardBy)
  <2> TAKE i \in 1..n
  <2>1. i \in 1..n + 1 /\ \A j \in 1..i - 1 : j \in 1..n
    OBVIOUS
  <2>2. (\A j \in 1..i - 1 : longer[j] # longer[i]) <=> \A j \in 1..i - 1 : heardBy[j] # heardBy[i]
    BY <1>1, <2>1
  <2> QED BY <1>a, <1>1, <2>1, <2>2 DEF FirstTimes
<1>3. n + 1 \in FirstTimes(longer) <=> \A k \in 1..n : heardBy[k] # mac
  <2>1. n + 1 - 1 = n /\ n + 1 \in 1..n + 1
    OBVIOUS
  <2>2. (\A j \in 1..n : longer[j] # longer[n + 1]) <=> \A k \in 1..n : heardBy[k] # mac
    BY <1>1
  <2> QED BY <1>1, <2>1, <2>2 DEF FirstTimes
<1>4. /\ \A i \in FirstTimes(longer) : i \in 1..n \/ i = n + 1
      /\ \A i \in FirstTimes(heardBy) : i \in 1..n
  BY <1>a, <1>1 DEF FirstTimes
<1>5. ASSUME \E k \in 1..n : heardBy[k] = mac
      PROVE  FirstTimes(longer) = FirstTimes(heardBy)
  BY <1>2, <1>3, <1>4, <1>5
<1>6. ASSUME \A k \in 1..n : heardBy[k] # mac
      PROVE  FirstTimes(longer) = FirstTimes(heardBy) \union {n + 1}
  BY <1>2, <1>3, <1>4, <1>6
<1> QED BY <1>a, <1>5, <1>6 DEF longer

LEMMA RankRange ==
  ASSUME NEW heardBy \in Seq(Macs), NEW i \in FirstTimes(heardBy)
  PROVE  RankIn(FirstTimes(heardBy), i) \in 1..Cardinality(FirstTimes(heardBy))
<1> DEFINE times == FirstTimes(heardBy)
           below == {j \in times : j <= i}
<1>1. IsFiniteSet(times) /\ Cardinality(times) \in Nat /\ i \in Nat
  BY FirstTimesFinite
<1>2. below \subseteq times /\ i \in below
  BY <1>1
<1>3. RankIn(times, i) = Cardinality(below)
  BY DEF RankIn
<1> HIDE DEF times, below
<1>4. IsFiniteSet(below) /\ Cardinality(below) <= Cardinality(times)
  BY <1>1, <1>2, FS_Subset
<1>5. Cardinality(below) \in Nat
  BY <1>4, FS_CardinalityType
<1>6. Cardinality(below) # 0
  BY <1>2, <1>4, FS_EmptySet
<1>a. PICK m \in Nat, c \in Nat : m = Cardinality(below) /\ c = Cardinality(times)
  BY <1>1, <1>5
<1>7. m \in 1..c
  BY <1>4, <1>6, <1>a
<1> QED BY <1>3, <1>7, <1>a DEF times

(* Every device heard was heard for the first time.                        *)
LEMMA HeardFirst ==
  ASSUME NEW heardBy \in Seq(Macs), NEW k \in 1..Len(heardBy)
  PROVE  \E i \in FirstTimes(heardBy) : heardBy[i] = heardBy[k]
<1>a. PICK n \in Nat : n = Len(heardBy)
  BY LenProperties
<1> DEFINE Same == {i \in 1..n : heardBy[i] = heardBy[k]}
<1>1. k \in Same /\ \A i \in Same : i \in Nat /\ i \in 1..n /\ heardBy[i] = heardBy[k]
  BY <1>a
<1> HIDE DEF Same
<1>2. Same \subseteq Nat /\ Same # {}
  BY <1>1
<1>3. PICK i \in Same : \A m \in Same : i <= m
  BY <1>2, Least
<1>4. ASSUME NEW j \in 1..i - 1 PROVE heardBy[j] # heardBy[i]
  <2>1. j \in 1..n /\ ~(i <= j)
    BY <1>1
  <2>2. j \notin Same
    BY <1>3, <2>1
  <2>3. heardBy[j] # heardBy[k]
    BY <2>1, <2>2 DEF Same
  <2> QED BY <1>1, <2>3
<1> QED BY <1>a, <1>1, <1>4 DEF FirstTimes

LEMMA HeardIsListed ==
  ASSUME NEW heardBy \in Seq(Macs), NEW list, InOrder(list, heardBy),
         Cardinality(FirstTimes(heardBy)) <= MaxEvents, NEW k \in 1..Len(heardBy)
  PROVE  heardBy[k] \in MacsOf(list)
<1>1. PICK i \in FirstTimes(heardBy) : heardBy[i] = heardBy[k]
  BY HeardFirst
<1>2. RankIn(FirstTimes(heardBy), i) \in 1..Len(list)
  BY RankRange DEF InOrder
<1>3. list[RankIn(FirstTimes(heardBy), i)].mac = heardBy[k]
  BY <1>1 DEF InOrder
<1> QED BY <1>2, <1>3 DEF MacsOf

-----------------------------------------------------------------------------
(* push_event keeps what is said of the list of devices.                   *)
LEMMA DiscoverDevices ==
  ASSUME NEW list, NEW heardBy \in Seq(Macs), NEW mac \in Macs, NEW known,
         DevicesAre(list, heardBy)
  PROVE  DevicesAre(Discover(list, mac, known), Append(heardBy, mac))
<1>a. PICK n \in Nat : n = Len(heardBy)
  BY LenProperties
<1>b. PICK size \in Nat : size = MaxEvents /\ size > 0
  BY BtAssumption
<1>1. list \in Seq(Devices)
  BY DEF DevicesAre
<1>c. PICK m \in Nat : m = Len(list)
  BY <1>1, LenProperties
<1> DEFINE longer == Append(heardBy, mac)
<1>2. /\ Len(longer) = n + 1 /\ longer[n + 1] = mac
      /\ \A i \in 1..n : longer[i] = heardBy[i]
  BY <1>a, AppendProperties
<1> HIDE DEF longer
<1>3. /\ m <= size
      /\ \A i, j \in 1..m : list[i].mac = list[j].mac => i = j
      /\ \A i \in 1..m : \E k \in 1..n : heardBy[k] = list[i].mac
  BY <1>a, <1>b, <1>c DEF DevicesAre
<1>4. \A i \in 1..m : \E k \in 1..n + 1 : longer[k] = list[i].mac
  <2> TAKE i \in 1..m
  <2>1. PICK k \in 1..n : heardBy[k] = list[i].mac
    BY <1>3
  <2>2. k \in 1..n + 1
    OBVIOUS
  <2> QED BY <1>2, <2>1, <2>2
<1>5. CASE mac \in MacsOf(list)
  <2>1. Discover(list, mac, known) = list
    BY <1>5 DEF Discover
  <2>2. DevicesAre(list, longer)
    BY <1>1, <1>2, <1>3, <1>4, <1>b, <1>c DEF DevicesAre
  <2> QED BY <2>1, <2>2 DEF longer
<1>6. CASE mac \notin MacsOf(list)
  <2> DEFINE new == [mac |-> mac, typed |-> mac \in known]
             entered == Enter(list, new)
  <2>1. new \in Devices /\ new.mac = mac
    <3>1. (mac \in known) \in BOOLEAN
      OBVIOUS
    <3> QED BY <3>1 DEF Devices
  <2>2. Discover(list, mac, known) = entered
    BY <1>6 DEF Discover
  <2>3. \A i \in 1..m : list[i].mac # mac
    BY <1>6, <1>c DEF MacsOf
  <2> HIDE DEF new
  <2>4. /\ entered \in Seq(Devices)
        /\ m < size => /\ Len(entered) = m + 1 /\ entered[m + 1] = new
                       /\ \A i \in 1..m : entered[i] = list[i]
        /\ m = size => /\ Len(entered) = size /\ entered[size] = new
                       /\ \A i \in 1..size - 1 : entered[i] = list[i + 1]
    <3>1. Len(list) <= MaxEvents
      BY <1>3, <1>b, <1>c
    <3>2. /\ entered \in Seq(Devices)
          /\ Len(list) < MaxEvents =>
               /\ Len(entered) = Len(list) + 1 /\ entered[Len(list) + 1] = new
               /\ \A i \in 1..Len(list) : entered[i] = list[i]
          /\ Len(list) = MaxEvents =>
               /\ Len(entered) = MaxEvents /\ entered[MaxEvents] = new
               /\ \A i \in 1..MaxEvents - 1 : entered[i] = list[i + 1]
      BY <1>1, <2>1, <3>1, EnterShifts
    <3> HIDE DEF entered
    <3> QED BY <1>b, <1>c, <3>2
  <2> HIDE DEF entered
  <2>5. n + 1 \in 1..n + 1 /\ n + 1 = Len(longer) /\ size = MaxEvents
    BY <1>2, <1>b
  <2>6. ASSUME m < size PROVE DevicesAre(entered, longer)
    <3>1. /\ Len(entered) = m + 1 /\ entered[m + 1] = new
          /\ \A i \in 1..m : entered[i] = list[i]
      BY <2>4, <2>6
    <3>2. \A i \in 1..m + 1 : i \in 1..m \/ i = m + 1
      OBVIOUS
    <3>3. \A i, j \in 1..m + 1 : entered[i].mac = entered[j].mac => i = j
      BY <1>3, <2>1, <2>3, <3>1, <3>2
    <3>4. \A i \in 1..m + 1 : \E k \in 1..n + 1 : longer[k] = entered[i].mac
      BY <1>2, <1>4, <2>1, <2>5, <3>1, <3>2
    <3>5. m + 1 <= size
      BY <2>6
    <3>a. PICK k \in Nat : k = m + 1
      OBVIOUS
    <3> QED BY <2>4, <2>5, <3>1, <3>3, <3>4, <3>5, <3>a DEF DevicesAre
  <2>7. ASSUME m = size PROVE DevicesAre(entered, longer)
    <3>1. /\ Len(entered) = size /\ entered[size] = new
          /\ \A i \in 1..size - 1 : entered[i] = list[i + 1]
      BY <2>4, <2>7
    <3>2. \A i \in 1..size : i = size \/ (i \in 1..size - 1 /\ i + 1 \in 1..m)
      BY <2>7
    <3>3. \A i, j \in 1..size : entered[i].mac = entered[j].mac => i = j
      <4> TAKE i, j \in 1..size
      <4>1. CASE i = size
        BY <2>1, <2>3, <3>1, <3>2, <4>1
      <4>2. CASE j = size
        BY <2>1, <2>3, <3>1, <3>2, <4>2
      <4>3. CASE i # size /\ j # size
        <5>1. PICK k, l \in 1..m : k = i + 1 /\ l = j + 1
          BY <2>7, <4>3
        <5>2. entered[i] = list[k] /\ entered[j] = list[l]
          BY <3>1, <3>2, <4>3, <5>1
        <5>3. list[k].mac = list[l].mac => k = l
          BY <1>3
        <5>4. k = l => i = j
          BY <5>1
        <5> QED BY <5>2, <5>3, <5>4
      <4> QED BY <4>1, <4>2, <4>3
    <3>4. \A i \in 1..size : \E k \in 1..n + 1 : longer[k] = entered[i].mac
      BY <1>2, <1>4, <2>1, <2>5, <3>1, <3>2
    <3>5. size <= size
      OBVIOUS
    <3> QED BY <2>4, <2>5, <3>1, <3>3, <3>4, <3>5 DEF DevicesAre
  <2>8. m < size \/ m = size
    BY <1>3
  <2>9. DevicesAre(entered, longer)
    BY <2>6, <2>7, <2>8
  <2> QED BY <2>2, <2>9 DEF longer
<1> QED BY <1>5, <1>6

LEMMA DiscoverInOrder ==
  ASSUME NEW list, NEW heardBy \in Seq(Macs), NEW mac \in Macs, NEW known,
         DevicesAre(list, heardBy), InOrder(list, heardBy)
  PROVE  InOrder(Discover(list, mac, known), Append(heardBy, mac))
<1>a. PICK n \in Nat : n = Len(heardBy)
  BY LenProperties
<1>b. PICK size \in Nat : size = MaxEvents /\ size > 0
  BY BtAssumption
<1>1. list \in Seq(Devices)
  BY DEF DevicesAre
<1>c. PICK m \in Nat : m = Len(list)
  BY <1>1, LenProperties
<1> DEFINE longer == Append(heardBy, mac)
           times == FirstTimes(heardBy)
<1>2. /\ longer \in Seq(Macs) /\ Len(longer) = n + 1 /\ longer[n + 1] = mac
      /\ \A i \in 1..n : longer[i] = heardBy[i]
  BY <1>a, AppendProperties
<1>3. /\ \A i \in times : i \in 1..n
      /\ IsFiniteSet(times) /\ Cardinality(times) \in Nat
  BY <1>a, FirstTimesFinite
<1>d. PICK c \in Nat : c = Cardinality(times)
  BY <1>3
<1>4. /\ (\E k \in 1..n : heardBy[k] = mac) => FirstTimes(longer) = times
      /\ (\A k \in 1..n : heardBy[k] # mac) => FirstTimes(longer) = times \union {n + 1}
  BY <1>a, FirstTimesGrow
<1>5. c <= size => m = c /\ \A i \in times : list[RankIn(times, i)].mac = heardBy[i]
  BY <1>b, <1>c, <1>d DEF InOrder
<1>6. ASSUME c <= size PROVE \A k \in 1..n : heardBy[k] \in MacsOf(list)
  <2>1. Cardinality(FirstTimes(heardBy)) <= MaxEvents
    BY <1>6, <1>b, <1>d
  <2> QED BY <1>a, <2>1, HeardIsListed
<1>7. \A i \in times : RankIn(times, i) \in 1..c
  BY <1>d, RankRange
<1> HIDE DEF longer, times
<1>8. CASE mac \in MacsOf(list)
  <2>1. Discover(list, mac, known) = list
    BY <1>8 DEF Discover
  <2>2. \E k \in 1..n : heardBy[k] = mac
    BY <1>8, <1>a DEF MacsOf, DevicesAre
  <2>3. FirstTimes(longer) = times
    BY <1>4, <2>2
  <2>4. ASSUME c <= size
        PROVE  m = c /\ \A i \in times : list[RankIn(times, i)].mac = longer[i]
    BY <1>2, <1>3, <1>5, <2>4
  <2>5. InOrder(list, longer)
    BY <1>b, <1>c, <1>d, <2>3, <2>4 DEF InOrder
  <2> QED BY <2>1, <2>5 DEF longer
<1>9. CASE mac \notin MacsOf(list)
  <2> DEFINE new == [mac |-> mac, typed |-> mac \in known]
             entered == Enter(list, new)
             grown == FirstTimes(longer)
  <2>1. Discover(list, mac, known) = entered
    BY <1>9 DEF Discover
  <2>2. new \in Devices /\ new.mac = mac
    <3>1. (mac \in known) \in BOOLEAN
      OBVIOUS
    <3> QED BY <3>1 DEF Devices
  <2> HIDE DEF new
  <2>3. IsFiniteSet(grown) /\ Cardinality(grown) \in Nat
    BY <1>2, FirstTimesFinite
  <2>d. PICK g \in Nat : g = Cardinality(grown)
    BY <2>3
  <2>4. times \subseteq grown
    BY <1>4
  <2> HIDE DEF grown
  <2>5. c <= g
    BY <1>d, <2>3, <2>4, <2>d, FS_Subset
  <2>6. ASSUME g <= size
        PROVE  /\ Len(entered) = g
               /\ \A i \in grown : entered[RankIn(grown, i)].mac = longer[i]
    <3>1. c <= size
      BY <2>5, <2>6
    <3>2. \A k \in 1..n : heardBy[k] # mac
      BY <1>6, <1>9, <3>1
    <3>3. grown = times \union {n + 1} /\ n + 1 \notin times
      <4>1. n + 1 \notin 1..n
        OBVIOUS
      <4> QED BY <1>3, <1>4, <3>2, <4>1 DEF grown
    <3>4. g = c + 1
      <4>1. Cardinality(times \union {n + 1}) = Cardinality(times) + 1
        BY <1>3, <3>3, FS_AddElement
      <4> QED BY <1>d, <2>d, <3>3, <4>1
    <3>5. m = c /\ m < size
      BY <1>5, <2>6, <3>1, <3>4
    <3>6. /\ Len(entered) = m + 1 /\ entered[m + 1] = new
          /\ \A i \in 1..m : entered[i] = list[i]
      <4>1. Len(list) < MaxEvents
        BY <1>b, <1>c, <3>5
      <4>2. Len(list) <= MaxEvents
        BY <4>1, <1>b, <1>c, <3>5
      <4>3. /\ Len(entered) = Len(list) + 1 /\ entered[Len(list) + 1] = new
            /\ \A i \in 1..Len(list) : entered[i] = list[i]
        BY <1>1, <2>2, <4>1, <4>2, EnterShifts
      <4> HIDE DEF entered
      <4> QED BY <1>c, <4>3
    <3>7. ASSUME NEW i \in times PROVE entered[RankIn(grown, i)].mac = longer[i]
      <4>1. i \in 1..n /\ ~(n + 1 <= i)
        BY <1>3
      <4>2. {j \in grown : j <= i} = {j \in times : j <= i}
        BY <3>3, <4>1
      <4>3. RankIn(grown, i) = RankIn(times, i)
        BY <4>2 DEF RankIn
      <4>4. RankIn(times, i) \in 1..m
        BY <1>7, <3>5
      <4>5. entered[RankIn(times, i)] = list[RankIn(times, i)]
        BY <3>6, <4>4
      <4> QED BY <1>2, <1>5, <3>1, <4>1, <4>3, <4>5
    <3>8. entered[RankIn(grown, n + 1)].mac = longer[n + 1]
      <4>1. \A j \in grown : j <= n + 1
        BY <1>3, <3>3
      <4>2. {j \in grown : j <= n + 1} = grown
        BY <4>1
      <4>3. RankIn(grown, n + 1) = m + 1
        BY <2>d, <3>4, <3>5, <4>2 DEF RankIn
      <4> QED BY <1>2, <2>2, <3>6, <4>3
    <3> QED BY <3>3, <3>4, <3>5, <3>6, <3>7, <3>8
  <2>7. InOrder(entered, longer)
    <3> HIDE DEF entered
    <3> QED BY <1>b, <2>6, <2>d DEF InOrder, grown
  <2> QED BY <2>1, <2>7 DEF longer
<1> QED BY <1>8, <1>9

LEMMA EventKeepsLists ==
  ASSUME NEW lists, NEW heardBy \in Seq(Macs), NEW mac \in Macs, NEW known,
         ListsAre(lists, heardBy)
  PROVE  ListsAre(PushEvent(lists, mac, known), Append(heardBy, mac))
<1>1. /\ EventsAre(lists.events, heardBy)
      /\ DevicesAre(lists.discovered, heardBy) /\ InOrder(lists.discovered, heardBy)
  BY DEF ListsAre
<1>2. EventsAre(Enter(lists.events, mac), Append(heardBy, mac))
  BY <1>1, EventsStep
<1>3. DevicesAre(Discover(lists.discovered, mac, known), Append(heardBy, mac))
  BY <1>1, DiscoverDevices
<1>4. InOrder(Discover(lists.discovered, mac, known), Append(heardBy, mac))
  BY <1>1, DiscoverInOrder
<1> QED BY <1>2, <1>3, <1>4 DEF ListsAre, PushEvent

(* The recursive function of a poll exists.                                *)
Polls(f, size, batch, known) ==
  f = [n \in 0..size |-> IF n = 0 THEN Lists ELSE PushEvent(f[n - 1], batch[n], known)]

LEMMA PollExists ==
  ASSUME NEW size \in Nat, NEW batch, NEW known
  PROVE  \E f : Polls(f, size, batch, known)
<1> DEFINE Without == {k \in Nat : ~\E f : Polls(f, k, batch, known)}
<1> SUFFICES ASSUME Without # {} PROVE FALSE
  OBVIOUS
<1>1. Without \subseteq Nat
  OBVIOUS
<1>2. PICK k \in Without : \A j \in Without : k <= j
  BY <1>1, Least, Zenon
<1>3. k \in Nat /\ ~\E f : Polls(f, k, batch, known)
  BY <1>2
<1>4. CASE k = 0
  <2> DEFINE f == [n \in 0..0 |-> Lists]
  <2>1. \A n \in 0..0 : n = 0
    OBVIOUS
  <2>2. f = [n \in 0..0 |-> IF n = 0 THEN Lists ELSE PushEvent(f[n - 1], batch[n], known)]
    BY <2>1
  <2> QED BY <1>3, <1>4, <2>2 DEF Polls
<1>5. CASE k # 0
  <2>1. k - 1 \in Nat /\ ~(k <= k - 1)
    BY <1>3, <1>5
  <2>2. k - 1 \notin Without
    BY <1>2, <2>1
  <2>3. PICK f : Polls(f, k - 1, batch, known)
    BY <2>1, <2>2
  <2>4. f = [n \in 0..k - 1 |->
               IF n = 0 THEN Lists ELSE PushEvent(f[n - 1], batch[n], known)]
    BY <2>3 DEF Polls
  <2> DEFINE step(n, before) == IF n = 0 THEN Lists ELSE PushEvent(before, batch[n], known)
             g == [n \in 0..k |-> IF n = k THEN step(k, f[k - 1]) ELSE f[n]]
  <2>5. f = [n \in 0..k - 1 |-> step(n, f[n - 1])]
    BY <2>4
  <2>6. Polls(g, k, batch, known) = (g = [n \in 0..k |-> step(n, g[n - 1])])
    BY DEF Polls
  <2> HIDE DEF step
  <2>7. ASSUME NEW n \in 0..k PROVE g[n] = step(n, g[n - 1])
    <3>1. CASE n = k
      <4>1. k - 1 \in 0..k /\ k - 1 # k /\ k \in 0..k
        BY <1>3, <1>5
      <4> QED BY <3>1, <4>1
    <3>2. CASE n # k /\ n # 0
      <4>1. n \in 0..k - 1 /\ n - 1 \in 0..k /\ n - 1 # k
        BY <1>3, <3>2
      <4> QED BY <2>5, <3>2, <4>1
    <3>3. CASE n # k /\ n = 0
      <4>1. n \in 0..k - 1
        BY <1>3, <3>3
      <4>2. step(n, f[n - 1]) = step(n, g[n - 1])
        BY <3>3 DEF step
      <4>3. f[n] = step(n, f[n - 1])
        BY <2>5, <4>1
      <4> QED BY <3>3, <4>2, <4>3
    <3> QED BY <3>1, <3>2, <3>3
  <2>8. g = [n \in 0..k |-> step(n, g[n - 1])]
    BY <2>7
  <2> QED BY <1>3, <2>6, <2>8
<1> QED BY <1>4, <1>5

LEMMA PushedKeepsLists ==
  ASSUME BtInv, NEW batch \in Seq(Macs), NEW known
  PROVE  ListsAre(Pushed(batch, known), heard \o batch)
<1> DEFINE after == CHOOSE f : Polls(f, Len(batch), batch, known)
<1>a. PICK size \in Nat : size = Len(batch)
  BY LenProperties
<1>1. Pushed(batch, known) = after[Len(batch)]
  BY DEF Pushed, Polls
<1>2. Polls(after, size, batch, known)
  BY <1>a, PollExists
<1> HIDE DEF after
<1>3. \A n \in 0..size :
        after[n] = IF n = 0 THEN Lists ELSE PushEvent(after[n - 1], batch[n], known)
  BY <1>2 DEF Polls
<1>4. heard \in Seq(Macs) /\ ListsAre(Lists, heard)
  BY DEF BtInv
<1> DEFINE So(n) == heard \o SubSeq(batch, 1, n)
           Wrong == {n \in 0..size : ~ListsAre(after[n], So(n))}
<1>5. ASSUME Wrong # {} PROVE FALSE
  <2>1. Wrong \subseteq Nat
    OBVIOUS
  <2>2. PICK n \in Wrong : \A j \in Wrong : n <= j
    BY <1>5, <2>1, Least, Zenon
  <2>3. n \in 0..size /\ ~ListsAre(after[n], So(n))
    BY <2>2
  <2>4. CASE n = 0
    <3>1. SubSeq(batch, 1, 0) = <<>>
      BY SubSeqEmpty
    <3>2. So(0) = heard
      BY <1>4, <3>1, ConcatEmptySeq
    <3>3. after[0] = Lists
      BY <1>3, <2>3, <2>4
    <3> QED BY <1>4, <2>3, <2>4, <3>2, <3>3
  <2>5. CASE n # 0
    <3>1. n \in 1..size /\ n - 1 \in 0..size /\ ~(n <= n - 1)
      BY <2>3, <2>5
    <3>2. n - 1 \notin Wrong
      BY <2>2, <3>1
    <3>3. ListsAre(after[n - 1], So(n - 1))
      BY <3>1, <3>2
    <3>4. batch[n] \in Macs
      BY <1>a, <3>1, ElementOfSeq
    <3>5. SubSeq(batch, 1, n - 1) \in Seq(Macs)
      <4>1. \A i \in 1..n - 1 : batch[i] \in Macs
        BY <1>a, <3>1, ElementOfSeq
      <4> QED BY <3>1, <4>1, SubSeqProperties
    <3>6. So(n - 1) \in Seq(Macs)
      BY <1>4, <3>5, ConcatProperties
    <3>7. SubSeq(batch, 1, n) = Append(SubSeq(batch, 1, n - 1), batch[n])
      BY <1>a, <3>1, <3>4, <3>5, SubSeqRecursiveSecond, AppendIsConcat
    <3>8. So(n) = Append(So(n - 1), batch[n])
      BY <1>4, <3>4, <3>5, <3>7
    <3>9. after[n] = PushEvent(after[n - 1], batch[n], known)
      BY <1>3, <2>3, <2>5
    <3> QED BY <2>3, <3>3, <3>4, <3>6, <3>8, <3>9, EventKeepsLists
  <2> QED BY <2>4, <2>5
<1>6. size \in 0..size /\ SubSeq(batch, 1, size) = batch
  BY <1>a, SubSeqFull
<1> QED BY <1>1, <1>5, <1>6, <1>a

LEMMA BatchIsSeq ==
  ASSUME NEW batch \in BoundedSeq(Macs, BatchMax)
  PROVE  batch \in Seq(Macs)
<1>1. PICK m \in 0..BatchMax : batch \in [1..m -> Macs]
  BY DEF BoundedSeq, SeqOf
<1>2. m \in Nat
  BY BtAssumption
<1> QED BY <1>1, <1>2, IsASeq

LEMMA BtInitially == BtInit => BtInv
<1> SUFFICES ASSUME BtInit PROVE BtInv
  OBVIOUS
<1>1. heard = <<>> /\ Lists.events = <<>> /\ Lists.discovered = <<>>
  BY DEF BtInit, Lists
<1>2. \A S : <<>> \in Seq(S) /\ Len(<<>>) = 0
  OBVIOUS
<1>3. 0 <= MaxEvents /\ ~(0 > MaxEvents)
  BY BtAssumption
<1>4. EventsAre(<<>>, <<>>)
  BY <1>2, <1>3 DEF EventsAre
<1>5. DevicesAre(<<>>, <<>>)
  BY <1>2, <1>3 DEF DevicesAre
<1>6. FirstTimes(<<>>) = {}
  BY <1>2 DEF FirstTimes
<1>7. Cardinality(FirstTimes(<<>>)) = 0
  BY <1>6, FS_EmptySet
<1>8. InOrder(<<>>, <<>>)
  BY <1>2, <1>6, <1>7 DEF InOrder
<1> QED BY <1>1, <1>2, <1>4, <1>5, <1>8 DEF BtInv, ListsAre

LEMMA BtStays == BtInv /\ [BtNext]_btVars => BtInv'
<1> SUFFICES ASSUME BtInv, [BtNext]_btVars PROVE BtInv'
  OBVIOUS
<1>1. ASSUME UNCHANGED <<events, discovered, heard>> PROVE BtInv'
  <2>1. Lists' = Lists /\ heard' = heard
    BY <1>1 DEF Lists
  <2> QED BY <2>1 DEF BtInv
<1>2. ASSUME NEW batch \in BoundedSeq(Macs, BatchMax), NEW known, Push(batch, known)
      PROVE  BtInv'
  <2>1. batch \in Seq(Macs)
    BY BatchIsSeq
  <2>2. ListsAre(Pushed(batch, known), heard \o batch)
    BY <2>1, PushedKeepsLists
  <2>3. /\ Lists'.events = Pushed(batch, known).events
        /\ Lists'.discovered = Pushed(batch, known).discovered
        /\ heard' = heard \o batch
    BY <1>2 DEF Push, Lists
  <2>4. ListsAre(Lists', heard')
    BY <2>2, <2>3 DEF ListsAre
  <2>5. heard' \in Seq(Macs)
    BY <2>1, <2>3, ConcatProperties DEF BtInv
  <2> QED BY <2>4, <2>5 DEF BtInv
<1>3. CASE NoConfiguration
  BY <1>1, <1>3 DEF NoConfiguration
<1>4. CASE BtPoll
  BY <1>1, <1>2, <1>4 DEF BtPoll
<1>5. CASE SetInquiry
  BY <1>1, <1>5 DEF SetInquiry
<1>6. CASE UNCHANGED btVars
  BY <1>1, <1>6 DEF btVars
<1> QED BY <1>3, <1>4, <1>5, <1>6 DEF BtNext

LEMMA EventsAreLatest == BtInv => events = LatestHeard
<1> SUFFICES ASSUME BtInv PROVE events = LatestHeard
  OBVIOUS
<1>1. heard \in Seq(Macs) /\ EventsAre(events, heard)
  BY DEF BtInv, ListsAre, Lists
<1>a. PICK n \in Nat : n = Len(heard)
  BY <1>1, LenProperties
<1>b. PICK size \in Nat : size = MaxEvents /\ size > 0
  BY BtAssumption
<1>c. PICK first \in Nat : first = IF n > size THEN n - size + 1 ELSE 1
  <2>1. (IF n > size THEN n - size + 1 ELSE 1) \in Nat
    OBVIOUS
  <2> QED BY <2>1, Zenon
<1>2. first >= 1 /\ first <= n + 1
  BY <1>c, <1>b
<1>3. LatestHeard = SubSeq(heard, first, n)
  BY <1>a, <1>b, <1>c DEF LatestHeard
<1> DEFINE latest == SubSeq(heard, first, n)
<1>4. /\ latest \in Seq(Macs) /\ Len(latest) = IF first <= n THEN n - first + 1 ELSE 0
      /\ \A i \in 1..n - first + 1 : latest[i] = heard[first + i - 1]
  <2>1. \A i \in first..n : heard[i] \in Macs
    <3>1. \A i \in first..n : i \in 1..n
      BY <1>2
    <3> QED BY <1>1, <1>a, <3>1, ElementOfSeq
  <2>2. first \in Int /\ n \in Int
    OBVIOUS
  <2> QED BY <2>1, <2>2, SubSeqProperties
<1> HIDE DEF latest
<1>5. Len(latest) = n - first + 1
  BY <1>2, <1>4
<1>d. PICK k \in Nat : k = n - first + 1
  BY <1>2
<1>6. k = IF n > size THEN size ELSE n
  BY <1>c, <1>d
<1>7. /\ events \in Seq(Macs) /\ Len(events) = k
      /\ \A i \in 1..k : events[i] = heard[n - k + i]
  BY <1>1, <1>6, <1>a, <1>b DEF EventsAre
<1>8. \A i \in 1..k : n - k + i = first + i - 1
  BY <1>d
<1>9. \A i \in 1..k : events[i] = latest[i]
  BY <1>4, <1>7, <1>8, <1>d
<1>10. events = latest
  BY <1>4, <1>5, <1>7, <1>9, <1>d, SeqEqual
<1> QED BY <1>3, <1>10 DEF latest

(* Theorem for bt_monitor.c                                                *)
THEOREM ListsAreFaithful == BtSpec => []ListsTellWhatWasHeard
<1>1. BtInv => ListsTellWhatWasHeard
  <2> SUFFICES ASSUME BtInv PROVE ListsTellWhatWasHeard
    OBVIOUS
  <2>1. events = LatestHeard
    BY EventsAreLatest
  <2>2. heard \in Seq(Macs) /\ DevicesAre(discovered, heard) /\ InOrder(discovered, heard)
    BY DEF BtInv, ListsAre, Lists
  <2>3. MacsOf(discovered) \subseteq ToSet(heard)
    BY <2>2 DEF DevicesAre, MacsOf, ToSet
  <2>4. \A i, j \in 1..Len(discovered) : discovered[i].mac = discovered[j].mac => i = j
    BY <2>2 DEF DevicesAre
  <2> QED BY <2>1, <2>2, <2>3, <2>4 DEF ListsTellWhatWasHeard, InOrder
<1> QED BY <1>1, BtInitially, BtStays, PTL DEF BtSpec
=============================================================================
