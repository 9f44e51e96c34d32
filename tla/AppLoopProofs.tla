---------------------------- MODULE AppLoopProofs ---------------------------
(***************************************************************************)
(* Proofs about AppLoop, for every set of hosts, every list of screens,    *)
(* any number of rows drawn and of profiles, and every combination of      *)
(* buttons that go down in the same frame.                                 *)
(***************************************************************************)
EXTENDS AppLoop, FiniteSetTheorems, SequenceTheorems, TLAPS

(* The lists of hosts are as long as the network at most, and a round runs *)
(* only if it was allowed to begin.                                        *)
Bounded == /\ Len(found) <= Cardinality(Hosts) /\ Len(seen) <= Cardinality(Hosts)
           /\ round <= MaxRounds
           /\ running => round < MaxRounds

TypeInv == TypeOK /\ Bounded

(* What AlertsTellTheNetwork needs between a tick and its report: the      *)
(* hosts the next report compares with are the ones a reader knows of, and *)
(* a round that ended left its hosts in the metrics of this frame.         *)
AlertsInv ==
  /\ known = ToSet(prevHosts)
  /\ pc = "report" /\ round # prevRound => lastFound = ToSet(seen)
  /\ round = prevRound => lastFound = known
  /\ pc \in {"input", "tick"} => prevRound = round

(* What DetailIsChosen needs from frame to frame: the host that was opened *)
(* stays at its index in the list of the scanner and in its copy, which    *)
(* are the same when the buttons are handled.                              *)
OpenedAt(hosts) == detailIndex < Len(hosts) /\ hosts[detailIndex + 1] = opened

DetailInv == /\ opened # None => OpenedAt(found) /\ OpenedAt(seen)
             /\ pc \in {"report", "input"} => seen = found

-----------------------------------------------------------------------------
(* Lemmas about the operators.                                             *)

LEMMA SizeOfNetwork == Cardinality(Hosts) \in Nat /\ Cardinality(Hosts) > 0
<1>1. Cardinality(Hosts) \in Nat /\ (Cardinality(Hosts) = 0 <=> Hosts = {})
  BY AppLoopAssumption, FS_CardinalityType, FS_EmptySet
<1> QED BY <1>1, AppLoopAssumption

(* L and R lead from a screen to a screen.                                 *)
LEMMA TurnType ==
  ASSUME NEW from \in ToSet(Screens), NEW by \in {-1, 1}
  PROVE  Turn(from, by) \in ToSet(Screens)
<1> DEFINE n == Len(Screens)
           i == CHOOSE j \in 1..n : Screens[j] = from
           k == ((i - 1 + n + by) % n) + 1
<1>1. n \in Nat /\ DOMAIN Screens = 1..n
  BY AppLoopAssumption, LenProperties
<1>2. i \in 1..n
  <2>1. \E j \in 1..n : Screens[j] = from
    BY <1>1 DEF ToSet
  <2> QED BY <2>1
<1>3. k \in 1..n
  <2> HIDE DEF i, n
  <2> QED BY <1>1, <1>2
<1>4. Screens[k] \in ToSet(Screens)
  <2> HIDE DEF k, n
  <2> QED BY <1>1, <1>3 DEF ToSet
<1> QED BY <1>4 DEF Turn

LEMMA NavigateType ==
  ASSUME screen \in ToSet(Screens), NEW pressed
  PROVE  Navigate(pressed) \in ToSet(Screens)
<1> DEFINE l == IF "L" \in pressed THEN Turn(screen, -1) ELSE screen
           r == IF "R" \in pressed THEN Turn(l, 1) ELSE l
<1>1. l \in ToSet(Screens)
  BY TurnType
<1>2. r \in ToSet(Screens)
  <2> HIDE DEF l
  <2> QED BY <1>1, TurnType
<1>3. {"SCAN", "EXPORTS"} \subseteq ToSet(Screens)
  BY AppLoopAssumption
<1> QED BY <1>2, <1>3 DEF Navigate, Square

(* A view shows some of the hosts seen.                                    *)
LEMMA ViewShows ==
  ASSUME TypeInv, NEW chosen \in Views
  PROVE  /\ chosen \in Seq(1..Cardinality(Hosts))
         /\ Len(chosen) \in 0..Len(seen)
         /\ \A i \in 1..Len(chosen) : chosen[i] \in 1..Len(seen)
<1>1. Len(seen) \in Nat /\ Len(seen) <= Cardinality(Hosts)
  BY DEF TypeInv, TypeOK, Bounded
<1>2. PICK k \in 0..Len(seen) : chosen \in [1..k -> 1..Len(seen)]
  BY DEF Views
<1>3. chosen \in Seq(1..Len(seen)) /\ Len(chosen) = k
  <2>1. k \in Nat
    BY <1>1, <1>2
  <2>2. chosen \in Seq(1..Len(seen))
    BY <1>2, <2>1, SeqDef
  <2>3. DOMAIN chosen = 1..k /\ DOMAIN chosen = 1..Len(chosen) /\ Len(chosen) \in Nat
    BY <1>2, <2>2, LenProperties
  <2> QED BY <2>1, <2>2, <2>3
<1>4. chosen \in Seq(1..Cardinality(Hosts))
  <2>1. 1..Len(seen) \subseteq 1..Cardinality(Hosts)
    BY <1>1, SizeOfNetwork
  <2>2. chosen \in [1..k -> 1..Cardinality(Hosts)]
    BY <1>2, <2>1
  <2>3. k \in Nat
    BY <1>1, <1>2
  <2> QED BY <2>2, <2>3, SeqDef
<1> QED BY <1>2, <1>3, <1>4

(* The cursor is on a row of the list.                                     *)
LEMMA SelectionInList ==
  ASSUME NEW pressed, selected \in Nat, NEW count \in Nat
  PROVE  /\ Selection(pressed, count) \in Nat
         /\ count > 0 => Selection(pressed, count) < count
         /\ count = 0 => Selection(pressed, count) = 0
  BY DEF Selection, Clamp

(* The window is within the list, and the cursor in the window.            *)
LEMMA WindowHoldsCursor ==
  ASSUME NEW pressed, scroll \in Nat, NEW count \in Nat, NEW sel \in Nat
  PROVE  /\ Scrolled(pressed, count, sel) \in 0..MaxScroll(count)
         /\ sel < count => /\ Scrolled(pressed, count, sel) <= sel
                           /\ sel < Scrolled(pressed, count, sel) + Rows
<1>1. Rows \in Nat /\ Rows > 0
  BY AppLoopAssumption
<1> DEFINE reset == IF pressed \intersect {"CIRCLE", "LEFT", "SELECT", "TRIANGLE"} # {}
                      THEN 0 ELSE scroll
           m == MaxScroll(count)
           first == Clamp(reset, 0, m)
           above == IF sel < first THEN sel ELSE first
           f == Following(sel, above)
<1>2. m \in Nat /\ count <= m + Rows
  BY <1>1 DEF MaxScroll
<1>3. first \in 0..m
  <2>1. reset \in Nat
    OBVIOUS
  <2> HIDE DEF reset, m
  <2> QED BY <1>2, <2>1 DEF Clamp
<1>4. above \in Nat /\ above <= sel
  <2> HIDE DEF first, m
  <2> QED BY <1>2, <1>3
<1>5. f \in Nat /\ f <= sel /\ sel < f + Rows
  <2> HIDE DEF above
  <2> QED BY <1>1, <1>4 DEF Following
<1>6. Scrolled(pressed, count, sel) = Clamp(f, 0, m)
  BY DEF Scrolled
<1> HIDE DEF f, m
<1>7. Clamp(f, 0, m) \in 0..m
  BY <1>2, <1>5 DEF Clamp
<1>8. sel < count => Clamp(f, 0, m) <= sel /\ sel < Clamp(f, 0, m) + Rows
  BY <1>1, <1>2, <1>5 DEF Clamp
<1> QED BY <1>6, <1>7, <1>8 DEF m

-----------------------------------------------------------------------------
(* Type correctness, one lemma per part of the frame.                      *)

LEMMA InitIsTyped ==
  ASSUME Init
  PROVE  TypeInv
<1>1. <<>> \in Seq(Hosts) /\ <<>> \in Seq(1..Cardinality(Hosts)) /\ Len(<<>>) = 0
  OBVIOUS
<1>2. "RADAR" \in ToSet(Screens)
  BY AppLoopAssumption DEF Idle
<1>3. 0 \in 0..(Cardinality(Hosts) - 1) /\ Cardinality(Hosts) \in Nat
  BY SizeOfNetwork
<1>4. running = FALSE /\ round = 0 /\ found = <<>>
  BY DEF Init, Rounds!Init
<1>5. running \in BOOLEAN /\ quit \in BOOLEAN /\ armed \in BOOLEAN
  BY <1>4 DEF Init
<1>6. Bounded
  BY <1>1, <1>3, <1>4, AppLoopAssumption DEF Init, Bounded
<1>7. TypeOK
  <2>1. /\ running \in BOOLEAN /\ round \in 0..(MaxRounds + 1)
        /\ {found, seen, prevHosts} \subseteq Seq(Hosts)
        /\ {scanError, prevError} \subseteq Errors \union {NoError}
        /\ {config, profile, scannerCfg} \subseteq 1..ProfileCount
    BY <1>1, <1>4, <1>5, AppLoopAssumption DEF Init
  <2>2. /\ pc \in {"tick", "report", "input", "ended"} /\ alerts = {}
        /\ prevRound \in 0..round
        /\ {screen, prevScreen} \subseteq ToSet(Screens)
        /\ view \in Seq(1..Cardinality(Hosts)) /\ setting \in 0..4
        /\ {selected, scroll, detailIndex} \subseteq 0..(Cardinality(Hosts) - 1)
        /\ lastFound \subseteq Hosts /\ known \subseteq Hosts
        /\ opened \in Hosts \union {None}
    BY <1>1, <1>2, <1>3, <1>4 DEF Init
  <2> QED BY <1>5, <2>1, <2>2 DEF TypeOK
<1> QED BY <1>6, <1>7 DEF TypeInv

LEMMA FindsKeepsType ==
  ASSUME TypeInv, ScannerFinds
  PROVE  TypeInv'
<1>1. PICK ip \in Hosts : Rounds!Discover(ip)
  BY DEF ScannerFinds
<1>2. UNCHANGED <<running, round, scanError, config, pc, quit, seen, alerts, prevRound,
                  prevHosts, prevError, screen, prevScreen, armed, view, selected, scroll,
                  detailIndex, setting, profile, scannerCfg, lastFound, known, opened>>
  BY <1>1 DEF ScannerFinds, Rounds!Discover, diff, list, settings, history
<1>3. found \in Seq(Hosts) /\ Len(found) < Cardinality(Hosts) /\ found' = Append(found, ip)
  BY <1>1 DEF Rounds!Discover, TypeInv, TypeOK
<1>4. found' \in Seq(Hosts) /\ Len(found') <= Cardinality(Hosts)
  BY <1>3, SizeOfNetwork
<1>5. Bounded'
  BY <1>2, <1>4 DEF TypeInv, Bounded
<1> QED BY <1>2, <1>4, <1>5 DEF TypeInv, TypeOK

LEMMA TickKeepsType ==
  ASSUME TypeInv, TickEnds
  PROVE  TypeInv'
<1>1. UNCHANGED <<config, quit, alerts, prevRound, prevHosts, prevError, screen, prevScreen,
                  armed, view, selected, scroll, detailIndex, setting, profile, scannerCfg,
                  known, opened>>
  BY DEF TickEnds, diff, list, settings
<1>2. found' = found /\ seen' = found /\ pc' = "report"
  BY DEF TickEnds, Rounds!Finish
<1>3. scanError' \in Errors \union {NoError}
  BY DEF TickEnds, TypeInv, TypeOK
<1>4. /\ running' \in BOOLEAN /\ round' \in round .. round + 1 /\ round' <= MaxRounds
      /\ running' => round' < MaxRounds
  <2>1. round \in Nat /\ round <= MaxRounds /\ MaxRounds \in Nat
    BY AppLoopAssumption DEF TypeInv, TypeOK, Bounded
  <2>2. CASE Rounds!Finish
    <3>1. running' = FALSE /\ round' = round + 1 /\ round < MaxRounds
      BY <2>2 DEF Rounds!Finish, TypeInv, Bounded
    <3>2. running' \in BOOLEAN
      BY <3>1
    <3> QED BY <2>1, <3>1, <3>2
  <2>3. CASE UNCHANGED <<running, round>>
    <3>1. running' \in BOOLEAN
      BY <2>3 DEF TypeInv, TypeOK
    <3> QED BY <2>1, <2>3, <3>1 DEF TypeInv, Bounded
  <2> QED BY <2>2, <2>3 DEF TickEnds
<1>5. lastFound' \subseteq Hosts
  BY DEF TickEnds, ToSet, TypeInv, TypeOK
<1>6. Bounded'
  BY <1>2, <1>4 DEF TypeInv, Bounded
<1>7. round' \in 0..(MaxRounds + 1) /\ prevRound' \in 0..round'
  BY <1>1, <1>4, AppLoopAssumption DEF TypeInv, TypeOK
<1> QED BY <1>1, <1>2, <1>3, <1>4, <1>5, <1>6, <1>7 DEF TypeInv, TypeOK

LEMMA ReportKeepsType ==
  ASSUME TypeInv, Report
  PROVE  TypeInv'
<1>1. UNCHANGED <<running, round, found, scanError, config, quit, seen, screen, prevScreen,
                  armed, view, selected, scroll, detailIndex, setting, profile, scannerCfg,
                  lastFound, opened>>
  BY DEF Report, scanner, list, settings
<1>2. ToSet(seen) \subseteq Hosts /\ ToSet(prevHosts) \subseteq Hosts
  BY DEF ToSet, TypeInv, TypeOK
<1>3. alerts' \subseteq ({"joined", "left"} \X Hosts) \union ({"error"} \X Errors)
  <2>1. RoundAlerts \subseteq {"joined", "left"} \X Hosts
    BY <1>2 DEF RoundAlerts, Joined, Left
  <2>2. ErrorAlerts \subseteq {"error"} \X Errors
    BY DEF ErrorAlerts, TypeInv, TypeOK
  <2> QED BY <2>1, <2>2 DEF Report
<1>4. prevRound' \in 0..round /\ prevHosts' \in Seq(Hosts)
      /\ prevError' \in Errors \union {NoError}
  BY DEF Report, TypeInv, TypeOK, Bounded
<1>5. known' \subseteq Hosts /\ pc' = "input"
  BY DEF Report, TypeInv, TypeOK
<1> QED BY <1>1, <1>3, <1>4, <1>5 DEF TypeInv, TypeOK, Bounded

(* What driving the scanner does: it runs within the rounds allowed, and   *)
(* its list is the old one or, if a round begins, empty.                   *)
LEMMA DriveType ==
  ASSUME TypeInv, NEW pressed, DriveScanner(pressed)
  PROVE  /\ running' \in BOOLEAN /\ armed' \in BOOLEAN /\ round' = round
         /\ running' => round < MaxRounds
         /\ running' => running \/ Starts
         /\ found' \in {found, <<>>} /\ (~Begins(pressed) => found' = found)
         /\ scanError' \in Errors \union {NoError} /\ config' \in 1..ProfileCount
         /\ config' = IF Starts THEN scannerCfg ELSE config
<1>1. running \in BOOLEAN /\ armed \in BOOLEAN
  BY DEF TypeInv, TypeOK
<1>2. running' \in BOOLEAN /\ armed' \in BOOLEAN
  BY <1>1 DEF DriveScanner, Runs, Starts
<1>3. running' => running \/ Starts
  BY DEF DriveScanner, Runs
<1>4. running' => round < MaxRounds
  BY <1>3 DEF DriveScanner, Begins, TypeInv, Bounded
<1>5. round' = round /\ found' \in {found, <<>>} /\ (~Begins(pressed) => found' = found)
  BY DEF DriveScanner
<1>6. scanError' \in Errors \union {NoError} /\ config' \in 1..ProfileCount
      /\ config' = IF Starts THEN scannerCfg ELSE config
  BY DEF DriveScanner, TypeInv, TypeOK
<1> QED BY <1>2, <1>3, <1>4, <1>5, <1>6

(* The SCAN screen: a view, a cursor and a window on it; CROSS opens the   *)
(* host under the cursor, unless a round begins in this frame.             *)
LEMMA ScanType ==
  ASSUME TypeInv, NEW pressed, OnScan(pressed)
  PROVE  /\ view' \in Seq(1..Cardinality(Hosts))
         /\ selected' \in 0..(Cardinality(Hosts) - 1)
         /\ scroll' \in 0..(Cardinality(Hosts) - 1)
         /\ detailIndex' \in 0..(Cardinality(Hosts) - 1)
         /\ opened' \in Hosts \union {None}
         /\ screen' \in {"SCAN", "DETAIL"}
         /\ view' # <<>> => /\ selected' < Len(view')
                            /\ scroll' <= selected' /\ selected' < scroll' + Rows
                            /\ scroll' > 0 => scroll' + Rows <= Len(view')
         /\ opened' # None => ~Begins(pressed)
         /\ opened' # None => \/ UNCHANGED <<opened, detailIndex>>
                              \/ /\ detailIndex' < Len(seen)
                                 /\ opened' = seen[detailIndex' + 1]
<1>1. PICK chosen \in Views :
        /\ view' = chosen
        /\ selected' = Selection(pressed, Len(chosen))
        /\ scroll' = Scrolled(pressed, Len(chosen), selected')
        /\ \/ /\ "CROSS" \in pressed /\ chosen # <<>>
              /\ detailIndex' = HostAt(chosen, selected')
              /\ screen' = "DETAIL"
              /\ opened' = IF Begins(pressed) THEN None ELSE seen[chosen[selected' + 1]]
           \/ /\ ~("CROSS" \in pressed /\ chosen # <<>>)
              /\ screen' = "SCAN"
              /\ opened' = IF Begins(pressed) THEN None ELSE opened
              /\ UNCHANGED detailIndex
  BY DEF OnScan
<1>2. PICK n \in Nat : n = Len(chosen) /\ n <= Len(seen)
  <2>1. Len(seen) \in Nat
    BY DEF TypeInv, TypeOK
  <2> QED BY <2>1, ViewShows
<1>3. PICK size \in Nat : size = Cardinality(Hosts)
  BY SizeOfNetwork
<1>4. /\ seen \in Seq(Hosts) /\ Len(seen) \in Nat /\ Len(seen) <= size
      /\ selected \in Nat /\ scroll \in Nat
      /\ detailIndex \in 0..(size - 1) /\ opened \in Hosts \union {None}
  BY <1>3 DEF TypeInv, TypeOK, Bounded
<1>5. size \in Nat /\ size > 0 /\ n \in Nat /\ n <= size
  BY <1>2, <1>3, <1>4, SizeOfNetwork
<1> DEFINE Placed(sel, top) == /\ sel = Selection(pressed, n)
                               /\ top = Scrolled(pressed, n, sel)
<1>6. PICK sel \in Nat, top \in Nat :
        /\ Placed(sel, top)
        /\ n > 0 => sel < n
        /\ n = 0 => sel = 0
        /\ top \in 0..MaxScroll(n)
        /\ sel < n => top <= sel /\ sel < top + Rows
  <2>1. PICK sel \in Nat : sel = Selection(pressed, n) /\ (n > 0 => sel < n) /\ (n = 0 => sel = 0)
    BY <1>4, <1>5, SelectionInList
  <2>2. PICK top \in 0..MaxScroll(n) :
               /\ top = Scrolled(pressed, n, sel)
               /\ sel < n => top <= sel /\ sel < top + Rows
    BY <1>4, <1>5, <2>1, WindowHoldsCursor
  <2>3. MaxScroll(n) \in Nat
    BY <1>5, AppLoopAssumption DEF MaxScroll
  <2>4. top \in Nat
    BY <2>2, <2>3
  <2> QED BY <2>1, <2>2, <2>4
<1> HIDE DEF Placed
<1>7. /\ MaxScroll(n) \in 0..(size - 1)
      /\ top > 0 => top + Rows <= n
  BY <1>5, <1>6, AppLoopAssumption DEF MaxScroll
<1>8. chosen # <<>> => n > 0
  BY <1>2, ViewShows
<1>9. /\ view' = chosen /\ selected' = sel /\ scroll' = top
       /\ view' \in Seq(1..size)
       /\ selected' \in 0..(size - 1) /\ scroll' \in 0..(size - 1)
  <2>1. sel \in 0..(size - 1) /\ top \in 0..(size - 1)
    BY <1>5, <1>6, <1>7
  <2>2. view' = chosen /\ selected' = sel /\ scroll' = top
    BY <1>1, <1>2, <1>6 DEF Placed
  <2> QED BY <1>3, <2>1, <2>2, ViewShows
<1>10. view' # <<>> => /\ selected' < Len(view')
                       /\ scroll' <= selected' /\ selected' < scroll' + Rows
                       /\ scroll' > 0 => scroll' + Rows <= Len(view')
  <2>1. n > 0 => sel < n /\ top <= sel /\ sel < top + Rows /\ (top > 0 => top + Rows <= n)
    BY <1>6, <1>7
  <2> QED BY <1>2, <1>8, <1>9, <2>1
<1>11. screen' \in {"SCAN", "DETAIL"}
  BY <1>1
<1>12. CASE "CROSS" \in pressed /\ chosen # <<>>
  <2>1. chosen[selected' + 1] \in 1..Len(seen)
    <3>1. sel + 1 \in 1..n
      BY <1>6, <1>8, <1>12
    <3>2. \A i \in 1..n : chosen[i] \in 1..Len(seen)
      BY <1>2, ViewShows
    <3> QED BY <1>9, <3>1, <3>2
  <2>2. detailIndex' \in 0..(Len(seen) - 1) /\ detailIndex' + 1 = chosen[selected' + 1]
    BY <1>1, <1>4, <1>12, <2>1 DEF HostAt
  <2>3. seen[chosen[selected' + 1]] \in Hosts
    BY <1>4, <2>1, ElementOfSeq
  <2>4. detailIndex' \in 0..(size - 1) /\ opened' \in Hosts \union {None}
    BY <1>1, <1>4, <1>12, <2>2, <2>3
  <2>5. opened' # None => ~Begins(pressed) /\ opened' = seen[detailIndex' + 1]
    BY <1>1, <1>12, <2>2
  <2>6. detailIndex' < Len(seen)
    BY <1>4, <2>2
  <2> QED BY <1>3, <1>9, <1>10, <1>11, <2>4, <2>5, <2>6
<1>13. CASE ~("CROSS" \in pressed /\ chosen # <<>>)
  <2>1. detailIndex' = detailIndex /\ opened' = IF Begins(pressed) THEN None ELSE opened
    BY <1>1, <1>13
  <2> QED BY <1>3, <1>4, <1>9, <1>10, <1>11, <2>1
<1> QED BY <1>12, <1>13

(* The handlers of the other screens write to few variables.               *)
LEMMA SettingsType ==
  ASSUME TypeInv, NEW pressed, OnSettings(pressed)
  PROVE  /\ setting' \in 0..4 /\ {profile', scannerCfg'} \subseteq 1..ProfileCount
         /\ found' \in {found, <<>>} /\ scanError' \in Errors \union {NoError}
         /\ opened' \in {opened, None} /\ (opened' # None => found' = found)
        
         /\ screen' \in {"SETTINGS", "EXPORTS"}
         /\ UNCHANGED <<running, round, config, armed, view, selected, scroll, detailIndex>>
<1>1. setting' \in 0..4
  BY DEF OnSettings, SettingAfter, Clamp, TypeInv, TypeOK
<1>2. ProfileCount \in Nat /\ ProfileCount > 0 /\ profile \in 1..ProfileCount
      /\ scannerCfg \in 1..ProfileCount
  BY AppLoopAssumption DEF TypeInv, TypeOK
<1>3. NextProfile \in 1..ProfileCount
  BY <1>2 DEF NextProfile
<1>4. profile' \in 1..ProfileCount
  BY <1>2, <1>3 DEF OnSettings
<1>5. CASE "CROSS" \in pressed /\ setting' = 2
  <2>1. ApplyProfile
    BY <1>5 DEF OnSettings
  <2>2. CASE running
    <3>1. found' = <<>> /\ scanError' = NoError /\ opened' = None
      BY <2>1, <2>2 DEF ApplyProfile
    <3> QED BY <1>1, <1>2, <1>4, <2>1, <3>1 DEF OnSettings, ApplyProfile, list
  <2>3. CASE ~running
    BY <1>1, <1>2, <1>4, <2>1, <2>3 DEF OnSettings, ApplyProfile, list, TypeInv, TypeOK
  <2> QED BY <2>2, <2>3
<1>6. CASE ~("CROSS" \in pressed /\ setting' = 2)
  <2>1. UNCHANGED <<scannerCfg, found, scanError, opened>>
    BY <1>6 DEF OnSettings
  <2> QED BY <1>1, <1>2, <1>4, <2>1 DEF OnSettings, list, TypeInv, TypeOK
<1> QED BY <1>5, <1>6

LEMMA InputKeepsType ==
  ASSUME TypeInv, Input
  PROVE  TypeInv'
<1>1. PICK pressed \in Presses :
        LET at == Navigate(pressed)
        IN /\ \/ at = "SCAN" /\ OnScan(pressed)
              \/ at = "SETTINGS" /\ OnSettings(pressed)
              \/ at = "DETAIL" /\ OnDetail(pressed)
              \/ at \in Idle /\ OnIdle(at)
              \/ at \in OtherScreens /\ OnOther(at)
           /\ prevScreen' = at
           /\ quit' = ("START" \in pressed)
  BY DEF Input
<1> DEFINE at == Navigate(pressed)
<1>2. at \in ToSet(Screens) /\ {"SCAN", "DETAIL", "SETTINGS", "EXPORTS"} \subseteq ToSet(Screens)
  BY NavigateType, AppLoopAssumption DEF TypeInv, TypeOK
<1> HIDE DEF at
<1>3. quit' \in BOOLEAN /\ prevScreen' = at
  BY <1>1 DEF at
<1>4. /\ UNCHANGED <<seen, prevRound, prevHosts, prevError, lastFound, known>>
      /\ pc' = "tick" /\ alerts' = {}
  BY DEF Input, diff
<1>5. /\ seen \in Seq(Hosts) /\ prevHosts \in Seq(Hosts) /\ found \in Seq(Hosts)
      /\ <<>> \in Seq(Hosts) /\ Len(<<>>) = 0 /\ Cardinality(Hosts) \in Nat
      /\ Len(found) <= Cardinality(Hosts) /\ Len(seen) <= Cardinality(Hosts)
  BY SizeOfNetwork DEF TypeInv, TypeOK, Bounded
<1>6. /\ running' \in BOOLEAN /\ armed' \in BOOLEAN
      /\ round' = round /\ (running' => round < MaxRounds)
      /\ found' \in {found, <<>>} /\ scanError' \in Errors \union {NoError}
      /\ {config', profile', scannerCfg'} \subseteq 1..ProfileCount
      /\ screen' \in ToSet(Screens)
      /\ view' \in Seq(1..Cardinality(Hosts)) /\ setting' \in 0..4
      /\ {selected', scroll', detailIndex'} \subseteq 0..(Cardinality(Hosts) - 1)
      /\ opened' \in Hosts \union {None}
  <2>0. /\ running \in BOOLEAN /\ armed \in BOOLEAN
        /\ running => round < MaxRounds
    BY DEF TypeInv, TypeOK, Bounded
  <2>1. CASE at = "SCAN" /\ OnScan(pressed)
    <3>1. DriveScanner(pressed) /\ UNCHANGED <<setting, profile, scannerCfg>>
      BY <2>1 DEF OnScan, settings
    <3>2. /\ running' \in BOOLEAN /\ armed' \in BOOLEAN
          /\ round' = round /\ (running' => round < MaxRounds)
          /\ found' \in {found, <<>>} /\ scanError' \in Errors \union {NoError}
          /\ config' \in 1..ProfileCount
      BY <3>1, DriveType
    <3>3. /\ view' \in Seq(1..Cardinality(Hosts))
          /\ selected' \in 0..(Cardinality(Hosts) - 1)
          /\ scroll' \in 0..(Cardinality(Hosts) - 1)
          /\ detailIndex' \in 0..(Cardinality(Hosts) - 1)
          /\ opened' \in Hosts \union {None}
          /\ screen' \in {"SCAN", "DETAIL"}
      BY <2>1, ScanType
    <3>4. {profile', scannerCfg'} \subseteq 1..ProfileCount /\ setting' \in 0..4
      BY <3>1 DEF TypeInv, TypeOK
    <3> QED BY <1>2, <3>2, <3>3, <3>4
  <2>2. CASE at = "SETTINGS" /\ OnSettings(pressed)
    <3>1. /\ setting' \in 0..4 /\ {profile', scannerCfg'} \subseteq 1..ProfileCount
          /\ found' \in {found, <<>>} /\ scanError' \in Errors \union {NoError}
          /\ opened' \in {opened, None}
          /\ screen' \in {"SETTINGS", "EXPORTS"}
          /\ UNCHANGED <<running, round, config, armed, view, selected, scroll, detailIndex>>
      BY <2>2, SettingsType
    <3>2. /\ opened \in Hosts \union {None} /\ config \in 1..ProfileCount
          /\ view \in Seq(1..Cardinality(Hosts))
          /\ {selected, scroll, detailIndex} \subseteq 0..(Cardinality(Hosts) - 1)
      BY DEF TypeInv, TypeOK
    <3>3. running' \in BOOLEAN /\ armed' \in BOOLEAN /\ (running' => round < MaxRounds)
      BY <2>0, <3>1
    <3> QED BY <1>2, <3>1, <3>2, <3>3
  <2>3. CASE \/ at = "DETAIL" /\ OnDetail(pressed)
             \/ at \in Idle /\ OnIdle(at)
             \/ at \in OtherScreens /\ OnOther(at)
    <3>1. /\ UNCHANGED <<found, round, scanError, config, armed, view, selected, scroll,
                         detailIndex, setting, profile, scannerCfg, opened>>
          /\ screen' \in {at, "SCAN"}
      BY <2>3 DEF OnDetail, OnIdle, OnOther, Rounds!Stop, scanner, list, settings
    <3>2. running' \in BOOLEAN /\ (running' => running)
      <4>1. running' = running \/ running' = FALSE
        BY <2>3 DEF OnDetail, OnIdle, OnOther, Rounds!Stop, scanner
      <4>2. CASE running' = running
        BY <2>0, <4>2
      <4>3. CASE running' = FALSE
        BY <4>3
      <4> QED BY <4>1, <4>2, <4>3
    <3>3. armed' \in BOOLEAN
      BY <2>0, <3>1
    <3>4. /\ opened \in Hosts \union {None} /\ config \in 1..ProfileCount
          /\ {profile, scannerCfg} \subseteq 1..ProfileCount /\ setting \in 0..4
          /\ scanError \in Errors \union {NoError}
          /\ view \in Seq(1..Cardinality(Hosts))
          /\ {selected, scroll, detailIndex} \subseteq 0..(Cardinality(Hosts) - 1)
      BY DEF TypeInv, TypeOK
    <3> QED BY <1>2, <2>0, <3>1, <3>2, <3>3, <3>4
  <2> QED BY <1>1, <2>1, <2>2, <2>3 DEF at
<1>7. Bounded'
  BY <1>4, <1>5, <1>6 DEF TypeInv, Bounded
<1>8. {found', seen', prevHosts'} \subseteq Seq(Hosts)
  BY <1>4, <1>5, <1>6
<1>9. /\ round' \in 0..(MaxRounds + 1) /\ prevRound' \in 0..round'
      /\ prevError' \in Errors \union {NoError}
      /\ lastFound' \subseteq Hosts /\ known' \subseteq Hosts
  BY <1>4, <1>6 DEF TypeInv, TypeOK
<1> QED BY <1>2, <1>3, <1>4, <1>6, <1>7, <1>8, <1>9 DEF TypeInv, TypeOK

LEMMA StepKeepsType == TypeInv /\ [Next]_vars => TypeInv'
<1> SUFFICES ASSUME TypeInv, [Next]_vars PROVE TypeInv'
  OBVIOUS
<1>1. CASE Shutdown
  <2>1. running' \in BOOLEAN /\ running' = FALSE /\ pc' = "ended"
    BY <1>1 DEF Shutdown
  <2>2. UNCHANGED <<round, found, scanError, config, quit, seen, alerts, prevRound, prevHosts,
                    prevError, screen, prevScreen, armed, view, selected, scroll, detailIndex,
                    setting, profile, scannerCfg, lastFound, known, opened>>
    BY <1>1 DEF Shutdown, diff, list, settings, history
  <2> QED BY <2>1, <2>2 DEF TypeInv, TypeOK, Bounded
<1>2. CASE UNCHANGED vars
  BY <1>2 DEF vars, scanner, diff, list, settings, history, TypeInv, TypeOK, Bounded
<1> QED BY <1>1, <1>2, FindsKeepsType, TickKeepsType, ReportKeepsType, InputKeepsType DEF Next

(***************************************************************************)
(* Type correctness: no index of a list leaves the hosts there can be, and *)
(* no round runs beyond the ones allowed to begin.                         *)
(***************************************************************************)
THEOREM TypeCorrect == Spec => []TypeOK
<1>1. Init => TypeInv
  BY InitIsTyped
<1>2. TypeInv => TypeOK
  BY DEF TypeInv
<1> QED BY <1>1, <1>2, StepKeepsType, PTL DEF Spec

LEMMA TypeInvariant == Spec => []TypeInv
<1>1. Init => TypeInv
  BY InitIsTyped
<1> QED BY <1>1, StepKeepsType, PTL DEF Spec

-----------------------------------------------------------------------------
(* One frame's buttons, by the screen that handles them.                   *)
Handles(at, pressed) ==
  \/ at = "SCAN" /\ OnScan(pressed)
  \/ at = "SETTINGS" /\ OnSettings(pressed)
  \/ at = "DETAIL" /\ OnDetail(pressed)
  \/ at \in Idle /\ OnIdle(at)
  \/ at \in OtherScreens /\ OnOther(at)

LEMMA InputHandles ==
  ASSUME Input
  PROVE  \E at, pressed : Handles(at, pressed) /\ prevScreen' = at
  BY DEF Input, Handles

(* Where a frame can leave a screen that is not SCAN.                      *)
LEMMA ScreenAfter ==
  ASSUME TypeInv, NEW at, NEW pressed, Handles(at, pressed)
  PROVE  /\ screen' = "SCAN" => at \in {"SCAN", "DETAIL"}
         /\ at = "SCAN" => OnScan(pressed)
         /\ screen' \in Idle => OnIdle(at)
<1>1. CASE at = "SCAN" /\ OnScan(pressed)
  BY <1>1, ScanType DEF Idle
<1>2. CASE at = "SETTINGS" /\ OnSettings(pressed)
  BY <1>2, SettingsType DEF Idle
<1>3. CASE at = "DETAIL" /\ OnDetail(pressed)
  BY <1>3 DEF OnDetail, Idle
<1>4. CASE at \in Idle /\ OnIdle(at)
  BY <1>4 DEF OnIdle, Idle
<1>5. CASE at \in OtherScreens /\ OnOther(at)
  BY <1>5 DEF OnOther, OtherScreens, Idle
<1> QED BY <1>1, <1>2, <1>3, <1>4, <1>5 DEF Handles

(***************************************************************************)
(* The scanner does not run behind the RADAR and STATS screens, by         *)
(* whatever buttons they were reached.                                     *)
(***************************************************************************)
THEOREM RadarIsQuiet == Spec => []NoScanBehindRadar
<1>1. Init => NoScanBehindRadar
  BY DEF Init, Rounds!Init, NoScanBehindRadar
<1>2. TypeInv /\ NoScanBehindRadar /\ [Next]_vars => NoScanBehindRadar'
  <2> SUFFICES ASSUME TypeInv, NoScanBehindRadar, [Next]_vars PROVE NoScanBehindRadar'
    OBVIOUS
  <2>1. CASE Input
    <3>1. PICK at, pressed : Handles(at, pressed)
      BY <2>1, InputHandles
    <3>2. screen' \in Idle => OnIdle(at) /\ at \in Idle
      BY <3>1, ScreenAfter DEF OnIdle
    <3>3. screen' \in Idle => ~running'
      BY <3>2 DEF OnIdle, StopsOn, Rounds!Stop
    <3> QED BY <3>3 DEF NoScanBehindRadar
  <2>2. CASE ScannerFinds
    BY <2>2 DEF ScannerFinds, Rounds!Discover, NoScanBehindRadar, Drawn
  <2>3. CASE TickEnds \/ Report \/ Shutdown
    BY <2>3 DEF TickEnds, Report, Shutdown, NoScanBehindRadar, Drawn
  <2>4. CASE UNCHANGED vars
    BY <2>4 DEF vars, scanner, NoScanBehindRadar, Drawn
  <2> QED BY <2>1, <2>2, <2>3, <2>4 DEF Next
<1> QED BY <1>1, <1>2, TypeInvariant, PTL DEF Spec

(***************************************************************************)
(* The cursor is on a row that is drawn after every frame handled by the   *)
(* SCAN screen, whatever the list was in the frame before.                 *)
(***************************************************************************)
THEOREM CursorIsDrawn == Spec => []SelectionVisible
<1>1. Init => SelectionVisible
  BY DEF Init, SelectionVisible
<1>2. TypeInv /\ SelectionVisible /\ [Next]_vars => SelectionVisible'
  <2> SUFFICES ASSUME TypeInv, SelectionVisible, [Next]_vars PROVE SelectionVisible'
    OBVIOUS
  <2>1. CASE Input
    <3>1. PICK at, pressed : Handles(at, pressed) /\ prevScreen' = at
      BY <2>1, InputHandles
    <3>2. prevScreen' = "SCAN" => OnScan(pressed)
      BY <3>1, ScreenAfter
    <3> QED BY <3>2, ScanType DEF SelectionVisible
  <2>2. CASE ScannerFinds \/ UNCHANGED vars
    <3>1. UNCHANGED <<pc, screen, prevScreen, view, selected, scroll>>
      BY <2>2 DEF ScannerFinds, vars, list
    <3> QED BY <3>1 DEF SelectionVisible, Drawn
  <2>3. CASE TickEnds \/ Report \/ Shutdown
    BY <2>3 DEF TickEnds, Report, Shutdown, SelectionVisible, Drawn
  <2> QED BY <2>1, <2>2, <2>3 DEF Next
<1> QED BY <1>1, <1>2, TypeInvariant, PTL DEF Spec

-----------------------------------------------------------------------------
(* A report turns what a reader knows into the hosts of the metrics: the   *)
(* ones that joined are added, the ones that left are removed, and an      *)
(* error is neither.                                                       *)
LEMMA ReportTells ==
  ASSUME TypeInv, AlertsInv, Report
  PROVE  /\ known' = ToSet(prevHosts') /\ prevRound' = round
         /\ known' = lastFound
<1>1. ToSet(seen) \subseteq Hosts /\ ToSet(prevHosts) \subseteq Hosts
  BY DEF ToSet, TypeInv, TypeOK
<1>2. \A e \in ErrorAlerts : e[1] = "error"
  BY DEF ErrorAlerts
<1>3. CASE RoundEnded
  <2>1. alerts' = RoundAlerts \union ErrorAlerts /\ prevRound' = round /\ prevHosts' = seen
    BY <1>3 DEF Report
  <2>2. \A h \in Hosts : /\ <<"joined", h>> \in alerts' <=> h \in Joined
                         /\ <<"left", h>> \in alerts' <=> h \in Left
    BY <1>2, <2>1 DEF RoundAlerts
  <2>3. known' = (known \union Joined) \ Left
    BY <1>1, <2>2 DEF Report, Joined, Left
  <2>4. known' = ToSet(seen)
    BY <1>1, <2>3 DEF AlertsInv, Joined, Left
  <2>5. lastFound = ToSet(seen)
    BY <1>3 DEF AlertsInv, Report, RoundEnded
  <2> QED BY <2>1, <2>4, <2>5
<1>4. CASE ~RoundEnded
  <2>1. alerts' = ErrorAlerts /\ UNCHANGED <<prevRound, prevHosts>>
    BY <1>4 DEF Report
  <2>2. \A h \in Hosts : <<"joined", h>> \notin alerts' /\ <<"left", h>> \notin alerts'
    BY <1>2, <2>1
  <2>3. known' = known
    BY <2>2 DEF Report
  <2>4. prevRound = round
    BY <1>4 DEF RoundEnded
  <2> QED BY <2>1, <2>3, <2>4 DEF AlertsInv
<1> QED BY <1>3, <1>4

LEMMA StepKeepsAlerts == TypeInv /\ AlertsInv /\ [Next]_vars => AlertsInv'
<1> SUFFICES ASSUME TypeInv, AlertsInv, [Next]_vars PROVE AlertsInv'
  OBVIOUS
<1>1. CASE TickEnds
  <2>1. UNCHANGED <<prevRound, prevHosts, known>> /\ pc' = "report" /\ prevRound = round
    BY <1>1 DEF TickEnds, diff, AlertsInv
  <2>2. CASE Rounds!Finish /\ lastFound' = ToSet(found)
    <3>1. round' = round + 1 /\ seen' = found /\ round \in Nat
      BY <1>1, <2>2 DEF Rounds!Finish, TickEnds, TypeInv, TypeOK
    <3>2. lastFound' = ToSet(seen')
      BY <2>2, <3>1
    <3>3. round' # prevRound'
      BY <2>1, <3>1
    <3> QED BY <2>1, <3>2, <3>3 DEF AlertsInv
  <2>3. CASE UNCHANGED <<round, lastFound>>
    BY <2>1, <2>3 DEF AlertsInv
  <2> QED BY <1>1, <2>2, <2>3 DEF TickEnds
<1>2. CASE Report
  <2>1. known' = ToSet(prevHosts') /\ prevRound' = round /\ known' = lastFound
    BY <1>2, ReportTells
  <2>2. pc' = "input" /\ round' = round /\ lastFound' = lastFound
    BY <1>2 DEF Report, scanner
  <2> QED BY <2>1, <2>2 DEF AlertsInv
<1>3. CASE Input
  <2>1. UNCHANGED <<prevRound, prevHosts, known, lastFound>> /\ pc' = "tick" /\ pc = "input"
    BY <1>3 DEF Input, diff
  <2>2. round' = round
    <3>1. PICK at, pressed : Handles(at, pressed)
      BY <1>3, InputHandles
    <3> QED BY <3>1, DriveType, SettingsType
            DEF Handles, OnScan, OnDetail, OnIdle, OnOther, Rounds!Stop, scanner
  <2> QED BY <2>1, <2>2 DEF AlertsInv
<1>4. CASE ScannerFinds \/ UNCHANGED vars
  <2>1. UNCHANGED <<round, prevRound, prevHosts, known, lastFound, pc, seen>>
    BY <1>4 DEF ScannerFinds, Rounds!Discover, vars, scanner, diff, history
  <2> QED BY <2>1 DEF AlertsInv
<1>5. CASE Shutdown
  <2>1. UNCHANGED <<round, prevRound, prevHosts, known, lastFound>> /\ pc' = "ended"
    BY <1>5 DEF Shutdown, diff, history
  <2> QED BY <2>1 DEF AlertsInv
<1> QED BY <1>1, <1>2, <1>3, <1>4, <1>5 DEF Next

(***************************************************************************)
(* Whoever applies every "Host joined" and "Host left" has the hosts of    *)
(* the last round that ran to its end.                                     *)
(***************************************************************************)
THEOREM AlertsAddUp == Spec => []AlertsTellTheNetwork
<1>1. Init => AlertsInv
  BY DEF Init, Rounds!Init, AlertsInv, ToSet
<1>2. AlertsInv => AlertsTellTheNetwork
  BY DEF AlertsInv, AlertsTellTheNetwork
<1> QED BY <1>1, <1>2, StepKeepsAlerts, TypeInvariant, PTL DEF Spec

-----------------------------------------------------------------------------
LEMMA StepKeepsDetail == TypeInv /\ DetailInv /\ [Next]_vars => DetailInv'
<1> SUFFICES ASSUME TypeInv, DetailInv, [Next]_vars PROVE DetailInv'
  OBVIOUS
<1>1. CASE ScannerFinds
  <2>1. PICK ip \in Hosts : Rounds!Discover(ip)
    BY <1>1 DEF ScannerFinds
  <2>2. UNCHANGED <<seen, detailIndex, opened>> /\ pc' = "tick"
    BY <1>1 DEF ScannerFinds, list, history
  <2>3. /\ found \in Seq(Hosts) /\ found' = Append(found, ip)
        /\ Len(found) \in Nat /\ detailIndex \in Nat
    BY <2>1 DEF Rounds!Discover, TypeInv, TypeOK
  <2>4. OpenedAt(found) => detailIndex + 1 \in 1..Len(found)
    BY <2>3 DEF OpenedAt
  <2>5. Len(found') = Len(found) + 1 /\ \A i \in 1..Len(found) : found'[i] = found[i]
    BY <2>3
  <2>6. opened' # None => detailIndex' < Len(found') /\ found'[detailIndex' + 1] = opened'
    BY <2>2, <2>3, <2>4, <2>5 DEF DetailInv, OpenedAt
  <2>7. opened' # None => detailIndex' < Len(seen') /\ seen'[detailIndex' + 1] = opened'
    BY <2>2 DEF DetailInv, OpenedAt
  <2> QED BY <2>2, <2>6, <2>7 DEF DetailInv, OpenedAt
<1>2. CASE TickEnds
  <2>1. seen' = found /\ found' = found /\ UNCHANGED <<detailIndex, opened>>
    BY <1>2 DEF TickEnds, Rounds!Finish, list
  <2> QED BY <2>1 DEF DetailInv, OpenedAt
<1>3. CASE Report
  <2>1. UNCHANGED <<found, seen, detailIndex, opened>> /\ pc = "report"
    BY <1>3 DEF Report, scanner, list
  <2> QED BY <2>1 DEF DetailInv, OpenedAt
<1>4. CASE Input
  <2>1. seen' = seen /\ seen = found /\ pc' = "tick"
    BY <1>4 DEF Input, DetailInv
  <2>2. PICK at, pressed : Handles(at, pressed)
    BY <1>4, InputHandles
  <2>3. opened' # None => /\ found' = found
                          /\ \/ UNCHANGED <<opened, detailIndex>>
                             \/ detailIndex' < Len(seen) /\ opened' = seen[detailIndex' + 1]
    <3>1. CASE OnScan(pressed)
      <4>1. opened' # None => ~Begins(pressed)
        BY <3>1, ScanType
      <4>2. ~Begins(pressed) => found' = found
        BY <3>1, DriveType DEF OnScan
      <4> QED BY <3>1, <4>1, <4>2, ScanType
    <3>2. CASE OnSettings(pressed)
      BY <3>2, SettingsType
    <3>3. CASE OnDetail(pressed) \/ OnIdle(at) \/ OnOther(at)
      BY <3>3 DEF OnDetail, OnIdle, OnOther, Rounds!Stop, scanner, list
    <3> QED BY <2>2, <3>1, <3>2, <3>3 DEF Handles
  <2>4. opened' # None => detailIndex' < Len(seen) /\ opened' = seen[detailIndex' + 1]
    BY <2>3 DEF DetailInv, OpenedAt
  <2> QED BY <2>1, <2>3, <2>4 DEF DetailInv, OpenedAt
<1>5. CASE Shutdown \/ UNCHANGED vars
  <2>1. UNCHANGED <<found, seen, detailIndex, opened>> /\ pc' \in {pc, "ended"}
    BY <1>5 DEF Shutdown, vars, scanner, list, history
  <2> QED BY <2>1 DEF DetailInv, OpenedAt
<1> QED BY <1>1, <1>2, <1>3, <1>4, <1>5 DEF Next

(***************************************************************************)
(* DETAIL shows the host that was opened, until a new round begins: the    *)
(* index kept by the screen denotes it in every later copy of the metrics. *)
(* What the index denotes once a round has begun is not said.              *)
(***************************************************************************)
THEOREM DetailShowsOpened == Spec => []DetailIsChosen
<1>1. Init => DetailInv
  BY DEF Init, DetailInv
<1>2. DetailInv => DetailIsChosen
  BY DEF DetailInv, OpenedAt, DetailIsChosen
<1> QED BY <1>1, <1>2, StepKeepsDetail, TypeInvariant, PTL DEF Spec
=============================================================================
