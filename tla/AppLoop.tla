------------------------------- MODULE AppLoop ------------------------------
(***************************************************************************)
(* The main loop (main.c): once per frame it ticks the scanner, copies its *)
(* metrics, reports the round that just ended as alerts, and handles the   *)
(* buttons pressed on the current screen; then the frame is drawn.  Here   *)
(* the scanner is its abstract specification, ScanRounds, which LanScanner *)
(* implements; this module says how the loop drives it and what the        *)
(* screens keep of it.                                                     *)
(*                                                                         *)
(* A frame is a tick (pc = "tick": some hosts are found, the round may     *)
(* end), a report (pc = "report") and the buttons (pc = "input"); a state  *)
(* with pc = "tick" is one in which the last frame has been drawn.         *)
(*                                                                         *)
(* Abstractions.  A host is its address.  The filter and the sort order    *)
(* make the view an arbitrary arrangement of some of the hosts, since they *)
(* read fields that change while a round runs.  The screens of the         *)
(* Bluetooth, NFC and access point monitors and of the exports change      *)
(* nothing modelled here; they are OtherScreens.  Alerts are the ones this *)
(* frame pushed; where they are kept is AlertRing.                         *)
(***************************************************************************)
EXTENDS Integers, Sequences, FiniteSets, SequencesExt

CONSTANTS Hosts,      \* addresses a round can find
          Errors,     \* values of last_error that are reported: 0 and -60 are not
          NoError,
          None,       \* no host
          ProfileCount, \* scan profiles; the first is the default
          Screens,    \* the order of L and R: a sequence
          Rows,       \* rows_visible (8)
          Buttons,    \* bound: the buttons the user has
          MaxPressed, \* bound: buttons that go down in the same frame
          MaxRounds   \* bound: no round is begun after this many

Idle == {"RADAR", "STATS"}
OtherScreens == ToSet(Screens) \ (Idle \union {"SCAN", "DETAIL", "SETTINGS"})
Pad == {"L", "R", "SQUARE", "UP", "DOWN", "LEFT", "SELECT", "CIRCLE", "TRIANGLE", "CROSS",
        "START"}  \* RIGHT does what LEFT does

ASSUME AppLoopAssumption ==
  /\ IsFiniteSet(Hosts) /\ Hosts # {} /\ NoError \notin Errors /\ None \notin Hosts
  /\ Buttons \subseteq Pad
  /\ ProfileCount \in Nat \ {0} /\ Rows \in Nat \ {0} /\ MaxPressed \in Nat /\ MaxRounds \in Nat
  /\ Screens \in Seq(ToSet(Screens))
  /\ Idle \union {"SCAN", "DETAIL", "SETTINGS", "EXPORTS"} \subseteq ToSet(Screens)

VARIABLES
  running, round, found,     \* the scanner, as ScanRounds has it
  scanError,                 \* its last_error
  config,                    \* the profile whose ports it probes
  pc, quit,
  seen,                      \* scanner_metrics.hosts, copied in this frame
  alerts,                    \* the alerts this frame pushed about the scanner
  prevRound, prevHosts, prevError,
  screen, prevScreen,
  armed,                     \* local_scan_armed
  view, selected, scroll,    \* scan_view, selected_host_index, scan_scroll
  detailIndex,               \* host_detail_index
  setting, profile, scannerCfg, \* settings_index, scan_profile, scanner_cfg
  lastFound,                 \* history: the hosts of the last round that ended
  known,                     \* history: what a reader of the alerts knows
  opened                     \* history: the host CROSS opened, until a new round

scanner == <<running, round, found, scanError, config>>
diff == <<prevRound, prevHosts, prevError>>
list == <<view, selected, scroll, detailIndex>>
settings == <<setting, profile, scannerCfg>>
history == <<lastFound, known, opened>>
vars == <<scanner, pc, quit, seen, alerts, diff, screen, prevScreen, armed, list, settings,
          history>>

Rounds == INSTANCE ScanRounds WITH Ips <- Hosts, Capacity <- Cardinality(Hosts)

Init ==
  /\ Rounds!Init /\ scanError = NoError /\ config = 1
  /\ pc = "tick" /\ quit = FALSE /\ seen = <<>> /\ alerts = {}
  /\ prevRound = 0 /\ prevHosts = <<>> /\ prevError = NoError
  /\ screen = "RADAR" /\ prevScreen = "RADAR" /\ armed = FALSE
  /\ view = <<>> /\ selected = 0 /\ scroll = 0 /\ detailIndex = 0
  /\ setting = 0 /\ profile = 1 /\ scannerCfg = 1
  /\ lastFound = {} /\ known = {} /\ opened = None
-----------------------------------------------------------------------------
(* lan_scanner_tick and lan_scanner_get_metrics.                           *)

ScannerFinds == /\ pc = "tick" /\ ~quit
                /\ \E ip \in Hosts : Rounds!Discover(ip)
                /\ UNCHANGED <<scanError, config, pc, quit, seen, alerts, diff, screen,
                               prevScreen, armed, list, settings, history>>

TickEnds == /\ pc = "tick" /\ ~quit
            /\ \/ Rounds!Finish /\ lastFound' = ToSet(found)
               \/ UNCHANGED <<running, round, found, lastFound>>
            /\ scanError' \in IF running THEN Errors \union {NoError} ELSE {scanError}
            /\ seen' = found
            /\ pc' = "report"
            /\ UNCHANGED <<config, quit, alerts, diff, screen, prevScreen, armed, list,
                           settings, known, opened>>

-----------------------------------------------------------------------------
(* The alerts about the round that ended, and about a new error.           *)

Joined == ToSet(seen) \ ToSet(prevHosts)
Left == ToSet(prevHosts) \ ToSet(seen)

RoundAlerts == ({"joined"} \X Joined) \union ({"left"} \X Left)
ErrorAlerts == IF scanError \notin {NoError, prevError} THEN {<<"error", scanError>>} ELSE {}

RoundEnded_Idle == ~running                                     \* mutant
RoundEnded == round # prevRound

Report ==
  /\ pc = "report"
  /\ \/ /\ RoundEnded
        /\ alerts' = RoundAlerts \union ErrorAlerts
        /\ prevRound' = round /\ prevHosts' = seen
     \/ /\ ~RoundEnded
        /\ alerts' = ErrorAlerts
        /\ UNCHANGED <<prevRound, prevHosts>>
  /\ prevError' = scanError
  /\ known' = (known \union {h \in Hosts : <<"joined", h>> \in alerts'})
                \ {h \in Hosts : <<"left", h>> \in alerts'}
  /\ pc' = "input"
  /\ UNCHANGED <<scanner, quit, seen, screen, prevScreen, armed, list, settings,
                 lastFound, opened>>

-----------------------------------------------------------------------------
(* Navigation, which comes before the screen's own buttons.                *)

Turn(from, by) ==
  LET n == Len(Screens)
      i == CHOOSE j \in 1..n : Screens[j] = from
  IN Screens[((i - 1 + n + by) % n) + 1]

Square(from) == IF from = "SCAN" THEN "EXPORTS" ELSE "SCAN"

Navigate(pressed) ==
  LET l == IF "L" \in pressed THEN Turn(screen, -1) ELSE screen
      r == IF "R" \in pressed THEN Turn(l, 1) ELSE l
  IN IF "SQUARE" \in pressed THEN Square(r) ELSE r

-----------------------------------------------------------------------------
(* The SCAN screen.                                                        *)

Clamp(x, low, high) == IF x < low THEN low ELSE IF x > high THEN high ELSE x

\* build_scan_view: the filter keeps some hosts, the sort order arranges them.
Views == UNION {{s \in [1..k -> 1..Len(seen)] : IsInjective(s)} : k \in 0..Len(seen)}

MaxScroll(count) == IF count > Rows THEN count - Rows ELSE 0

Selection(pressed, count) ==
  LET up == IF "UP" \in pressed /\ selected > 0 /\ count > 0 THEN selected - 1 ELSE selected
      down == IF "DOWN" \in pressed /\ up < count - 1 THEN up + 1 ELSE up
      reset == IF pressed \intersect {"CIRCLE", "LEFT"} # {} THEN 0 ELSE down
  IN IF count = 0 THEN 0 ELSE Clamp(reset, 0, count - 1)

Following_Loose(sel, from) == IF sel > from + Rows THEN sel - Rows ELSE from  \* mutant
Following(sel, from) == IF sel > from + (Rows - 1) THEN sel - (Rows - 1) ELSE from

Scrolled(pressed, count, sel) ==
  LET reset == IF pressed \intersect {"CIRCLE", "LEFT", "SELECT", "TRIANGLE"} # {}
                 THEN 0 ELSE scroll
      first == Clamp(reset, 0, MaxScroll(count))
      above == IF sel < first THEN sel ELSE first
  IN Clamp(Following(sel, above), 0, MaxScroll(count))

(* What the calls of lan_scanner_start, _request_rescan and _stop in this  *)
(* frame do: start if a scan was armed, then SELECT, then TRIANGLE.        *)
Starts == armed /\ ~running
Runs == running \/ Starts
Begins(pressed) == Starts \/ ("SELECT" \in pressed /\ Runs)

DriveScanner(pressed) ==
  /\ Begins(pressed) => round < MaxRounds
  /\ running' = (Runs /\ "TRIANGLE" \notin pressed)
  /\ found' = IF Begins(pressed) THEN <<>> ELSE found
  /\ scanError' = IF Begins(pressed) THEN NoError ELSE scanError
  /\ config' = IF Starts THEN scannerCfg ELSE config
  /\ armed' = IF "TRIANGLE" \in pressed THEN ~Runs
              ELSE (armed /\ ~Starts) \/ ("SELECT" \in pressed /\ ~Runs)
  /\ UNCHANGED round

HostAt_Row(chosen, sel) == sel                                  \* mutant
HostAt(chosen, sel) == chosen[sel + 1] - 1

OnScan(pressed) ==
  /\ DriveScanner(pressed)
  /\ \E chosen \in Views :
       /\ view' = chosen
       /\ selected' = Selection(pressed, Len(chosen))
       /\ scroll' = Scrolled(pressed, Len(chosen), selected')
       /\ \/ /\ "CROSS" \in pressed /\ chosen # <<>>
             /\ detailIndex' = HostAt(chosen, selected')
             /\ screen' = "DETAIL"
             /\ opened' = IF Begins(pressed) THEN None ELSE seen[chosen[selected' + 1]]
          \/ /\ ~("CROSS" \in pressed /\ chosen # <<>>)
             /\ screen' = "SCAN"
             /\ opened' = IF Begins(pressed) THEN None ELSE opened
             /\ UNCHANGED detailIndex
  /\ UNCHANGED settings

-----------------------------------------------------------------------------
(* The other screens.                                                      *)

NextProfile == (profile % ProfileCount) + 1

SettingAfter(pressed) ==
  LET up == IF "UP" \in pressed THEN setting - 1 ELSE setting
  IN Clamp(IF "DOWN" \in pressed THEN up + 1 ELSE up, 0, 4)

ApplyProfile ==
  /\ scannerCfg' = profile
  /\ \/ /\ running /\ round < MaxRounds
        /\ found' = <<>> /\ scanError' = NoError /\ opened' = None
     \/ ~running /\ UNCHANGED <<found, scanError, opened>>

OnSettings(pressed) ==
  /\ setting' = SettingAfter(pressed)
  /\ IF "CROSS" \in pressed /\ setting' = 0 THEN profile' = NextProfile ELSE UNCHANGED profile
  /\ IF "CROSS" \in pressed /\ setting' = 2 THEN ApplyProfile
     ELSE UNCHANGED <<scannerCfg, found, scanError, opened>>
  /\ screen' = IF "CROSS" \in pressed /\ setting' = 4 THEN "EXPORTS" ELSE "SETTINGS"
  /\ UNCHANGED <<running, round, config, armed, list>>

OnDetail(pressed) == /\ screen' = IF "CIRCLE" \in pressed THEN "SCAN" ELSE "DETAIL"
                     /\ UNCHANGED <<scanner, armed, list, settings, opened>>

StopsOn_Radar(at) == at = "RADAR"                               \* mutant
StopsOn(at) == at \in Idle
OnIdle(at) == /\ screen' = at
              /\ IF StopsOn(at) THEN Rounds!Stop ELSE UNCHANGED <<running, round, found>>
              /\ UNCHANGED <<scanError, config, armed, list, settings, opened>>

OnOther(at) == /\ screen' = at
               /\ UNCHANGED <<scanner, armed, list, settings, opened>>

\* The buttons that can go down in one frame.
Presses == UNION {kSubset(k, Buttons) : k \in 0..MaxPressed}

Input ==
  /\ pc = "input"
  /\ \E pressed \in Presses :
       LET at == Navigate(pressed)
       IN /\ \/ at = "SCAN" /\ OnScan(pressed)
             \/ at = "SETTINGS" /\ OnSettings(pressed)
             \/ at = "DETAIL" /\ OnDetail(pressed)
             \/ at \in Idle /\ OnIdle(at)
             \/ at \in OtherScreens /\ OnOther(at)
          /\ prevScreen' = at
          /\ quit' = ("START" \in pressed)
  /\ pc' = "tick" /\ alerts' = {}
  /\ UNCHANGED <<seen, diff, lastFound, known>>

\* After the last frame.
Shutdown == /\ pc = "tick" /\ quit
            /\ running' = FALSE /\ pc' = "ended"
            /\ UNCHANGED <<round, found, scanError, config, quit, seen, alerts, diff, screen,
                           prevScreen, armed, list, settings, history>>

Next == ScannerFinds \/ TickEnds \/ Report \/ Input \/ Shutdown

Spec == Init /\ [][Next]_vars

\* The display paces the loop, which never waits for anything else.
FairSpec == Spec /\ WF_vars(Next)

-----------------------------------------------------------------------------
Drawn == pc = "tick"

TypeOK ==
  /\ running \in BOOLEAN /\ round \in 0..(MaxRounds + 1)
  /\ {found, seen, prevHosts} \subseteq Seq(Hosts)
  /\ {scanError, prevError} \subseteq Errors \union {NoError}
  /\ {config, profile, scannerCfg} \subseteq 1..ProfileCount
  /\ pc \in {"tick", "report", "input", "ended"} /\ quit \in BOOLEAN
  /\ alerts \subseteq ({"joined", "left"} \X Hosts) \union ({"error"} \X Errors)
  /\ prevRound \in 0..round /\ armed \in BOOLEAN
  /\ {screen, prevScreen} \subseteq ToSet(Screens)
  /\ view \in Seq(1..Cardinality(Hosts)) /\ setting \in 0..4
  /\ {selected, scroll, detailIndex} \subseteq 0..(Cardinality(Hosts) - 1)
  /\ lastFound \subseteq Hosts /\ known \subseteq Hosts
  /\ opened \in Hosts \union {None}

(***************************************************************************)
(* The alerts tell the network: whoever applies every "Host joined" and    *)
(* "Host left" since the start has the hosts of the last round that ran to *)
(* its end, however rounds were stopped, started again or restarted in     *)
(* between, and while the next round is already running.                   *)
(***************************************************************************)
AlertsTellTheNetwork ==
  pc \in {"input", "tick"} => known = lastFound /\ prevRound = round

(***************************************************************************)
(* Until a new round begins, DETAIL shows the host that was under the      *)
(* cursor when CROSS was pressed, however the view was filtered and sorted *)
(* and whatever hosts were found since.  host_detail_index is a position   *)
(* in the table: once a round has begun it may be any host, or none.       *)
(***************************************************************************)
DetailIsChosen ==
  Drawn /\ screen = "DETAIL" /\ opened # None =>
    detailIndex < Len(seen) /\ seen[detailIndex + 1] = opened

(***************************************************************************)
(* The scanner does not run behind the RADAR and STATS screens.            *)
(***************************************************************************)
NoScanBehindRadar == Drawn /\ screen \in Idle => ~running

(***************************************************************************)
(* When the SCAN screen has handled the buttons, the selected host is one  *)
(* of the rows drawn and no row is wasted below the end of the list,       *)
(* although the list shrinks and grows from frame to frame.                *)
(***************************************************************************)
SelectionVisible ==
  Drawn /\ screen = "SCAN" /\ prevScreen = "SCAN" /\ view # <<>> =>
    /\ selected < Len(view)
    /\ scroll <= selected /\ selected < scroll + Rows
    /\ scroll > 0 => scroll + Rows <= Len(view)
=============================================================================
