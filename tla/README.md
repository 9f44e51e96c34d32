# Vita Wi-Fi Scope in TLA+

A verification project for the LAN monitor under `src/`: TLA+ modules for its
parts, TLC configurations that check them on small instances, and TLAPS proofs
for every instance. Paths like `lan_scanner.c:631` are relative to `src/src/`.

## The program

One application loop (`main.c`) runs once per video frame. It polls the network
state eight times a second, ticks the scanner and the service probe, copies every
component's metrics, turns differences into alerts, handles the buttons pressed
since the last frame, and draws. Everything but one probe thread runs on this
loop; there are no locks. The components, their state and their operations:

| Component | State | Operations | Talks to |
|---|---|---|---|
| LAN scanner (`lan_scanner.c`) | phase, host cursor, probe cursor, host table of 128, hit counters, round number, hints | start, stop, request_rescan, tick, two hint setters, get_metrics | calls discovery once a tick; hints come from the network monitor |
| Discovery (`discovery.c`) | three UDP sockets, UPnP table of 16, one description fetch | tick, term | returns at most 16 events a tick to the scanner |
| Service probe (`service_probe.c`) | queue of hosts, 128 results, one HTTP probe | arm, tick | armed with the scanner's hosts on entering HOST_DETAIL |
| Latency probe (`latency_probe.c`) | counters, extremes, a ring of 120 outcomes | start, stop, get_metrics, and its thread | the thread and the loop share the struct without a lock |
| Alerts (`alerts.c`) | a ring of 64 | push, clear, get, count | pushed by the loop, read by the ALERTS screen |
| Application loop (`main.c`) | screen, armed scan, list view, selection, scroll, settings, hosts of the last round | one frame | everything |
| Network monitor (`net_monitor.c`) | addresses, signal history, connection times | poll | hints to the scanner |
| Bluetooth monitor (`bt_monitor.c`) | paired devices, two lists of 24 | poll, set_inquiry | polled by the loop, toggled on the BT screen |
| Exports (`export_json.c`, `export_viewer.c`) | files, a list of 64 summaries, a selection and a pinned baseline (in `main.c`) | write, index, reload | reads the scanner's metrics |
| Proxy client (`proxy_client.c`) | connection, receive buffer, hosts | start, stop, request_scan, its thread | its thread is never started |
| NFC, AP scanner (`nfc_scanner.c`, `wifi_scanner.c`) | lists nothing fills | stubs that answer "unavailable" | alerts |
| Drawing, sound (`render.c`, `ui_audio.c`) | none of interest | output | |

### What makes it correct, and what is hard

* **Scanner.** A round counted as finished has probed every host once, the
  gateway first; the table has each address once; counters, badges and stored
  errors belong to what they are shown with. Hard: discovery packets insert into
  the table while a host is being probed, hints change and buttons restart or
  stop the round between any two probes, and the error field is shared.
* **Discovery.** One entry per device, no lost socket, the fetch slot is freed
  in the end, a description is stored with the device it came from. Hard: new
  devices are met while a fetch is under way, each of a socket's calls can fail,
  and the engine is ticked only while a round runs.
* **Service probe.** One socket, replies in the right slot, every queued host
  tried. Hard: `arm` replaces the queue in the middle of a probe, the table
  overflows, and each call of a probe's start can fail.
* **Latency probe.** Published statistics are those of the outcomes; what the
  unlocked reader computes is usable; stop returns.
* **Alerts.** The ring is a log of the last 64 alerts.
* **Proxy client.** No descriptor is lost on any exit, a report received to its
  end is the host list, stop returns. Hard: each call of a connection can fail,
  bytes come in any grouping into a buffer that outlives the connection, so that
  a line cut by its loss joins the first line of the next, and the
  loop asks for scans and for the end at any moment.
* **Exports.** What was reported as saved is listed later, also after a crash;
  the difference shown is the one between the scans; the baseline is the one
  announced as pinned, or a newer one. Hard: writes and reads fail part of the
  way, the clock that names and sorts the files restarts with the program, the
  pinned baseline is an index into a list that is loaded again, and SETTINGS
  opens the screen a frame before the list is loaded.
* **Network monitor.** The hints belong to the connection that is up; signal and
  times are those sampled. Hard: queries fail one by one, and the uptime is
  shown in whole seconds while the total of earlier connections is exact.
* **Bluetooth monitor.** Two lists, full at 24, tell what was heard.
* **Loop.** The alerts about hosts add up to the network; screens show the host
  the user chose; the scanner does not run where it was not asked to.

`PROJECT.json` lists under "hazards" the lines where these go wrong and the
property that watches each.

## The modules

| Module | Models | Level |
|---|---|---|
| `ScanRounds` | the promise of the scanner to the loop: rounds, and a host list that only grows within one | abstract |
| `LanScanner` | `lan_scanner.c`; implements `ScanRounds` | detailed |
| `LanScannerProofs` | theorems about `LanScanner` | proofs |
| `AlertLog` | the promise of the alert manager: the last alerts in order | abstract |
| `AlertRing` | `alerts.c`; implements `AlertLog` | detailed |
| `AlertRingProofs` | theorems about `AlertRing` | proofs |
| `Discovery` | `discovery.c` | detailed |
| `DiscoveryProofs` | theorems about `Discovery` | proofs |
| `ServiceProbe` | `service_probe.c` | detailed |
| `ServiceProbeProofs` | theorems about `ServiceProbe` | proofs |
| `LatencyProbe` | `latency_probe.c`, both threads | detailed |
| `LatencyProbeProofs` | theorems about `LatencyProbe` | proofs |
| `AppLoop` | `main.c` around the scanner; drives an instance of `ScanRounds` | composition |
| `AppLoopProofs` | theorems about `AppLoop` | proofs |
| `ProxyClient` | `proxy_client.c`, the thread and the calls of the loop | detailed |
| `Exports` | `export_json.c`, `export_viewer.c`, the EXPORTS screen in `main.c` and its comparison in `render.c` | composition |
| `ExportsProofs` | theorems about `Exports` | proofs |
| `NetMonitor` | `net_monitor.c` | detailed |
| `BtMonitor` | `bt_monitor.c` and the buttons of the BT screen | detailed |
| `ConnectionProofs` | theorems about `ProxyClient`, `NetMonitor` and `BtMonitor`, each about the specification of one | proofs |
| `MCMonitors` | the two monitors, each beside the other at rest: they share no state | for TLC |
| `MCLanScanner`, `MCServiceProbe`, `MCAppLoop`, `MCProxyClient`, `MCExports` | values of the constants for TLC | |

`AppLoop` uses the abstract scanner: since `LanScanner` is proved to implement
`ScanRounds`, what `AppLoop` shows of rounds and host lists holds with the real
one. Variables have the names of the C fields where there is one (but
`netConnected` of `NetMonitor`, which is `connected` there); names marked
"history" in a module are read by no step and exist for the properties.
Definitions whose name ends in `_Something` and that are marked "mutant" are
plausible wrong versions of the definition below them; each property is shown
to fail when its mutant is put in place.

### How state and actions correspond to the code

* **`LanScanner`.** A tick is one call, but it loops over the events of
  discovery; it is `TickBegin` (hints, resolve), `TickEvent` per packet
  (`upsert_host`) and `TickProbe` (select a host, one probe, `finalize_host`,
  or the end of the round). The other operations wait for the tick to end, as
  the loop does. The outcome of a probe is any errno class that
  `probe_icmp_echo` and `probe_tcp_port` can report. Pacing (`next_step_us`) is
  an early return, so a stuttering step.
* **`Discovery`.** A tick drains the three sockets, packet by packet, then steps
  the fetch. A socket is set up call by call (create, option, bind for UDP;
  create, option, address, connect for a fetch): each exit has a step of its own,
  which closes what that exit closes. `scanning` says whether the scanner's round
  runs with its subnet; only then does `lan_scanner_tick` tick the engine, and
  `RoundBegins`, `RoundEnds` change it between ticks. Nothing closes or times out a fetch
  when a round ends: it keeps its slot and socket until a later round ticks it.
  A location stands for host, port and path of a LOCATION header; a
  document for the device, the location dialled and the location asked for.
  `discovery_term` is modelled although nothing calls it.
* **`ServiceProbe`.** `Arm` is one step (an interrupted probe loses its socket,
  the queue is rebuilt from the hosts that are alive and have a web port); a tick
  advances the probe. `begin_next_probe` is a step per call that can fail (create,
  option, address, connect), each with its own exit; it calls itself when a probe
  cannot start, which here is a step at `pc = "begin"`.
* **`LatencyProbe`.** Every load and store of a field both threads use is a step,
  in program order. `history_count` is not volatile and is read several times by
  the reader: each later read gives the value at hand or the one in memory. A
  whole network probe is one step with an outcome. The thread is assumed to work
  on the struct given to `latency_probe_start`; the kernel call that hands it over
  (`latency_probe.c:309`) is not in this repository.
* **`AlertRing`.** One action per function; `Get(i)` is `alerts_get`.
* **`AppLoop`.** A frame is a tick, a report (alerts about the round and about
  errors), and the buttons of this frame: navigation first, then the current
  screen, in the order of `main.c`. Filter and sort make the list an arbitrary
  arrangement of some hosts, because they read fields that change under way. The
  screens that touch nothing modelled here are one representative, EXPORTS. The
  profile chosen, the one applied (`scannerCfg`) and the one the running scanner
  copied (`config`) are three variables. An
  error of -60 is no error here, since it is never reported and only its being
  different from others is used.
* **`ProxyClient`.** Every access of the thread to a flag the loop writes is a
  step of its own, and so is every call of a connection that can fail: create,
  option, connect, epoll create, epoll add, the wait, the reading of its result
  and its verdict, and the two calls that register the socket with a second
  epoll. Each exit says which descriptors it closes. A line is known by the
  report it belongs to and its place there; it is two pieces, so that a read may
  end inside it, and a line that changes nothing modelled (`Note`) is four. A
  read takes any number of pieces that the buffer has room for, and they are
  handled one by one: a piece that ends a line sends what is in the buffer to
  `Parse`. `BufPieces` stands for the 1023 bytes of `rx_buf` (`PROXY_RX_BUF_SIZE
  - 1`) and is at least two, since every line but a `Note` fits them; in the run it
  is three, so a piece left by a lost connection and a whole line fit, and a
  `Note` does not. A chunk of the buffer that is not one whole line is taken
  for the line it begins with, if enough of that is there, as `strncmp` and
  `sscanf` do: a rest of a HOST line joined to a BEGIN is parsed as that host. The
  thread is assumed to work on the struct given to `proxy_client_start`
  (`proxy_client.c:344` hands it to the kernel, as in the latency probe).
* **`Exports`.** A snapshot either writes everything or leaves no file, a file
  with a cut header (any smaller timestamp) or one with some of the hosts; a
  crash leaves the same, without a message. A reload lists the files in any order
  before sorting, at most `MaxFiles` of them, and can meet one fault: the
  directory cannot be opened, reading it stops midway (a list of some of the files,
  which the code returns as a success), or a file cannot be read. A frame handles
  its buttons in the order of `main.c`: the reload if the last frame was on another
  screen, selection, TRIANGLE, CROSS, CIRCLE, clamps. L, R and SQUARE change the
  screen before that check; SETTINGS does it after (`SettingsOpens`), so that one
  frame is drawn with the list of an earlier visit. `pinned` is recorded when CROSS
  announces an entry, from the list and the index the alert reads, not from the
  index kept afterwards.
* **`NetMonitor`, `BtMonitor`.** One action per poll, with every answer and every
  failure of the SDK; the ring of signals is a function on 0..Capacity-1 with
  head and count, as in the code. Times are in ticks, `Second` of them a second,
  and the uptime is the whole seconds of their difference (`net_monitor.c:65-70`). Whether the paired list is due for its refresh
  is any choice.

## The runs

| Run | Instance | Shows |
|---|---|---|
| `LanScanner_table` | subnet of 2, 2 alive steps, 1 port, table of 1 or 2, packets from on and off the subnet | the table, its counters, badges; `LanScanner` implements `ScanRounds` |
| `LanScanner_sweep` | subnet of 3 on 2 networks, table of 1, packets | coverage, order, errors, ICMP; under fairness, a round ends |
| `AlertRing` | 3 alerts, ring of 4 | the ring implements the log |
| `Discovery` | 3 devices, table of 2, 2 packets a socket, 1 event a tick, rounds of any length | table, fetch and sockets agree; under fairness and with rounds going on, a fetch ends |
| `Discovery_path` | 2 devices, 2 locations | *violation*, see below |
| `ServiceProbe` | 4 hosts in 4 lists, 2 results, 4 arms | slots, socket and replies; under fairness, the queue drains |
| `LatencyProbe` | 3 probes, ring of 2, 2 starts | statistics, ring and reads; under fairness, stop returns |
| `LatencyProbe_loss` | 3 probes, ring of 2 | *violation* |
| `AppLoop` | 2 hosts, 1 row, 2 profiles, no round begun after 2 | alerts, selection, HOST_DETAIL; navigation and where the scanner runs |
| `ProxyClient` | 3 connections, 2 requests, reports of 0 to 2 hosts, list of 2, buffer of 3 pieces | descriptors, reports; under fairness, stop returns |
| `Exports` | 3 files of 1 to 3 hosts, one of them broken, list of 2, buffer of 2 hosts | saved snapshots, difference, baseline |
| `Monitors` | 5 polls, at most 2 of the 3 ticks of a second apart, ring of 3; 6 events of 4 devices, lists of 3 | hints, signal, times; the Bluetooth lists |

The type invariants of the modules stand for their proofs; a run checks one only
where a hazard hangs on it (`LanScanner_table`: the indices of the probe arrays).

The larger runs visit, in distinct states: `AppLoop` 1 247 000, `ProxyClient`
674 000, `Discovery` 598 000, `Exports` 348 000, `Monitors` 113 000; `ServiceProbe`
visits 16 000. The longest, `Exports`, takes two to three minutes with two workers.

### Why the bounds are enough

A subnet of three has a first, a middle and a last host, so the gateway may be
any of them and skipping it leaves hosts on both sides; two alive steps are the
ICMP one and a TCP one. Two networks let a hint move the subnet. A table of one
fills with the first host, one of two needs a third address, which the packets
supply. A ring of four wraps with the fifth alert, one of two with the third
probe. Two results overflow with the third host. The deadlines of discovery and
service probe are two clock steps, so both "in time" and "late" happen, and a
frame may take one step or (where `LongestFrame` is 2) jump over the deadline.
Rounds are begun until two have ended, so a host can join and leave; one row makes the
list of two hosts scroll. `MaxRounds`, `MaxArms`, `MaxProbes`, `MaxStarts` and `Width`
only bound counters, as do `MaxDials`, `MaxRequests`, `MaxTime`, `DiskMax`,
`BrokenMax`, `MaxPolls`, `MaxDelay` and `MaxHeard`; the modules say where. Three
connections let bytes of one meet the next, and its failure the one after; a list
of two is filled by a report, and overflows when a host cut from the connection
before comes first. Three files overflow a list of two, and with three
times a file of a later session may be older or newer than those before; one
broken file beside the saved ones and one fault in a reload let every kind of
failure meet every snapshot, and files and faults more than that repeat it. Five
polls wrap a ring of three and lose the network twice, and delays below a second
let the whole seconds fall short; four devices overflow lists of three.
`MaxPressed` is one button a frame in the runs; with none pressed every other step
goes on.
Every button is pressed but LEFT and RIGHT, which do what CIRCLE does on SCAN.
No property reads the alert about an error, and with a value for it the state
space doubles: the `AppLoop` run has none (`Errors = {}`).

Deadlock is not checked for `ServiceProbe` (it may have nothing to do and no
arm left), for `AppLoop` (the program ends with START, and bounds end it), nor
for `ProxyClient`, `Exports` and `Monitors`, where the bounds end it.

### Fairness

The loop has no blocking wait but the display, and the kernel schedules both
threads. The loop calls `lan_scanner_tick` (`main.c:275`) and `service_probe_tick`
(`main.c:278`) in every frame, so for `LanScanner` and `ServiceProbe` fairness says
that ticks go on; for `LatencyProbe` and `ProxyClient`, that the thread and a joined
stop proceed. Nothing is assumed of the network, of packets or of the user.

`Discovery` is different: it is ticked only while a round runs
(`lan_scanner.c:570`, `622-636`), so `FairSpec` says that a tick under way is
finished and a running round ticked, and nothing about rounds: none need begin. A
fetch under way when the round ends, or is stopped, keeps its slot and its socket,
since nothing calls `discovery_term`, for as long as no round is begun. `FetchEnds`
therefore has the premise that the scanner is found scanning again and again
(`[]<>scanning`), and shows that this suffices. The call that resolves the subnet of
a round ticks the engine (`RoundBegins` starts a tick), and a deadline is checked in
the first tick after it has passed; so even rounds of a single tick free the slot.

`RoundEnds` is about rounds that resolved their subnet, because without a network
the code retries resolving for as long as it takes; and `QueueDrains` holds
because arms are bounded: entering HOST_DETAIL for ever does restart the queue from
its first host each time.

### What the violations say

* `DetailsFromLocation` (`discovery.c:358`): the address, port and path of a
  fetch are fields of the engine, overwritten when another device is met before
  `upnp_start_fetch` sees that a fetch is under way. The first device is then
  asked for the second one's document. What is stored still comes from the
  device it is stored with (`DetailsFromDevice`, which holds).
* `LossIsPercentage` (`latency_probe.c:342`): the reader's two loads straddle a
  probe, answers exceed packets sent and the unsigned difference wraps, so one
  frame shows an absurd loss. The recent loss, computed from the ring, keeps its
  bounds (`RecentLossIsPercentage`).

Seen while modelling and not checked by a run:

* applying a profile restarts the round with the configuration the scanner copied
  at its start (`main.c:563`), although the alert says "Applied scan profile";
  the scanner has the new ports when it is stopped and started again
  (`main.c:433`);
* a description fetch under way when a round ends keeps its slot and its socket
  until the next round, or for ever (see Fairness);
* "overwrite oldest" (`service_probe.c:104`) always takes slot 0, from the second
  new host on the newest result;
* a device first met while another is being fetched is never asked for its own
  description, since it is known from then on;
* entering HOST_DETAIL arms the probe of every web host, not of the one shown;
* a frame that returns from HOST_DETAIL to SCAN draws the list built before a
  restart, which `render.c:478` answers with an "Index error" row;
* a snapshot saved on EXPORTS moves the pinned baseline to its neighbour
  (`main.c:665`: the index stays, the list shifts); `BaselineNotOlder` says that
  nothing else does, and that the neighbour is never an older one;
* the frame in which SETTINGS opens EXPORTS draws the list of the last visit,
  without the snapshot SETTINGS may just have saved (`main.c:581-583` against
  `369`); `SavedIsListed` excepts that frame and no other;
* the rest of a HOST line cut by a lost connection is joined to the BEGIN of the
  next report (`proxy_client.c:194`): that BEGIN is not seen and the host comes
  before the report. `ReportIsWhole` says that nothing else is added, and nothing
  lost but by the capacity of the list;
* CROSS with UP on the first row or DOWN on the last one reads a label outside
  the list (`main.c:675`), before the clamps undo the index;
* the subnet of a snapshot is read as the text between the closing quote of its
  key and the opening quote of its value (`export_viewer.c:35-49`);
* a scan requested while a report of the proxy is under way empties the list, and
  the END of that report then shows the rest of it as complete
  (`proxy_client.c:239-241`); a request between the send and line 239 is lost;
* a device heard again does not move in the list of discovered devices, so it may
  leave it while it is among the latest events (`bt_monitor.c:109-124`); and an
  inquiry that ends by itself still shows as running (`bt_monitor.c:185`).

## What is proved

Every safety property of a passing run is also a theorem, for every value of the
constants the assumption of its module allows: any number of hosts, devices,
files, samples or events, any size of the tables, rings and buffers. Each proof
has the same shape: an invariant that `Init` establishes and every action keeps,
one lemma or step per action, and the property as its consequence. What follows
says what the invariant adds to the property, and why.

**`LanScannerProofs`**, from `ScannerAssumption` (positive sizes, a port list of
the stated length, distinct markers):

* `TypeCorrect`. `TypeOK` alone is not inductive: a probe indexes the subnet and
  the host cursor, so `TypeInv` adds that both are set once the round is past
  resolving, and that a tick under way is the tick of a running scanner.
* `HostsProbedOnce`, `GatewayIsFirst`, `RoundsAreComplete`: from `SweepInv`, which
  says exactly which hosts the cursor has been over: those below `nextHost` other
  than the preferred one, and the preferred one once its flag is set; these are
  the hosts probed plus the one being probed. The end of a round has the cursor
  past the last host, so all of them are.
* `TableStaysASet`, `ScannerImplementsRounds`: every step either begins a round,
  leaves the addresses as they are, or appends one new address; both results
  follow from that one lemma (`TableStep`).
* `HostErrorsAreOwn`: a host becomes alive only by an answer, an answer always
  overwrites the error field, and later probes of the host overwrite it or leave
  it.
* `BadgeIsGateway`, `CountersAreExact`: every write of a row goes through
  `upsert_host`; one lemma says what it does to a row, to the badge and to the
  set of rows each source is credited with.
* `DeniedIcmpIsFinal`: an action property; the credit of a host to ICMP is in the
  row before the refusal or never.
* `AnswersAreListed`: `ListingInv` splits the property in what is listed and what
  is owed, the host being probed: it has answered before it is entered.

**`AlertRingProofs`**, from a positive capacity: `TypeCorrect`,
`OnlyAlertsShown`, `RingImplementsLog`. A push shifts each alert one place
(`PushShifts`) while it stays in a slot of its own (`SlotsInOrder`); `%` is
eliminated by one lemma.

**`DiscoveryProofs`**, from `DiscoveryAssumption` (sizes are numbers, deadlines
positive): `TypeCorrect`, `NoSocketLeaks`, `DevicesAreDistinct`, `DetailsAreOwn`,
`NothingIsForgotten`. `NoSocketLeaks` goes through each call that sets a socket up
and each of its exits, so that it rests on the closes of `discovery.c:22-47` and
`284-311` one by one. They share the invariant `Inv`,
whose own part is `FetchHasTarget`: a fetch under way has an entry without
details, and what it receives was asked of the address of that entry, although
the path beside it may be overwritten meanwhile.

**`ServiceProbeProofs`**, from `ServiceProbeAssumption` (room for one result, lists
and port lists have a length): `TypeCorrect`, `SocketIsOne`,
`ResultsAreDistinct`, `RepliesAreOwn`. The invariant adds `ProbeHasSlot`: the slot
of the probe under way is still that of its host, which is where the overwriting
of slots could go wrong. `SocketIsOne` has a case for each call of
`begin_next_probe` (`service_probe.c:117-154`) and its exit.

**`LatencyProbeProofs`**, from `LatencyProbeAssumption` (a ring of at least one,
and counters that do not wrap: `Width > MaxProbes`, which is 2^32 samples in the
code): `TypeCorrect`, `PublicationIsExact`, `QuietReadsAreExact`,
`RecentLossInRange`. Between two stores of the thread the struct is half new, so
the invariant says for each field whether it already has the last sample
(`Past`), and for the ring where each outcome lies counted back from the head.
`QuietRead` says the same of the reader's copy, field by field, as long as the
thread has stored nothing; the bound on the recent loss needs only
`ReadInBounds`: a count read again has grown.

**`AppLoopProofs`**, from `AppLoopAssumption` (finitely many hosts, at least one;
at least one profile and row; the screens the loop names exist): `TypeCorrect`,
`RadarIsQuiet`, `CursorIsDrawn`, `AlertsAddUp`, `DetailShowsOpened` (the last until
a new round begins; then the index may denote any host). `Bounded` ties the lists to the hosts; `AlertsInv` says what
the report will compare with between tick and report; `DetailInv` that the opened
host keeps its index in the list of the scanner, which only grows within a round,
and in its copy.

**`ExportsProofs`**, from `ExportsAssumption` (room for one file): `TypeCorrect`,
`IndicesStay`, `SavedSnapshotsAreListed`, `DifferenceIsExact`, `BaselineIsNotOlder`.
The invariant adds the disk: no two files have a name (a snapshot is given a time
that no file has), what was reported as saved is there whole, every entry of a list
loaded is a file as the buffer holds it, and no file has two entries. A list drawn
on the screen outside the frame that opens it has all the files there are, if it was
loaded whole and they fit; that is `SavedSnapshotsAreListed`. `BaselineIsNotOlder`
counts: the invariant says that the files at least as new as the pinned entry are as
many as the entries up to the index, or more. A snapshot saved only adds files,
and a sorted list of all files has the newest first, so the entry at the index is
one of those at least as new as the pinned one, however many lists that were not
whole came in between.

**`ConnectionProofs`**:

* `DescriptorsAreKept`, from `ProxyAssumption` (reports are sequences of hosts and
  notes, a buffer of two pieces): `ProxyInv` names the descriptors each step
  holds, from the creation of the socket to the close at the end, and that the
  thread lives while the loop holds its id.
* `ReportsAreWhole`. `ReportInv` says what the proxy has still to deliver is a
  chain, each piece followed by the next of its line and each line by the next of
  its report, and that the client is faithful to it: it is in the middle of a
  line, or between two, its list is that of the items before that line (cut at
  the capacity), and after a report the next line is a BEGIN. A client that saw
  only part of a BEGIN, or was asked to clear its list, claims nothing until the
  next one. Over a new connection a rest of the old one may be in the buffer, and
  then a request is still to be sent, which empties the list and records in `left` the
  host such a rest begins. Until the BEGIN of the answer has been handled the client
  is `Joining`: its list is empty, and the buffer begins at most the host in `left`.
  If the rest swallows that BEGIN, the items of the report follow it nevertheless,
  after that host or after nothing.
  What `Received` computes for a number of pieces is defined by recursion; lemma
  `Recursion` proves that such a function exists and each piece keeps the client
  faithful.
* `HintsAreCurrent`, `RecordIsExact`, from `NetAssumption` (the texts of addresses
  are no markers, a ring of at least one, a positive bound on the time between
  polls): `NetInv` has the place of every sample of the ring, what the extremes
  are of, and the accounts of the times in ticks; that the whole seconds shown fall
  short of them by less than one is arithmetic of `\div` (`WholeSeconds`).
* `ListsAreFaithful`, from `BtAssumption` (lists of at least one): `BtInv` says of
  each list, entry by entry, which of the events heard it is. While a list has
  dropped nothing, the i-th entry is the device whose first time is the i-th,
  so a rank among first times is part of it.

Facts about every natural number (a queue, a recursive function, a batch of
events) are proved without an induction rule, from a least counterexample: the
lemma `Least`, which rests on the well-foundedness of `<`.

## What is only model-checked, and what is not modelled

Liveness is beyond the proof system used, so `RoundEnds`, `FetchEnds`,
`QueueDrains` and both `StopReturns` stay with TLC. So do the two violations,
which are counterexamples. `Inv` of the proof modules is not a property of the
runs: proving it inductive says more.

Left out on purpose: drawing (but for the comparison of snapshots) and sound; the
parsing of packet, HTTP and JSON texts down to characters; floating point averages
and percentiles; the sockets inside a single TCP or ICMP probe and the query
packets; `index.json`, which nothing reads; the scroll positions of the ALERTS,
NFC, AP and EXPORTS screens; build and deploy scripts. The NFC and AP scanners are
not modelled: their hardware calls are stubs in the same files that always fail
(`nfc_scanner.c:19-23`, `wifi_scanner.c:20-21`), so no step past their first early
return can be reached in this build.

## Plan

Done: the modules of all components listed as modelled or partly modelled, and
proofs of all safety properties, of `ScanRounds` by the scanner and of `AlertLog` by
the ring.

What is left, in this order:

1. The filter and sort of `build_scan_view` and the port parsing of
   `parse_location_url`, against reference definitions.
2. The proofs share lemmas (`Least`, `%` below twice a number) that each module
   states for itself; a module of their own would hold them once.
3. `AppLoop` over `LanScanner` itself on a small instance, beside the proof that
   the scanner implements `ScanRounds`.
