------------------------------ MODULE Exports ------------------------------
(***************************************************************************)
(* Snapshots of the host list: written to files (export_json.c), read back *)
(* into a list (export_viewer.c), of which the EXPORTS screen selects one, *)
(* pins one as the baseline and shows what changed (main.c:369-375,        *)
(* 569-580, 646-693 and render.c:619-678).                                 *)
(*                                                                         *)
(* Faults: the program is killed between two writes, or elsewhere, and     *)
(* starts again; an open, a write or a read fails.  Files stay.            *)
(*                                                                         *)
(* Abstractions.  The time of a snapshot, which names its file, is the     *)
(* process time: it begins at 0 in every session; two files never share a  *)
(* microsecond.  The directory (external) lists its entries in any order.  *)
(* The 4095 bytes that are read hold the header and ReadMax hosts.  Of a   *)
(* host its address is kept; a record cut in two is no address for the     *)
(* reader.  index.json, which nothing reads, exports_scroll, which moves   *)
(* nothing else, and the subnet and count shown are left out.              *)
(***************************************************************************)
EXTENDS Integers, Sequences, FiniteSets, SequencesExt

CONSTANTS Hosts,
          Scans,    \* host lists of the scanner: sequences of hosts, none twice
          None,
          MaxFiles, \* EXPORT_VIEWER_MAX_FILES (64)
          ReadMax,  \* hosts within sizeof(buf) - 1 bytes of a file
          MaxTime,  \* bound: the clock
          DiskMax,  \* bound: files written
          BrokenMax \* bound: files left by an error or a crash

ASSUME ExportsAssumption ==
  /\ Scans \subseteq Seq(Hosts)
  /\ MaxFiles \in Nat \ {0} /\ ReadMax \in Nat /\ MaxTime \in Nat
  /\ DiskMax \in Nat /\ BrokenMax \in Nat

VARIABLES
  disk,      \* the files: name (a time), timestamp in the header, hosts
  clock,     \* sceKernelGetProcessTimeWide at the last snapshot
  screen,    \* "exports", or "other"
  prev_screen, \* the screen the last frame had after the triggers and SQUARE
  exports,   \* export_viewer.exports
  selected,  \* exports_selected
  compare,   \* exports_compare_index
  saved,     \* history: the files reported as saved, with the hosts scanned
  faithful,  \* history: the last reload met no error
  pinned     \* history: the entry announced as pinned, if any; without its
             \* name once a snapshot saved on the screen loads the list again

vars == <<disk, clock, screen, prev_screen, exports, selected, compare,
          saved, faithful, pinned>>

Init == /\ disk = {} /\ clock = 0 /\ screen = "other" /\ prev_screen = "other"
        /\ exports = <<>> /\ selected = 0 /\ compare = -1
        /\ saved = {} /\ faithful = FALSE /\ pinned = {}

-----------------------------------------------------------------------------
(* export_json_write_snapshot: what it returns, and the file it leaves.    *)
File(name, stamp, hosts) == [name |-> name, stamp |-> stamp, hosts |-> hosts]

Times == {t \in clock + 1 .. MaxTime : \A file \in disk : file.name # t}

\* What an error or a crash leaves: no file, one whose header is cut before
\* the timestamp or within its digits, or one with some of the hosts.
Remains(time, scan) ==
  {{}} \union
  IF Cardinality(disk) - Cardinality(saved) >= BrokenMax THEN {}
    ELSE {{File(time, stamp, <<>>)} : stamp \in 0 .. time \div 2}
           \union {{File(time, time, hosts)} : hosts \in Prefixes(scan)}

Outcome(ok, files) == [ok |-> ok, files |-> files]
Outcomes_Unchecked(time, scan) ==                               \* mutant
  {Outcome(TRUE, {File(time, time, hosts)}) : hosts \in Prefixes(scan)}
    \union {Outcome(FALSE, files) : files \in Remains(time, scan)}
Outcomes(time, scan) ==
  {Outcome(TRUE, {File(time, time, scan)})}
    \union {Outcome(FALSE, files) : files \in Remains(time, scan)}

Snapshot(time, scan, outcome) ==
  /\ clock' = time
  /\ disk' = disk \union outcome.files
  /\ saved' = saved \union (IF outcome.ok THEN {[name |-> time, hosts |-> scan]} ELSE {})

-----------------------------------------------------------------------------
(* export_viewer_reload: the lists it can give, the newest first, with one *)
(* fault at most (bound): the directory cannot be opened; reading it fails *)
(* midway, which ends the loop with some of the files; a file cannot be    *)
(* read, and has neither timestamp nor hosts.                              *)
FirstOf(sequence, n) == SubSeq(sequence, 1, IF Len(sequence) < n THEN Len(sequence) ELSE n)

Summary(file, unread) ==
  IF file \in unread THEN File(file.name, 0, <<>>)
                     ELSE [file EXCEPT !.hosts = FirstOf(@, ReadMax)]

Enumerated(files) == {some \in SUBSET files : Cardinality(some) <= MaxFiles}
Complete(some, files) == some = files \/ Cardinality(some) = MaxFiles

Sorted(list) == \A i, j \in 1 .. Len(list) : i < j => list[i].stamp >= list[j].stamp

Load(list, ok) == [list |-> list, ok |-> ok]
Listings(some, unread, ok) ==
  {Load(list, ok) :
    list \in {l \in SetToSeqs({Summary(file, unread) : file \in some}) : Sorted(l)}}
Loads(files) ==
  {Load(<<>>, FALSE)} \union
  (UNION {Listings(some, {}, Complete(some, files)) : some \in Enumerated(files)}) \union
  (UNION {UNION {Listings(some, {file}, FALSE) : file \in some} :
          some \in {whole \in Enumerated(files) : Complete(whole, files)}})

-----------------------------------------------------------------------------
(* draw_exports_screen.                                                    *)
BaselineShown ==
  /\ screen = "exports"
  /\ selected < Len(exports)
  /\ compare \in 0 .. Len(exports) - 1 /\ compare # selected

Selected == exports[selected + 1]
Baseline == exports[compare + 1]

Has_First(entry, host) == entry.hosts # <<>> /\ host = Head(entry.hosts)   \* mutant
Has(entry, host) == \E i \in 1 .. Len(entry.hosts) : entry.hosts[i] = host

Lacks(entry, other) == {host \in Hosts : Has(other, host) /\ ~Has(entry, host)}
Added == Lacks(Baseline, Selected)
Removed == Lacks(Selected, Baseline)

-----------------------------------------------------------------------------
(* main: a frame on the screen.  One that enters it, from the triggers or  *)
(* SQUARE or because SETTINGS opened it in the frame before, loads the     *)
(* list first; then the buttons are handled in the order of the code and   *)
(* the indices are clamped last.                                           *)
Arriving == prev_screen # "exports"
Listed == IF Arriving THEN Loads(disk) ELSE {Load(exports, faithful)}

\* UP with DOWN move nothing, and CIRCLE undoes CROSS.
Presses == {pressed \in SUBSET {"up", "down", "cross", "circle"} :
              ~({"up", "down"} \subseteq pressed) /\ ~({"cross", "circle"} \subseteq pressed)}

Clamped(index, list) == IF index < 0 \/ list = <<>> THEN 0
                        ELSE IF index >= Len(list) THEN Len(list) - 1 ELSE index

Moved(buttons) == (IF Arriving THEN 0 ELSE selected)
                    - (IF "up" \in buttons THEN 1 ELSE 0)
                    + (IF "down" \in buttons THEN 1 ELSE 0)

\* CROSS pins the index before it is clamped; CIRCLE comes after it.
Crossing(buttons, list) == "cross" \in buttons /\ list # <<>>
Compared(buttons, list) ==
  LET crossed == IF Crossing(buttons, list) THEN Moved(buttons)
                 ELSE IF Arriving THEN -1 ELSE compare
      circled == IF "circle" \in buttons THEN -1 ELSE crossed
  IN IF circled >= Len(list) THEN -1 ELSE circled

\* The entry the alert of CROSS names, if the index points to one.
Announced(buttons, list) ==
  {[name |-> list[i].name, stamp |-> list[i].stamp] :
     i \in {Moved(buttons) + 1} \intersect DOMAIN list}

\* The frame with the list that was loaded, by TRIANGLE or before.
Buttons(buttons, load, again) ==
  /\ screen' = "exports" /\ prev_screen' = "exports"
  /\ exports' = load.list /\ faithful' = load.ok
  /\ selected' = Clamped(Moved(buttons), load.list)
  /\ compare' = Compared(buttons, load.list)
  /\ pinned' = IF compare' < 0 THEN {}
               ELSE IF Crossing(buttons, load.list) THEN Announced(buttons, load.list)
               ELSE IF again THEN {[pin EXCEPT !.name = None] : pin \in pinned}
               ELSE pinned

Frame ==
  /\ \E load \in Listed, buttons \in Presses :
       Buttons(buttons, load, FALSE)
  /\ UNCHANGED <<disk, clock, saved>>

Reloads_Always(ok) == TRUE                                      \* mutant
Reloads(ok) == ok

\* TRIANGLE, possibly with other buttons.
FrameSaves ==
  /\ Cardinality(disk) < DiskMax
  /\ \E time \in Times, scan \in Scans : \E outcome \in Outcomes(time, scan) :
     \E load \in IF Reloads(outcome.ok) THEN Loads(disk \union outcome.files) ELSE Listed :
     \E buttons \in Presses :
       /\ Snapshot(time, scan, outcome)
       /\ Buttons(buttons, load, outcome.ok)

(* SETTINGS: a snapshot; the EXPORTS screen, which this frame draws with   *)
(* the list as it was left.                                                *)
SettingsSaves ==
  /\ screen = "other" /\ Cardinality(disk) < DiskMax
  /\ \E time \in Times, scan \in Scans : \E outcome \in Outcomes(time, scan) :
       Snapshot(time, scan, outcome)
  /\ UNCHANGED <<screen, prev_screen, exports, selected, compare, faithful, pinned>>

SettingsOpens ==
  /\ screen = "other"
  /\ screen' = "exports"
  /\ UNCHANGED <<disk, clock, prev_screen, exports, selected, compare, saved, faithful, pinned>>

Leave == /\ screen = "exports"
         /\ screen' = "other" /\ prev_screen' = "other"
         /\ UNCHANGED <<disk, clock, exports, selected, compare, saved, faithful, pinned>>

\* Killed, while a snapshot is written or not, and started again.
Restart ==
  /\ \/ UNCHANGED disk
     \/ /\ Cardinality(disk) < DiskMax
        /\ \E time \in Times, scan \in Scans : \E files \in Remains(time, scan) :
             disk' = disk \union files
  /\ clock' = 0 /\ screen' = "other" /\ prev_screen' = "other"
  /\ exports' = <<>> /\ selected' = 0 /\ compare' = -1
  /\ faithful' = FALSE /\ pinned' = {}
  /\ UNCHANGED saved

Next == Frame \/ FrameSaves \/ SettingsSaves \/ SettingsOpens \/ Leave \/ Restart

Spec == Init /\ [][Next]_vars

-----------------------------------------------------------------------------
Files == [name : Nat, stamp : Nat, hosts : Seq(Hosts)]

TypeOK ==
  /\ disk \in SUBSET Files /\ IsFiniteSet(disk)
  /\ clock \in 0 .. MaxTime /\ screen \in {"exports", "other"}
  /\ prev_screen \in {"exports", "other"}
  /\ exports \in Seq(Files) /\ Len(exports) <= MaxFiles
  /\ selected \in 0 .. MaxFiles - 1 /\ compare \in -1 .. MaxFiles - 1
  /\ saved \in SUBSET [name : Nat, hosts : Seq(Hosts)] /\ faithful \in BOOLEAN
  /\ pinned \in SUBSET [name : Nat \union {None}, stamp : Nat]

(* Every snapshot that was reported as saved, in this session or before a  *)
(* crash, is in the list drawn when it was loaded without an error and the *)
(* files are no more than it holds, with the hosts that were scanned, or   *)
(* as many as the buffer holds; failed snapshots beside it change nothing. *)
(* The one frame in which SETTINGS opened the screen is excepted: it draws *)
(* the list of an earlier visit (main.c:369-375, 581-583, 704;             *)
(* export_json.c:57-79, export_viewer.c:90-121).                           *)
SavedIsListed ==
  /\ screen = "exports" /\ prev_screen = "exports"
  /\ faithful /\ Cardinality(disk) <= MaxFiles
  => \A s \in saved : \E i \in 1 .. Len(exports) :
       exports[i].name = s.name /\ exports[i].hosts = FirstOf(s.hosts, ReadMax)

(* The difference shown is the one between the two scans, when both were   *)
(* saved and fit into the buffer, however the files were listed and        *)
(* sorted, also in the frame that draws the list of an earlier visit       *)
(* (render.c:575-667, export_viewer.c:111-118).                            *)
DeltaExact ==
  BaselineShown /\ faithful =>
    \A s, b \in saved :
      /\ s.name = Selected.name /\ b.name = Baseline.name
      /\ Len(s.hosts) <= ReadMax /\ Len(b.hosts) <= ReadMax
      => /\ Added = ToSet(s.hosts) \ ToSet(b.hosts)
         /\ Removed = ToSet(b.hosts) \ ToSet(s.hosts)

(* The baseline that is compared with was announced by the alert of CROSS, *)
(* though the index is taken before the clamps: it is the entry named,     *)
(* until a snapshot saved on this screen shifts the list below the index;  *)
(* and then it is never an older one, however many were saved, listed in   *)
(* part or not read in between, once the list is whole (main.c:663-693).   *)
BaselineNotOlder ==
  compare >= 0 =>
    /\ pinned # {}
    /\ \A pin \in pinned :
         /\ pin.name \in {None, Baseline.name}
         /\ faithful /\ Cardinality(disk) <= MaxFiles => Baseline.stamp >= pin.stamp
=============================================================================
