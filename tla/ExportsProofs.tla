--------------------------- MODULE ExportsProofs ---------------------------
(***************************************************************************)
(* Proofs about Exports, for any host lists, any number of files, every    *)
(* size of the list and of the buffer.                                     *)
(***************************************************************************)
EXTENDS Exports, FiniteSetTheorems, SequenceTheorems, TLAPS

(***************************************************************************)
(* What is on the disk: no two files have a name, and every snapshot that  *)
(* was reported as saved is there, whole.                                  *)
(***************************************************************************)
Distinct(files) == \A f, g \in files : f.name = g.name => f = g
NamesAreDistinct == Distinct(disk)
SavedIsWhole == \A s \in saved : File(s.name, s.name, s.hosts) \in disk

(***************************************************************************)
(* What is in the list, loaded with an error or not: entries of different  *)
(* files, in order, none newer than its file; without an error the files   *)
(* as the buffer holds them.  Both indices point into it.                  *)
(***************************************************************************)
Read(file) == [file EXCEPT !.hosts = FirstOf(@, ReadMax)]

From(list, files) == \A i \in 1..Len(list) : \E file \in files : list[i] = Read(file)
Covers(list, files) == \A file \in files : \E i \in 1..Len(list) : list[i] = Read(file)

OfFiles(list, files) ==
  /\ \A i, j \in 1..Len(list) : list[i].name = list[j].name => i = j
  /\ \A i \in 1..Len(list) : \E file \in files :
       file.name = list[i].name /\ file.stamp >= list[i].stamp

ListedFromDisk == Sorted(exports) /\ OfFiles(exports, disk)
WholeFromDisk == faithful => From(exports, disk)

IndicesInList == /\ selected = 0 \/ selected < Len(exports)
                 /\ compare < Len(exports)

(***************************************************************************)
(* What is pinned: the disk has more files at least as new as the baseline *)
(* announced than there are entries above the index.                       *)
(***************************************************************************)
AsNew(files, stamp) == {file \in files : file.stamp >= stamp}
Backed(pins, index, files) ==
  \A pin \in pins : index < Cardinality(AsNew(files, pin.stamp))
PinIsBacked == compare >= 0 => Backed(pinned, compare, disk)

Inv == /\ TypeOK /\ NamesAreDistinct /\ SavedIsWhole /\ ListedFromDisk /\ WholeFromDisk
       /\ IndicesInList /\ SavedIsListed /\ PinIsBacked /\ BaselineNotOlder
       /\ prev_screen = "exports" => screen = "exports"

-----------------------------------------------------------------------------
(* What the buffer holds of a file is a file, and all of a short one.      *)
LEMMA FirstOfType ==
  ASSUME NEW s \in Seq(Hosts), NEW n \in Nat
  PROVE  /\ FirstOf(s, n) \in Seq(Hosts)
         /\ Len(s) <= n => FirstOf(s, n) = s
<1>1. Len(s) \in Nat /\ \A i \in 1..Len(s) : s[i] \in Hosts
  BY ElementOfSeq
<1> DEFINE m == IF Len(s) < n THEN Len(s) ELSE n
<1>2. m \in Int /\ m <= Len(s)
  BY <1>1
<1>3. FirstOf(s, n) = SubSeq(s, 1, m)
  BY DEF FirstOf
<1>4. FirstOf(s, n) \in Seq(Hosts)
  <2> HIDE DEF m
  <2>1. \A i \in 1..m : s[i] \in Hosts
    BY <1>1, <1>2
  <2> QED BY <1>2, <1>3, <2>1, SubSeqProperties
<1>5. ASSUME Len(s) <= n PROVE FirstOf(s, n) = s
  <2>1. m = Len(s)
    BY <1>1, <1>5
  <2> QED BY <1>3, <2>1, SubSeqFull
<1> QED BY <1>4, <1>5

LEMMA PrefixType ==
  ASSUME NEW s \in Seq(Hosts), NEW p \in Prefixes(s)
  PROVE  p \in Seq(Hosts)
<1>1. Len(s) \in Nat /\ \A i \in 1..Len(s) : s[i] \in Hosts
  BY ElementOfSeq
<1>2. PICK l \in 0..Len(s) : p = SubSeq(s, 1, l)
  BY DEF Prefixes
<1>3. l \in Int /\ \A i \in 1..l : s[i] \in Hosts
  BY <1>1
<1> QED BY <1>2, <1>3, SubSeqProperties

LEMMA ReadType ==
  ASSUME NEW file \in Files
  PROVE  /\ Read(file) \in Files /\ Read(file).name = file.name
         /\ Read(file).hosts = FirstOf(file.hosts, ReadMax)
<1>1. file.hosts \in Seq(Hosts)
  BY DEF Files
<1>2. FirstOf(file.hosts, ReadMax) \in Seq(Hosts)
  BY <1>1, FirstOfType, ExportsAssumption
<1> QED BY <1>2 DEF Read, Files

(* SetToSeqs: every arrangement of a finite set has each of its elements.  *)
LEMMA Arrangement ==
  ASSUME NEW S, IsFiniteSet(S), NEW l \in SetToSeqs(S)
  PROVE  /\ l \in Seq(S) /\ Len(l) = Cardinality(S)
         /\ \A x \in S : \E i \in 1..Len(l) : l[i] = x
         /\ \A i, j \in 1..Len(l) : l[i] = l[j] => i = j
<1>1. Cardinality(S) \in Nat
  BY FS_CardinalityType
<1> DEFINE D == 1..Cardinality(S)
<1>2. l \in [D -> S] /\ \A i, j \in D : i # j => l[i] # l[j]
  BY DEF SetToSeqs
<1>3. l \in Seq(S) /\ Len(l) = Cardinality(S)
  BY <1>1, <1>2
<1>4. IsFiniteSet(D) /\ Cardinality(D) = Cardinality(S)
  <2> PICK n \in Nat : n = Cardinality(S)
    BY <1>1
  <2>1. IsFiniteSet(1..n) /\ Cardinality(1..n) = n
    BY FS_Interval
  <2> QED BY <2>1
<1>5. l \in Injection(D, S)
  BY <1>2, Zenon DEF Injection, IsInjective
<1>6. l \in Surjection(D, S)
  <2> HIDE DEF D
  <2> QED BY <1>4, <1>5, FS_Injection
<1>7. \A x \in S : \E i \in D : l[i] = x
  BY <1>6 DEF Surjection
<1> QED BY <1>2, <1>3, <1>7

-----------------------------------------------------------------------------
(* export_viewer_reload: what the list it leaves has to do with the files. *)
Tells(load, files) ==
  /\ load.list \in Seq(Files) /\ Len(load.list) <= MaxFiles
  /\ load.ok \in BOOLEAN
  /\ Sorted(load.list) /\ OfFiles(load.list, files)
  /\ load.ok => From(load.list, files)
  /\ load.ok /\ Cardinality(files) <= MaxFiles => Covers(load.list, files)

LEMMA EmptyList == /\ <<>> \in Seq(Files) /\ Len(<<>>) <= MaxFiles
                   /\ Sorted(<<>>) /\ \A files : OfFiles(<<>>, files)
<1>1. Len(<<>>) = 0 /\ <<>> \in Seq(Files) /\ 1..0 = {}
  OBVIOUS
<1>2. Len(<<>>) <= MaxFiles
  BY ExportsAssumption
<1>3. Sorted(<<>>)
  BY <1>1 DEF Sorted
<1>4. \A files : OfFiles(<<>>, files)
  BY <1>1 DEF OfFiles
<1> QED BY <1>1, <1>2, <1>3, <1>4

(* The entry of a file, which could be read or not.                        *)
LEMMA SummaryType ==
  ASSUME NEW file \in Files, NEW unread
  PROVE  /\ Summary(file, unread) \in Files /\ Summary(file, unread).name = file.name
         /\ file.stamp >= Summary(file, unread).stamp
         /\ file \notin unread => Summary(file, unread) = Read(file)
<1>1. /\ Read(file) \in Files /\ Read(file).name = file.name
      /\ Read(file).stamp = file.stamp /\ file.stamp \in Nat /\ file.name \in Nat
  BY ReadType DEF Read, Files
<1>2. /\ File(file.name, 0, <<>>) \in Files /\ File(file.name, 0, <<>>).name = file.name
      /\ File(file.name, 0, <<>>).stamp = 0
  BY <1>1 DEF File, Files
<1>3. CASE file \in unread
  <2>1. Summary(file, unread) = File(file.name, 0, <<>>)
    BY <1>3 DEF Summary
  <2> QED BY <1>1, <1>2, <1>3, <2>1
<1>4. CASE file \notin unread
  <2>1. Summary(file, unread) = Read(file)
    BY <1>4 DEF Summary, Read
  <2> QED BY <1>1, <1>4, <2>1
<1> QED BY <1>3, <1>4

(* One listing, whole or cut short, with the files it could not read.      *)
LEMMA ListingFrom ==
  ASSUME NEW files \in SUBSET Files, IsFiniteSet(files), Distinct(files),
         NEW some \in Enumerated(files), NEW unread, NEW ok \in BOOLEAN,
         ok => unread = {} /\ Complete(some, files),
         NEW load \in Listings(some, unread, ok)
  PROVE  Tells(load, files)
<1> DEFINE S == {Summary(file, unread) : file \in some}
           f == [file \in some |-> Summary(file, unread)]
<1>1. PICK list \in SetToSeqs(S) : Sorted(list) /\ load = Load(list, ok)
  BY DEF Listings
<1>2. load.list = list /\ load.ok = ok
  BY <1>1 DEF Load
<1>3. some \subseteq files /\ Cardinality(some) <= MaxFiles
  BY DEF Enumerated
<1>4. IsFiniteSet(some) /\ Cardinality(some) \in Nat
  BY <1>3, FS_Subset, FS_CardinalityType
<1>5. f \in Surjection(some, S)
  BY Zenon DEF Surjection
<1>6. IsFiniteSet(S) /\ Cardinality(S) <= Cardinality(some)
  <2> HIDE DEF f, S
  <2> QED BY <1>4, <1>5, FS_Surjection
<1>7. /\ list \in Seq(S) /\ Len(list) = Cardinality(S)
      /\ \A x \in S : \E i \in 1..Len(list) : list[i] = x
      /\ \A i, j \in 1..Len(list) : list[i] = list[j] => i = j
  <2> HIDE DEF f, S
  <2> QED BY <1>1, <1>6, Arrangement
<1>8. Len(list) <= MaxFiles
  <2>1. Cardinality(S) \in Nat
    <3> HIDE DEF S
    <3> QED BY <1>6, FS_CardinalityType
  <2> HIDE DEF S
  <2> QED BY <1>3, <1>4, <1>6, <1>7, <2>1, ExportsAssumption
<1>9. \A file \in some : /\ Summary(file, unread) \in Files
                         /\ Summary(file, unread).name = file.name
                         /\ file.stamp >= Summary(file, unread).stamp
                         /\ file \notin unread => Summary(file, unread) = Read(file)
  BY <1>3, SummaryType
<1>10. list \in Seq(Files)
  <2>1. S \subseteq Files
    BY <1>9
  <2>2. Len(list) \in Nat /\ list \in [1..Len(list) -> S]
    <3> HIDE DEF S, f
    <3> QED BY <1>7, LenProperties
  <2>3. list \in [1..Len(list) -> Files]
    <3> HIDE DEF S, f
    <3> QED BY <2>1, <2>2
  <2> QED BY <2>2, <2>3, SeqDef
<1>11. \A i \in 1..Len(list) : \E file \in some : list[i] = Summary(file, unread)
  <2> TAKE i \in 1..Len(list)
  <2>1. list[i] \in S
    <3> HIDE DEF S, f
    <3> QED BY <1>7, ElementOfSeq
  <2> QED BY <2>1
<1>12. OfFiles(list, files)
  <2>1. ASSUME NEW i \in 1..Len(list), NEW j \in 1..Len(list), list[i].name = list[j].name
        PROVE  i = j
    <3>1. PICK file \in some : list[i] = Summary(file, unread)
      BY <1>11
    <3>2. PICK other \in some : list[j] = Summary(other, unread)
      BY <1>11
    <3>3. file.name = other.name
      BY <1>9, <2>1, <3>1, <3>2
    <3>4. file = other
      BY <1>3, <3>3 DEF Distinct
    <3> QED BY <1>7, <3>1, <3>2, <3>4
  <2>2. ASSUME NEW i \in 1..Len(list)
        PROVE  \E file \in files : file.name = list[i].name /\ file.stamp >= list[i].stamp
    <3>1. PICK file \in some : list[i] = Summary(file, unread)
      BY <1>11
    <3> QED BY <1>3, <1>9, <3>1
  <2> QED BY <2>1, <2>2 DEF OfFiles
<1>13. ASSUME ok PROVE From(list, files)
  <2> SUFFICES ASSUME NEW i \in 1..Len(list) PROVE \E file \in files : list[i] = Read(file)
    BY DEF From
  <2>1. PICK file \in some : list[i] = Summary(file, unread)
    BY <1>11
  <2> QED BY <1>3, <1>9, <1>13, <2>1
<1>14. ASSUME ok, Cardinality(files) <= MaxFiles PROVE Covers(list, files)
  <2>1. some = files
    <3>1. Cardinality(files) \in Nat /\ Cardinality(some) <= Cardinality(files)
      BY <1>3, FS_CardinalityType, FS_Subset
    <3>2. some = files \/ Cardinality(some) = MaxFiles
      BY <1>14 DEF Complete
    <3>3. CASE Cardinality(some) = MaxFiles
      <4>1. Cardinality(some) = Cardinality(files)
        BY <1>4, <1>14, <3>1, <3>3, ExportsAssumption
      <4> QED BY <1>3, <4>1, FS_Subset
    <3> QED BY <3>2, <3>3
  <2> SUFFICES ASSUME NEW file \in files PROVE \E i \in 1..Len(list) : list[i] = Read(file)
    BY DEF Covers
  <2>2. Read(file) \in S
    BY <1>9, <1>14, <2>1
  <2> HIDE DEF S, f
  <2> QED BY <1>7, <2>2
<1> QED BY <1>1, <1>2, <1>8, <1>10, <1>12, <1>13, <1>14, Zenon DEF Tells

LEMMA LoadFrom ==
  ASSUME NEW files \in SUBSET Files, IsFiniteSet(files), Distinct(files),
         NEW load \in Loads(files)
  PROVE  Tells(load, files)
<1>1. CASE load = Load(<<>>, FALSE)
  <2>1. load.list = <<>> /\ load.ok = FALSE
    BY <1>1 DEF Load
  <2> QED BY <2>1, EmptyList, Zenon DEF Tells
<1>2. ASSUME NEW some \in Enumerated(files),
             load \in Listings(some, {}, Complete(some, files))
      PROVE  Tells(load, files)
  <2>1. Complete(some, files) \in BOOLEAN
    BY DEF Complete
  <2> DEFINE ok == Complete(some, files)
  <2>2. ok \in BOOLEAN /\ (ok => {} = {} /\ Complete(some, files))
    BY <2>1
  <2>3. load \in Listings(some, {}, ok)
    BY <1>2
  <2> HIDE DEF ok
  <2> QED BY <2>2, <2>3, ListingFrom
<1>3. ASSUME NEW some \in Enumerated(files), NEW file \in some,
             load \in Listings(some, {file}, FALSE)
      PROVE  Tells(load, files)
  BY <1>3, ListingFrom
<1>4. \/ load = Load(<<>>, FALSE)
      \/ \E some \in Enumerated(files) : load \in Listings(some, {}, Complete(some, files))
      \/ \E some \in Enumerated(files) : \E file \in some : load \in Listings(some, {file}, FALSE)
  <2> DEFINE whole == {some \in Enumerated(files) : Complete(some, files)}
             L1 == {Listings(some, {}, Complete(some, files)) : some \in Enumerated(files)}
             Of(some) == UNION {Listings(some, {file}, FALSE) : file \in some}
             L2 == {Of(some) : some \in whole}
  <2>1. load = Load(<<>>, FALSE) \/ load \in (UNION L1) \/ load \in (UNION L2)
    <3>1. Loads(files) = {Load(<<>>, FALSE)} \union (UNION L1) \union (UNION L2)
      BY DEF Loads
    <3> HIDE DEF L1, L2
    <3> QED BY <3>1
  <2>2. CASE load \in UNION L1
    BY <2>2
  <2>3. CASE load \in UNION L2
    <3>1. PICK some \in whole : load \in Of(some)
      BY <2>3
    <3> QED BY <3>1
  <2> QED BY <2>1, <2>2, <2>3
<1> QED BY <1>1, <1>2, <1>3, <1>4
-----------------------------------------------------------------------------
(* export_json_write_snapshot: one file at most, of the time it was called.*)
LEMMA Written ==
  ASSUME TypeOK, NEW time \in Times, NEW scan \in Scans, NEW files,
         files \in Remains(time, scan) \/ files = {File(time, time, scan)}
  PROVE  /\ files \in SUBSET Files /\ IsFiniteSet(files)
         /\ \A file, other \in files : file = other
         /\ \A file \in files : file.name = time
<1>1. time \in Nat /\ time \in 0..MaxTime /\ scan \in Seq(Hosts)
  BY ExportsAssumption DEF TypeOK, Times
<1>2. \/ files = {}
      \/ \E stamp \in Nat, hosts \in Seq(Hosts) : files = {File(time, stamp, hosts)}
  <2>1. CASE files = {File(time, time, scan)}
    BY <1>1, <2>1
  <2>2. CASE \E stamp \in 0..time \div 2 : files = {File(time, stamp, <<>>)}
    <3>1. <<>> \in Seq(Hosts) /\ 0..time \div 2 \subseteq Nat
      BY <1>1
    <3> QED BY <2>2, <3>1
  <2>3. CASE \E hosts \in Prefixes(scan) : files = {File(time, time, hosts)}
    BY <1>1, <2>3, PrefixType
  <2>4. \/ files = {} \/ files = {File(time, time, scan)}
        \/ \E stamp \in 0..time \div 2 : files = {File(time, stamp, <<>>)}
        \/ \E hosts \in Prefixes(scan) : files = {File(time, time, hosts)}
    <3>1. CASE Cardinality(disk) - Cardinality(saved) >= BrokenMax
      BY <3>1 DEF Remains
    <3>2. CASE ~(Cardinality(disk) - Cardinality(saved) >= BrokenMax)
      BY <3>2 DEF Remains
    <3> QED BY <3>1, <3>2
  <2> QED BY <2>1, <2>2, <2>3, <2>4
<1>3. CASE files = {}
  BY <1>3, FS_EmptySet
<1>4. ASSUME NEW stamp \in Nat, NEW hosts \in Seq(Hosts), files = {File(time, stamp, hosts)}
      PROVE  /\ files \in SUBSET Files /\ IsFiniteSet(files)
             /\ \A file, other \in files : file = other
             /\ \A file \in files : file.name = time
  <2>1. IsFiniteSet(files)
    BY <1>4, FS_Singleton
  <2>2. File(time, stamp, hosts) \in Files /\ File(time, stamp, hosts).name = time
    BY <1>1 DEF File, Files
  <2> QED BY <1>4, <2>1, <2>2
<1> QED BY <1>2, <1>3, <1>4

LEMMA DiskGrows ==
  ASSUME TypeOK, NamesAreDistinct, NEW time \in Times, NEW scan \in Scans, NEW files,
         files \in Remains(time, scan) \/ files = {File(time, time, scan)},
         disk' = disk \union files
  PROVE  /\ disk' \in SUBSET Files /\ IsFiniteSet(disk')
         /\ Cardinality(disk') \in Nat /\ Cardinality(disk) \in Nat
         /\ Cardinality(disk) <= Cardinality(disk')
         /\ NamesAreDistinct'
<1>1. /\ files \in SUBSET Files /\ IsFiniteSet(files)
      /\ \A file, other \in files : file = other
      /\ \A file \in files : file.name = time
  BY Written
<1>2. disk \in SUBSET Files /\ IsFiniteSet(disk)
  BY DEF TypeOK
<1>3. IsFiniteSet(disk \union files)
  BY <1>1, <1>2, FS_Union
<1>4. /\ Cardinality(disk \union files) \in Nat /\ Cardinality(disk) \in Nat
      /\ Cardinality(disk) <= Cardinality(disk \union files)
  BY <1>2, <1>3, FS_CardinalityType, FS_Subset
<1>5. NamesAreDistinct'
  <2>1. \A file \in disk : file.name # time
    BY DEF Times
  <2>2. \A f, g \in disk \union files : f.name = g.name => f = g
    BY <1>1, <2>1 DEF NamesAreDistinct, Distinct
  <2> QED BY <2>2 DEF NamesAreDistinct, Distinct
<1> QED BY <1>1, <1>2, <1>3, <1>4, <1>5

(* A snapshot keeps the ledger of the disk, and reports only what is whole.*)
LEMMA SnapshotStep ==
  ASSUME TypeOK, NamesAreDistinct, SavedIsWhole,
         NEW time \in Times, NEW scan \in Scans, NEW outcome \in Outcomes(time, scan),
         Snapshot(time, scan, outcome)
  PROVE  /\ disk' = disk \union outcome.files
         /\ disk' \in SUBSET Files /\ IsFiniteSet(disk')
         /\ Cardinality(disk') \in Nat /\ Cardinality(disk) \in Nat
         /\ Cardinality(disk) <= Cardinality(disk')
         /\ clock' \in 0..MaxTime
         /\ saved' \in SUBSET [name : Nat, hosts : Seq(Hosts)]
         /\ NamesAreDistinct' /\ SavedIsWhole'
         /\ outcome.ok \in BOOLEAN /\ (outcome.ok = FALSE => saved' = saved)
<1>1. /\ outcome.ok \in BOOLEAN
      /\ outcome.ok = TRUE => outcome.files = {File(time, time, scan)}
      /\ outcome.files \in Remains(time, scan) \/ outcome.files = {File(time, time, scan)}
  <2>1. \/ outcome = Outcome(TRUE, {File(time, time, scan)})
        \/ \E files \in Remains(time, scan) : outcome = Outcome(FALSE, files)
    BY DEF Outcomes
  <2>2. CASE outcome = Outcome(TRUE, {File(time, time, scan)})
    BY <2>2 DEF Outcome
  <2>3. ASSUME NEW files \in Remains(time, scan), outcome = Outcome(FALSE, files)
        PROVE  outcome.ok = FALSE /\ outcome.files = files
    BY <2>3 DEF Outcome
  <2> QED BY <2>1, <2>2, <2>3
<1>2. disk' = disk \union outcome.files
  BY DEF Snapshot
<1>3. /\ disk' \in SUBSET Files /\ IsFiniteSet(disk')
      /\ Cardinality(disk') \in Nat /\ Cardinality(disk) \in Nat
      /\ Cardinality(disk) <= Cardinality(disk') /\ NamesAreDistinct'
  BY <1>1, <1>2, DiskGrows
<1>4. time \in Nat /\ time \in 0..MaxTime /\ clock' = time /\ scan \in Seq(Hosts)
  BY ExportsAssumption DEF TypeOK, Times, Snapshot
<1>5. CASE outcome.ok = TRUE
  <2>1. saved' = saved \union {[name |-> time, hosts |-> scan]}
    BY <1>5 DEF Snapshot
  <2>2. File(time, time, scan) \in disk'
    BY <1>1, <1>2, <1>5
  <2>3. SavedIsWhole'
    <3>1. \A s \in saved' : File(s.name, s.name, s.hosts) \in disk'
      BY <1>2, <2>1, <2>2 DEF SavedIsWhole
    <3> QED BY <3>1 DEF SavedIsWhole
  <2>4. saved' \in SUBSET [name : Nat, hosts : Seq(Hosts)]
    BY <1>4, <2>1 DEF TypeOK
  <2> QED BY <1>1, <1>2, <1>3, <1>4, <1>5, <2>3, <2>4
<1>6. CASE outcome.ok = FALSE
  <2>1. saved' = saved
    BY <1>6 DEF Snapshot
  <2>2. SavedIsWhole'
    BY <1>2, <2>1 DEF SavedIsWhole
  <2>3. saved' \in SUBSET [name : Nat, hosts : Seq(Hosts)]
    BY <2>1 DEF TypeOK
  <2> QED BY <1>1, <1>2, <1>3, <1>4, <2>1, <2>2, <2>3
<1> QED BY <1>1, <1>5, <1>6

(***************************************************************************)
(* Counting.  An entry of a list that is in order has as many files at     *)
(* least as new as it as there are entries up to it; and in a list of all  *)
(* files, where that many are as new as a timestamp, so is the entry.      *)
(***************************************************************************)
LEMMA EntryIsBacked ==
  ASSUME NEW files \in SUBSET Files, IsFiniteSet(files), NEW list \in Seq(Files),
         Sorted(list), OfFiles(list, files), NEW i \in 1..Len(list)
  PROVE  i <= Cardinality(AsNew(files, list[i].stamp))
<1>1. Len(list) \in Nat /\ \A k \in 1..Len(list) : list[k] \in Files
  BY ElementOfSeq
<1> DEFINE stamp == list[i].stamp
           new == AsNew(files, stamp)
<1>2. i \in Nat /\ stamp \in Nat /\ \A k \in 1..i : k \in 1..Len(list)
  BY <1>1 DEF Files
<1>3. \A k \in 1..i : list[k].stamp \in Nat /\ list[k].stamp >= stamp
  <2> TAKE k \in 1..i
  <2>1. list[k].stamp \in Nat
    BY <1>1, <1>2 DEF Files
  <2>2. CASE k < i
    BY <1>2, <2>1, <2>2 DEF Sorted
  <2>3. CASE k = i
    BY <1>2, <2>3
  <2> QED BY <1>2, <2>1, <2>2, <2>3
<1>4. \A k \in 1..i : \E file \in new : file.name = list[k].name
  <2> TAKE k \in 1..i
  <2>1. PICK file \in files : file.name = list[k].name /\ file.stamp >= list[k].stamp
    BY <1>2 DEF OfFiles
  <2>2. file.stamp \in Nat
    BY DEF Files
  <2>3. file.stamp >= stamp
    <3> HIDE DEF stamp
    <3> QED BY <1>2, <1>3, <2>1, <2>2
  <2> QED BY <2>1, <2>3 DEF AsNew
<1> DEFINE f == [k \in 1..i |-> CHOOSE file \in new : file.name = list[k].name]
<1>5. \A k \in 1..i : f[k] \in new /\ f[k].name = list[k].name
  <2> HIDE DEF new
  <2> QED BY <1>4
<1>6. \A k, l \in 1..i : f[k] = f[l] => k = l
  <2> HIDE DEF f
  <2> QED BY <1>2, <1>5 DEF OfFiles
<1>7. f \in Injection(1..i, new)
  <2>1. f \in [1..i -> new]
    BY <1>5
  <2> HIDE DEF f, new
  <2> QED BY <1>6, <2>1, Zenon DEF Injection, IsInjective
<1>8. IsFiniteSet(new)
  BY FS_Subset DEF AsNew
<1>9. Cardinality(1..i) = i
  BY <1>2, FS_Interval
<1>10. Cardinality(1..i) <= Cardinality(new)
  <2> HIDE DEF f, new
  <2> QED BY <1>7, <1>8, FS_Injection
<1> QED BY <1>9, <1>10

LEMMA EntryIsAsNew ==
  ASSUME NEW files \in SUBSET Files, IsFiniteSet(files), Distinct(files),
         NEW list \in Seq(Files), Sorted(list), Covers(list, files),
         NEW c \in Nat, c < Len(list), NEW stamp \in Nat,
         c < Cardinality(AsNew(files, stamp))
  PROVE  list[c + 1].stamp >= stamp
<1>1. Len(list) \in Nat /\ \A k \in 1..Len(list) : list[k] \in Files
  BY ElementOfSeq
<1>2. c + 1 \in 1..Len(list)
  BY <1>1
<1> SUFFICES ASSUME ~(list[c + 1].stamp >= stamp) PROVE FALSE
  OBVIOUS
<1> DEFINE new == AsNew(files, stamp)
<1>3. \A k \in 1..Len(list) : list[k].stamp \in Nat
  BY <1>1 DEF Files
<1>4. \A k \in 1..Len(list) : list[k].stamp >= stamp => k \in 1..c
  <2> SUFFICES ASSUME NEW k \in 1..Len(list), list[k].stamp >= stamp, k > c
               PROVE  FALSE
    BY <1>1
  <2>1. CASE k = c + 1
    BY <2>1
  <2>2. CASE k > c + 1
    <3>1. list[c + 1].stamp >= list[k].stamp
      BY <1>2, <2>2 DEF Sorted
    <3>2. list[c + 1].stamp \in Nat /\ list[k].stamp \in Nat
      BY <1>2, <1>3
    <3> QED BY <3>1, <3>2
  <2> QED BY <1>1, <2>1, <2>2
<1>5. \A file \in new : \E k \in 1..c : list[k] = Read(file)
  <2> TAKE file \in new
  <2>1. file \in files /\ file.stamp >= stamp
    BY DEF AsNew
  <2>2. PICK k \in 1..Len(list) : list[k] = Read(file)
    BY <2>1 DEF Covers
  <2>3. Read(file).stamp = file.stamp
    BY <2>1 DEF Read, Files
  <2> QED BY <1>4, <2>1, <2>2, <2>3
<1> DEFINE g == [file \in new |-> CHOOSE k \in 1..c : list[k] = Read(file)]
<1>6. \A file \in new : g[file] \in 1..c /\ list[g[file]] = Read(file)
  <2> HIDE DEF new
  <2> QED BY <1>5
<1>7. \A file, other \in new : g[file] = g[other] => file = other
  <2> TAKE file, other \in new
  <2> HAVE g[file] = g[other]
  <2>1. Read(file) = Read(other)
    <3> HIDE DEF g, new
    <3> QED BY <1>6
  <2>2. file \in files /\ other \in files
    BY DEF AsNew
  <2>3. file.name = other.name
    BY <2>1, <2>2, ReadType
  <2> QED BY <2>2, <2>3 DEF Distinct
<1>8. g \in Injection(new, 1..c)
  <2>1. g \in [new -> 1..c]
    BY <1>6
  <2> HIDE DEF g, new
  <2> QED BY <1>7, <2>1, Zenon DEF Injection, IsInjective
<1>9. IsFiniteSet(1..c) /\ Cardinality(1..c) = c
  BY FS_Interval
<1>10. Cardinality(new) <= Cardinality(1..c) /\ IsFiniteSet(new)
  <2> HIDE DEF g, new
  <2> QED BY <1>8, <1>9, FS_Injection
<1>11. Cardinality(new) \in Nat
  <2> HIDE DEF new
  <2> QED BY <1>10, FS_CardinalityType
<1> QED BY <1>9, <1>10, <1>11

LEMMA BackedStays ==
  ASSUME NEW files, NEW more \in SUBSET Files, IsFiniteSet(more), files \subseteq more,
         NEW stamp, NEW c \in Int, c < Cardinality(AsNew(files, stamp))
  PROVE  c < Cardinality(AsNew(more, stamp))
<1>1. AsNew(files, stamp) \subseteq AsNew(more, stamp) /\ AsNew(more, stamp) \subseteq more
  BY DEF AsNew
<1>2. IsFiniteSet(AsNew(more, stamp))
  BY <1>1, FS_Subset
<1>3. /\ Cardinality(AsNew(files, stamp)) <= Cardinality(AsNew(more, stamp))
      /\ Cardinality(AsNew(files, stamp)) \in Nat /\ Cardinality(AsNew(more, stamp)) \in Nat
  BY <1>1, <1>2, FS_Subset, FS_CardinalityType
<1> QED BY <1>3

-----------------------------------------------------------------------------
(* A list that was just loaded has every snapshot that was saved.          *)
Lists(list, snapshots) ==
  \A s \in snapshots : \E i \in 1..Len(list) :
    list[i].name = s.name /\ list[i].hosts = FirstOf(s.hosts, ReadMax)

LEMMA LoadedIsListed ==
  ASSUME NEW files \in SUBSET Files, NEW list, NEW snapshots,
         \A s \in snapshots : File(s.name, s.name, s.hosts) \in files,
         Covers(list, files)
  PROVE  Lists(list, snapshots)
<1> SUFFICES ASSUME NEW s \in snapshots
             PROVE  \E i \in 1..Len(list) :
                      list[i].name = s.name /\ list[i].hosts = FirstOf(s.hosts, ReadMax)
  BY DEF Lists
<1> DEFINE file == File(s.name, s.name, s.hosts)
<1>1. file \in files /\ file \in Files
  OBVIOUS
<1>2. file.name = s.name /\ file.hosts = s.hosts
  BY DEF File
<1> HIDE DEF file
<1>3. PICK i \in 1..Len(list) : list[i] = Read(file)
  BY <1>1 DEF Covers
<1>4. Read(file).name = s.name /\ Read(file).hosts = FirstOf(s.hosts, ReadMax)
  BY <1>1, <1>2, ReadType
<1> QED BY <1>3, <1>4

LEMMA Start == Init => Inv
<1> SUFFICES ASSUME Init PROVE Inv
  OBVIOUS
<1>1. IsFiniteSet(disk)
  BY FS_EmptySet DEF Init
<1>2. TypeOK
  <2>1. 0 \in 0..MaxTime /\ 0 \in 0..MaxFiles - 1 /\ -1 \in -1..MaxFiles - 1
    BY ExportsAssumption
  <2> QED BY <1>1, <2>1, EmptyList DEF Init, TypeOK
<1>3. ListedFromDisk
  BY EmptyList DEF Init, ListedFromDisk
<1>4. IndicesInList /\ PinIsBacked /\ BaselineNotOlder
  BY DEF Init, IndicesInList, PinIsBacked, BaselineNotOlder
<1> QED BY <1>2, <1>3, <1>4 DEF Init, Inv, NamesAreDistinct, Distinct, SavedIsWhole, WholeFromDisk,
                               SavedIsListed

(***************************************************************************)
(* A frame shows the list of the frame before, the one it loaded when it   *)
(* entered the screen, or the one loaded after a snapshot.                 *)
(***************************************************************************)
IsKept(load, again) == ~Arriving /\ again = FALSE /\ load = Load(exports, faithful)
IsEntered(load) == Arriving /\ Tells(load, disk)
IsLoaded(load, again, files) == again = TRUE /\ Tells(load, files)

LEMMA FrameIndices ==
  ASSUME TypeOK, NEW load, load.list \in Seq(Files), Len(load.list) <= MaxFiles,
         NEW again, NEW buttons, Buttons(buttons, load, again)
  PROVE  /\ selected' \in 0..MaxFiles - 1 /\ (selected' = 0 \/ selected' < Len(load.list))
         /\ compare' \in -1..MaxFiles - 1 /\ compare' < Len(load.list)
         /\ compare' >= 0 => \/ /\ Crossing(buttons, load.list)
                                /\ compare' = Moved(buttons) /\ compare' + 1 \in 1..Len(load.list)
                             \/ /\ ~Crossing(buttons, load.list)
                                /\ ~Arriving /\ compare' = compare
<1> PICK list \in Seq(Files) : list = load.list
  OBVIOUS
<1>1. Len(list) \in Nat /\ Len(list) <= MaxFiles /\ (list # <<>> => Len(list) > 0)
  OBVIOUS
<1>2. selected \in 0..MaxFiles - 1 /\ compare \in -1..MaxFiles - 1 /\ MaxFiles \in Nat \ {0}
  BY ExportsAssumption DEF TypeOK
<1>3. Moved(buttons) \in Int /\ Moved(buttons) >= -1
  BY <1>2 DEF Moved
<1>4. selected' = Clamped(Moved(buttons), list) /\ compare' = Compared(buttons, list)
  BY DEF Buttons
<1>5. /\ selected' \in 0..MaxFiles - 1
      /\ selected' = 0 \/ selected' < Len(list)
  <2> PICK m \in Int : m = Moved(buttons)
    BY <1>3
  <2> QED BY <1>1, <1>2, <1>4 DEF Clamped
<1>6. /\ compare' \in Int /\ compare' >= -1 /\ compare' < Len(list)
      /\ compare' >= 0 => \/ Crossing(buttons, list) /\ compare' = Moved(buttons)
                          \/ ~Crossing(buttons, list) /\ ~Arriving /\ compare' = compare
  <2> PICK m \in Int : m = Moved(buttons)
    BY <1>3
  <2>1. CASE Crossing(buttons, list)
    BY <1>1, <1>2, <1>3, <1>4, <2>1 DEF Compared
  <2>2. CASE ~Crossing(buttons, list)
    BY <1>1, <1>2, <1>3, <1>4, <2>2 DEF Compared
  <2> QED BY <2>1, <2>2
<1>7. compare' \in -1..MaxFiles - 1
  BY <1>1, <1>2, <1>6
<1>8. ASSUME compare' >= 0 PROVE compare' + 1 \in 1..Len(list)
  <2>1. PICK c \in Int : c = compare'
    BY <1>6
  <2>2. PICK n \in Nat : n = Len(list)
    BY <1>1
  <2>3. c >= 0 /\ c < n
    BY <1>6, <1>8, <2>1, <2>2
  <2>4. c + 1 \in 1..n
    BY <2>3
  <2> QED BY <2>1, <2>2, <2>4
<1> QED BY <1>5, <1>6, <1>7, <1>8

(* What is pinned after a frame is the entry announced in it, or before.   *)
LEMMA FramePins ==
  ASSUME TypeOK, NEW load, load.list \in Seq(Files), Len(load.list) <= MaxFiles,
         NEW again \in BOOLEAN, NEW buttons, Buttons(buttons, load, again)
  PROVE  /\ pinned' \in SUBSET [name : Nat \union {None}, stamp : Nat]
         /\ compare' >= 0 /\ Crossing(buttons, load.list) =>
              pinned' = {[name |-> load.list[compare' + 1].name,
                          stamp |-> load.list[compare' + 1].stamp]}
         /\ compare' >= 0 /\ ~Crossing(buttons, load.list) =>
              IF again THEN pinned' = {[name |-> None, stamp |-> pin.stamp] : pin \in pinned}
                       ELSE pinned' = pinned
<1> PICK list \in Seq(Files) : list = load.list
  OBVIOUS
<1>1. DOMAIN list = 1..Len(list) /\ \A i \in 1..Len(list) : list[i] \in Files
  BY ElementOfSeq, LenProperties
<1>2. \A i \in 1..Len(list) : list[i].name \in Nat /\ list[i].stamp \in Nat
  BY <1>1 DEF Files
<1>3. pinned \in SUBSET [name : Nat \union {None}, stamp : Nat]
  BY DEF TypeOK
<1>4. Announced(buttons, list) \in SUBSET [name : Nat \union {None}, stamp : Nat]
  BY <1>1, <1>2 DEF Announced
<1> DEFINE renamed == {[pin EXCEPT !.name = None] : pin \in pinned}
<1>5. /\ renamed = {[name |-> None, stamp |-> pin.stamp] : pin \in pinned}
      /\ renamed \in SUBSET [name : Nat \union {None}, stamp : Nat]
  <2>1. \A pin \in pinned : /\ [pin EXCEPT !.name = None] = [name |-> None, stamp |-> pin.stamp]
                            /\ pin.stamp \in Nat
    BY <1>3
  <2> QED BY <2>1
<1>6. pinned' = IF compare' < 0 THEN {}
                ELSE IF Crossing(buttons, list) THEN Announced(buttons, list)
                ELSE IF again THEN renamed ELSE pinned
  BY DEF Buttons
<1>7. pinned' \in SUBSET [name : Nat \union {None}, stamp : Nat]
  <2> HIDE DEF renamed
  <2> QED BY <1>3, <1>4, <1>5, <1>6
<1>8. compare' \in Int
  BY FrameIndices
<1>9. ASSUME compare' >= 0, Crossing(buttons, list)
      PROVE  pinned' = {[name |-> list[compare' + 1].name, stamp |-> list[compare' + 1].stamp]}
  <2>1. compare' = Moved(buttons) /\ compare' + 1 \in 1..Len(list)
    BY <1>9, FrameIndices
  <2>2. pinned' = Announced(buttons, list)
    BY <1>6, <1>8, <1>9
  <2>3. {Moved(buttons) + 1} \intersect DOMAIN list = {compare' + 1}
    BY <1>1, <2>1
  <2> QED BY <2>2, <2>3 DEF Announced
<1>10. ASSUME compare' >= 0, ~Crossing(buttons, list)
       PROVE  IF again THEN pinned' = {[name |-> None, stamp |-> pin.stamp] : pin \in pinned}
                       ELSE pinned' = pinned
  <2> HIDE DEF renamed
  <2> QED BY <1>5, <1>6, <1>8, <1>10
<1> QED BY <1>7, <1>9, <1>10

LEMMA FrameKeeps ==
  ASSUME Inv, NEW load, NEW again \in BOOLEAN, NEW buttons, Buttons(buttons, load, again),
         disk' \in SUBSET Files, IsFiniteSet(disk'), disk \subseteq disk',
         NamesAreDistinct', SavedIsWhole',
         clock' \in 0..MaxTime, saved' \in SUBSET [name : Nat, hosts : Seq(Hosts)],
         \/ IsKept(load, again) /\ saved' = saved
         \/ IsEntered(load) /\ saved' = saved
         \/ IsLoaded(load, again, disk')
  PROVE  Inv'
<1>1. /\ screen' = "exports" /\ prev_screen' = "exports"
      /\ exports' = load.list /\ faithful' = load.ok
  BY DEF Buttons
<1>2. /\ Cardinality(disk) \in Nat /\ Cardinality(disk') \in Nat
      /\ Cardinality(disk) <= Cardinality(disk')
  BY FS_CardinalityType, FS_Subset
<1>3. ASSUME IsKept(load, again)
      PROVE  load.list = exports /\ load.ok = faithful /\ again = FALSE /\ ~Arriving
  BY <1>3 DEF IsKept, Load
<1>4. /\ load.list \in Seq(Files) /\ Len(load.list) <= MaxFiles /\ load.ok \in BOOLEAN
      /\ Sorted(load.list) /\ OfFiles(load.list, disk')
      /\ load.ok => From(load.list, disk')
  <2>1. CASE IsKept(load, again)
    <3>1. exports \in Seq(Files) /\ Len(exports) <= MaxFiles /\ faithful \in BOOLEAN
      BY DEF Inv, TypeOK
    <3>2. Sorted(exports) /\ OfFiles(exports, disk')
      BY DEF Inv, ListedFromDisk, OfFiles
    <3>3. faithful => From(exports, disk')
      BY DEF Inv, WholeFromDisk, From
    <3> QED BY <1>3, <2>1, <3>1, <3>2, <3>3, Zenon
  <2>2. CASE IsLoaded(load, again, disk')
    BY <2>2, Zenon DEF IsLoaded, Tells
  <2>3. CASE IsEntered(load)
    <3>1. Tells(load, disk)
      BY <2>3 DEF IsEntered
    <3>2. /\ load.list \in Seq(Files) /\ Len(load.list) <= MaxFiles /\ load.ok \in BOOLEAN
          /\ Sorted(load.list) /\ OfFiles(load.list, disk)
          /\ load.ok => From(load.list, disk)
      BY <3>1, Zenon DEF Tells
    <3>3. OfFiles(load.list, disk')
      BY <3>2 DEF OfFiles
    <3>4. load.ok => From(load.list, disk')
      BY <3>2 DEF From
    <3> QED BY <3>2, <3>3, <3>4
  <2> QED BY <2>1, <2>2, <2>3
<1> PICK list \in Seq(Files) : list = load.list
  BY <1>4
<1>5. /\ selected' \in 0..MaxFiles - 1 /\ (selected' = 0 \/ selected' < Len(list))
      /\ compare' \in -1..MaxFiles - 1 /\ compare' < Len(list)
      /\ compare' >= 0 => \/ /\ Crossing(buttons, list)
                             /\ compare' = Moved(buttons) /\ compare' + 1 \in 1..Len(list)
                          \/ ~Crossing(buttons, list) /\ ~Arriving /\ compare' = compare
  BY <1>4, FrameIndices DEF Inv
<1>6. /\ pinned' \in SUBSET [name : Nat \union {None}, stamp : Nat]
      /\ compare' >= 0 /\ Crossing(buttons, list) =>
           pinned' = {[name |-> list[compare' + 1].name, stamp |-> list[compare' + 1].stamp]}
      /\ compare' >= 0 /\ ~Crossing(buttons, list) =>
           IF again THEN pinned' = {[name |-> None, stamp |-> pin.stamp] : pin \in pinned}
                    ELSE pinned' = pinned
  BY <1>4, FramePins DEF Inv
<1>7. TypeOK'
  BY <1>1, <1>4, <1>5, <1>6, Zenon DEF TypeOK
<1>8. ListedFromDisk' /\ WholeFromDisk'
  BY <1>1, <1>4, Zenon DEF ListedFromDisk, WholeFromDisk
<1>9. IndicesInList'
  BY <1>1, <1>5 DEF IndicesInList
<1>10. SavedIsListed'
  <2>1. CASE IsKept(load, again) /\ saved' = saved
    <3>1. prev_screen = "exports" /\ screen = "exports" /\ exports' = exports /\ faithful' = faithful
      BY <1>1, <1>3, <2>1 DEF Arriving, Inv
    <3>2. Cardinality(disk') <= MaxFiles => Cardinality(disk) <= MaxFiles
      BY <1>2, ExportsAssumption
    <3>3. SavedIsListed
      BY DEF Inv
    <3> QED BY <2>1, <3>1, <3>2, <3>3, Zenon DEF SavedIsListed
  <2>2. CASE IsLoaded(load, again, disk')
    <3> SUFFICES ASSUME faithful', Cardinality(disk') <= MaxFiles
                 PROVE  Lists(list, saved')
      BY <1>1, Zenon DEF SavedIsListed, Lists
    <3>1. Covers(list, disk')
      BY <1>1, <2>2, Zenon DEF IsLoaded, Tells
    <3>2. \A s \in saved' : File(s.name, s.name, s.hosts) \in disk'
      BY Zenon DEF SavedIsWhole
    <3> PICK files \in SUBSET Files : files = disk'
      OBVIOUS
    <3> PICK snapshots : snapshots = saved'
      OBVIOUS
    <3>3. Covers(list, files)
      BY <3>1
    <3>4. \A s \in snapshots : File(s.name, s.name, s.hosts) \in files
      BY <3>2
    <3>5. Lists(list, snapshots)
      BY <3>3, <3>4, LoadedIsListed
    <3> QED BY <3>5
  <2>3. CASE IsEntered(load) /\ saved' = saved
    <3> SUFFICES ASSUME faithful', Cardinality(disk') <= MaxFiles
                 PROVE  Lists(list, saved)
      BY <1>1, <2>3, Zenon DEF SavedIsListed, Lists
    <3>1. Cardinality(disk) <= MaxFiles
      BY <1>2, ExportsAssumption
    <3>2. Covers(list, disk)
      BY <1>1, <2>3, <3>1, Zenon DEF IsEntered, Tells
    <3>3. disk \in SUBSET Files /\ \A s \in saved : File(s.name, s.name, s.hosts) \in disk
      BY DEF Inv, TypeOK, SavedIsWhole
    <3> QED BY <3>2, <3>3, LoadedIsListed
  <2> QED BY <2>1, <2>2, <2>3
<1>11. ASSUME compare' >= 0, Crossing(buttons, list)
       PROVE  PinIsBacked' /\ BaselineNotOlder'
  <2> PICK c : c = compare'
    OBVIOUS
  <2>1. c \in Int /\ c + 1 \in 1..Len(list)
    BY <1>5, <1>11
  <2> DEFINE stamp == list[c + 1].stamp
  <2>2. pinned' = {[name |-> list[c + 1].name, stamp |-> stamp]}
    BY <1>6, <1>11
  <2> PICK files \in SUBSET Files : files = disk'
    OBVIOUS
  <2>3. c + 1 <= Cardinality(AsNew(files, stamp))
    <3>1. Sorted(list) /\ OfFiles(list, files) /\ IsFiniteSet(files)
      BY <1>4
    <3> QED BY <2>1, <3>1, EntryIsBacked
  <2>4. Cardinality(AsNew(files, stamp)) \in Nat
    <3>1. AsNew(files, stamp) \subseteq files
      BY DEF AsNew
    <3> QED BY <3>1, FS_Subset, FS_CardinalityType
  <2>5. c < Cardinality(AsNew(files, stamp))
    BY <2>1, <2>3, <2>4
  <2>6. \A pin \in pinned' : pin.name = list[c + 1].name /\ pin.stamp = stamp
    BY <2>2
  <2>7. PinIsBacked'
    <3> HIDE DEF stamp
    <3>1. Backed(pinned', c, files)
      BY <2>5, <2>6 DEF Backed
    <3> QED BY <3>1 DEF PinIsBacked
  <2>8. Baseline' = list[c + 1]
    BY <1>1 DEF Baseline
  <2>9. stamp \in Nat
    <3>1. list[c + 1] \in Files
      BY <2>1, ElementOfSeq
    <3> QED BY <3>1 DEF Files
  <2>10. BaselineNotOlder'
    <3>1. pinned' # {}
      BY <2>2
    <3>2. \A pin \in pinned' : /\ pin.name \in {None, Baseline'.name}
                               /\ Baseline'.stamp >= pin.stamp
      BY <2>6, <2>8, <2>9
    <3> QED BY <3>1, <3>2 DEF BaselineNotOlder
  <2> QED BY <2>7, <2>10
<1>12. ASSUME compare' >= 0, ~Crossing(buttons, list)
       PROVE  PinIsBacked' /\ BaselineNotOlder'
  <2>1. ~Arriving /\ compare' = compare /\ compare >= 0
    BY <1>5, <1>12
  <2>2. /\ pinned \in SUBSET [name : Nat \union {None}, stamp : Nat]
        /\ compare \in Int /\ compare >= 0 /\ compare < Len(list)
    BY <1>5, <1>12, <2>1 DEF Inv, TypeOK
  <2>3. \A pin \in pinned : compare < Cardinality(AsNew(disk, pin.stamp))
    BY <2>1 DEF Inv, PinIsBacked, Backed
  <2> PICK files \in SUBSET Files : files = disk'
    OBVIOUS
  <2>4. \A pin \in pinned : compare < Cardinality(AsNew(files, pin.stamp))
    <3> TAKE pin \in pinned
    <3>1. compare < Cardinality(AsNew(disk, pin.stamp)) /\ disk \subseteq files /\ IsFiniteSet(files)
      BY <2>3
    <3> QED BY <2>2, <3>1, BackedStays
  <2>5. pinned # {}
    BY <2>1 DEF Inv, BaselineNotOlder
  <2>6. /\ pinned' # {}
        /\ \A new \in pinned' : \E pin \in pinned : new.stamp = pin.stamp
    <3>1. CASE again = TRUE
      <4>1. pinned' = {[name |-> None, stamp |-> pin.stamp] : pin \in pinned}
        BY <1>6, <1>12, <3>1
      <4>2. PICK pin \in pinned : TRUE
        BY <2>5
      <4>3. [name |-> None, stamp |-> pin.stamp] \in pinned'
        BY <4>1
      <4>4. ASSUME NEW new \in pinned' PROVE \E old \in pinned : new.stamp = old.stamp
        BY <4>1
      <4> QED BY <4>3, <4>4
    <3>2. CASE again = FALSE
      <4>1. pinned' = pinned
        BY <1>6, <1>12, <3>2
      <4> QED BY <2>5, <4>1
    <3> QED BY <3>1, <3>2
  <2>7. PinIsBacked'
    <3>1. Backed(pinned', compare, files)
      BY <2>4, <2>6 DEF Backed
    <3> QED BY <2>1, <3>1 DEF PinIsBacked
  <2>8. Baseline' = list[compare + 1]
    BY <1>1, <2>1 DEF Baseline
  <2>9. CASE IsKept(load, again)
    <3>1. list = exports /\ faithful' = faithful /\ pinned' = pinned /\ compare' = compare
      BY <1>1, <1>3, <1>6, <1>12, <2>1, <2>9
    <3>2. Baseline' = Baseline
      BY <2>8, <3>1 DEF Baseline
    <3>3. Cardinality(disk') <= MaxFiles => Cardinality(disk) <= MaxFiles
      BY <1>2, ExportsAssumption
    <3>4. BaselineNotOlder
      BY DEF Inv
    <3>5. BaselineNotOlder'
      BY <2>1, <2>5, <3>1, <3>2, <3>3, <3>4, Zenon DEF BaselineNotOlder
    <3> QED BY <2>7, <3>5
  <2>10. CASE IsLoaded(load, again, disk')
    <3>1. again = TRUE
      BY <2>1, <2>10 DEF IsLoaded
    <3>2. pinned' = {[name |-> None, stamp |-> pin.stamp] : pin \in pinned}
      BY <1>6, <1>12, <3>1
    <3>3. \A new \in pinned' : new.name = None
      BY <3>2
    <3>4. ASSUME faithful', Cardinality(disk') <= MaxFiles
          PROVE  \A pin \in pinned : list[compare + 1].stamp >= pin.stamp
      <4> TAKE pin \in pinned
      <4>1. pin.stamp \in Nat /\ compare \in Nat
        BY <2>2
      <4>2. Covers(list, files)
        BY <1>1, <2>10, <3>4, Zenon DEF IsLoaded, Tells
      <4>3. Sorted(list) /\ Distinct(files) /\ IsFiniteSet(files)
        BY <1>4 DEF NamesAreDistinct
      <4> QED BY <2>2, <2>4, <4>1, <4>2, <4>3, EntryIsAsNew
    <3>5. ASSUME faithful', Cardinality(disk') <= MaxFiles
          PROVE  \A new \in pinned' : Baseline'.stamp >= new.stamp
      BY <2>6, <2>8, <3>4, <3>5
    <3>6. BaselineNotOlder'
      BY <2>6, <3>3, <3>5 DEF BaselineNotOlder
    <3> QED BY <2>7, <3>6
  <2>11. ~IsEntered(load)
    BY <2>1 DEF IsEntered
  <2> QED BY <2>9, <2>10, <2>11
<1>13. ASSUME ~(compare' >= 0) PROVE PinIsBacked' /\ BaselineNotOlder'
  BY <1>13 DEF PinIsBacked, BaselineNotOlder
<1>14. PinIsBacked' /\ BaselineNotOlder'
  BY <1>11, <1>12, <1>13
<1> QED BY <1>1, <1>7, <1>8, <1>9, <1>10, <1>14 DEF Inv

-----------------------------------------------------------------------------
LEMMA LoadsTell == ASSUME Inv, NEW load \in Loads(disk) PROVE Tells(load, disk)
BY LoadFrom DEF Inv, TypeOK, NamesAreDistinct

LEMMA LoadsTellAfter ==
  ASSUME disk' \in SUBSET Files, IsFiniteSet(disk'), NamesAreDistinct',
         NEW load \in Loads(disk')
  PROVE  Tells(load, disk')
<1> PICK files \in SUBSET Files : files = disk'
  OBVIOUS
<1>1. Distinct(files) /\ IsFiniteSet(files)
  BY DEF NamesAreDistinct
<1>2. Tells(load, files)
  BY <1>1, LoadFrom
<1> QED BY <1>2

LEMMA FrameStep == ASSUME Inv, Frame PROVE Inv'
<1>1. PICK load \in Listed, buttons \in Presses : Buttons(buttons, load, FALSE)
  BY DEF Frame
<1>2. disk' = disk /\ clock' = clock /\ saved' = saved
  BY DEF Frame
<1>3. /\ disk' \in SUBSET Files /\ IsFiniteSet(disk') /\ disk \subseteq disk'
      /\ NamesAreDistinct' /\ SavedIsWhole'
      /\ clock' \in 0..MaxTime /\ saved' \in SUBSET [name : Nat, hosts : Seq(Hosts)]
  BY <1>2 DEF Inv, TypeOK, NamesAreDistinct, SavedIsWhole
<1>4. IsKept(load, FALSE) \/ IsEntered(load)
  <2>1. CASE Arriving
    <3>1. load \in Loads(disk)
      BY <2>1 DEF Listed
    <3> QED BY <2>1, <3>1, LoadsTell DEF IsEntered
  <2>2. CASE ~Arriving
    BY <2>2 DEF Listed, IsKept
  <2> QED BY <2>1, <2>2
<1> DEFINE again == FALSE
<1>5. again \in BOOLEAN
  OBVIOUS
<1> QED BY <1>1, <1>2, <1>3, <1>4, <1>5, FrameKeeps

LEMMA FrameSavesStep == ASSUME Inv, FrameSaves PROVE Inv'
<1>1. PICK time \in Times, scan \in Scans : \E outcome \in Outcomes(time, scan) :
        \E load \in IF Reloads(outcome.ok) THEN Loads(disk \union outcome.files) ELSE Listed :
        \E buttons \in Presses :
          /\ Snapshot(time, scan, outcome)
          /\ Buttons(buttons, load, outcome.ok)
  BY Zenon DEF FrameSaves
<1>2. PICK outcome \in Outcomes(time, scan) :
        \E load \in IF Reloads(outcome.ok) THEN Loads(disk \union outcome.files) ELSE Listed :
        \E buttons \in Presses :
          /\ Snapshot(time, scan, outcome)
          /\ Buttons(buttons, load, outcome.ok)
  BY <1>1, Zenon
<1>3. PICK load \in IF Reloads(outcome.ok) THEN Loads(disk \union outcome.files) ELSE Listed :
        \E buttons \in Presses :
          /\ Snapshot(time, scan, outcome)
          /\ Buttons(buttons, load, outcome.ok)
  BY <1>2, Zenon
<1>4. PICK buttons \in Presses :
        /\ Snapshot(time, scan, outcome)
        /\ Buttons(buttons, load, outcome.ok)
  BY <1>3, Zenon
<1>5. /\ disk' = disk \union outcome.files
      /\ disk' \in SUBSET Files /\ IsFiniteSet(disk')
      /\ Cardinality(disk') \in Nat /\ Cardinality(disk) \in Nat
      /\ Cardinality(disk) <= Cardinality(disk')
      /\ clock' \in 0..MaxTime
      /\ saved' \in SUBSET [name : Nat, hosts : Seq(Hosts)]
      /\ NamesAreDistinct' /\ SavedIsWhole'
      /\ outcome.ok \in BOOLEAN /\ (outcome.ok = FALSE => saved' = saved)
  BY <1>4, SnapshotStep DEF Inv
<1>6. \/ IsKept(load, outcome.ok) /\ saved' = saved
      \/ IsEntered(load) /\ saved' = saved
      \/ IsLoaded(load, outcome.ok, disk')
  <2>1. CASE outcome.ok = TRUE
    <3>1. load \in Loads(disk')
      BY <1>5, <2>1, Zenon DEF Reloads
    <3>2. Tells(load, disk')
      BY <1>5, <3>1, LoadsTellAfter
    <3> QED BY <2>1, <3>2, Zenon DEF IsLoaded
  <2>2. CASE outcome.ok = FALSE
    <3>1. load \in Listed
      BY <2>2, Zenon DEF Reloads
    <3>2. CASE ~Arriving
      BY <1>5, <2>2, <3>1, <3>2 DEF Listed, IsKept
    <3>3. CASE Arriving
      <4>1. load \in Loads(disk)
        BY <3>1, <3>3 DEF Listed
      <4> QED BY <1>5, <2>2, <3>3, <4>1, LoadsTell DEF IsEntered
    <3> QED BY <3>2, <3>3
  <2> QED BY <1>5, <2>1, <2>2
<1>7. disk \subseteq disk'
  BY <1>5
<1> DEFINE again == outcome.ok
<1>8. again \in BOOLEAN /\ Buttons(buttons, load, again)
  BY <1>4, <1>5
<1> QED BY <1>5, <1>6, <1>7, <1>8, FrameKeeps

(* More files change nothing about a list that is not loaded again.        *)
LEMMA DiskGrew ==
  ASSUME Inv, disk' \in SUBSET Files, IsFiniteSet(disk'), disk \subseteq disk',
         exports' = exports, compare' = compare, faithful' = faithful, pinned' = pinned
  PROVE  ListedFromDisk' /\ WholeFromDisk' /\ PinIsBacked' /\ BaselineNotOlder'
<1>1. ListedFromDisk' /\ WholeFromDisk'
  BY DEF Inv, ListedFromDisk, WholeFromDisk, OfFiles, From
<1>2. PinIsBacked'
  <2> SUFFICES ASSUME compare >= 0, NEW pin \in pinned
               PROVE  compare < Cardinality(AsNew(disk', pin.stamp))
    BY DEF PinIsBacked, Backed
  <2>1. compare \in Int /\ compare < Cardinality(AsNew(disk, pin.stamp))
    BY DEF Inv, TypeOK, PinIsBacked, Backed
  <2> PICK files \in SUBSET Files : files = disk'
    OBVIOUS
  <2>2. IsFiniteSet(files) /\ disk \subseteq files
    OBVIOUS
  <2> QED BY <2>1, <2>2, BackedStays
<1>3. Cardinality(disk') <= MaxFiles => Cardinality(disk) <= MaxFiles
  <2>1. /\ Cardinality(disk) \in Nat /\ Cardinality(disk') \in Nat
        /\ Cardinality(disk) <= Cardinality(disk')
    BY FS_CardinalityType, FS_Subset
  <2> QED BY <2>1, ExportsAssumption
<1>4. BaselineNotOlder'
  <2>1. BaselineNotOlder /\ Baseline' = Baseline
    BY DEF Inv, Baseline
  <2> QED BY <1>3, <2>1, Zenon DEF BaselineNotOlder
<1> QED BY <1>1, <1>2, <1>4

LEMMA SettingsSavesStep == ASSUME Inv, SettingsSaves PROVE Inv'
<1>1. PICK time \in Times, scan \in Scans : \E outcome \in Outcomes(time, scan) :
        Snapshot(time, scan, outcome)
  BY DEF SettingsSaves
<1>2. PICK outcome \in Outcomes(time, scan) : Snapshot(time, scan, outcome)
  BY <1>1
<1>3. /\ disk' = disk \union outcome.files
      /\ disk' \in SUBSET Files /\ IsFiniteSet(disk') /\ clock' \in 0..MaxTime
      /\ saved' \in SUBSET [name : Nat, hosts : Seq(Hosts)]
      /\ NamesAreDistinct' /\ SavedIsWhole'
  BY <1>2, SnapshotStep DEF Inv
<1>4. /\ screen = "other" /\ screen' = screen /\ prev_screen' = prev_screen
      /\ exports' = exports /\ selected' = selected
      /\ compare' = compare /\ faithful' = faithful /\ pinned' = pinned
  BY DEF SettingsSaves
<1>5. TypeOK'
  BY <1>3, <1>4 DEF Inv, TypeOK
<1>6. disk \subseteq disk'
  BY <1>3
<1>7. SavedIsListed' /\ IndicesInList'
  BY <1>4 DEF Inv, SavedIsListed, IndicesInList
<1>8. ListedFromDisk' /\ WholeFromDisk' /\ PinIsBacked' /\ BaselineNotOlder'
  BY <1>3, <1>4, <1>6, DiskGrew
<1> QED BY <1>3, <1>4, <1>5, <1>7, <1>8 DEF Inv

LEMMA SettingsOpensStep == ASSUME Inv, SettingsOpens PROVE Inv'
<1>1. /\ screen' = "exports" /\ prev_screen' = prev_screen /\ screen = "other"
      /\ disk' = disk /\ clock' = clock /\ exports' = exports
      /\ selected' = selected /\ compare' = compare /\ saved' = saved
      /\ faithful' = faithful /\ pinned' = pinned
  BY DEF SettingsOpens
<1>2. prev_screen # "exports"
  BY <1>1 DEF Inv
<1>3. TypeOK' /\ NamesAreDistinct' /\ SavedIsWhole'
  BY <1>1 DEF Inv, TypeOK, NamesAreDistinct, SavedIsWhole
<1>4. SavedIsListed'
  BY <1>1, <1>2 DEF SavedIsListed
<1>5. ListedFromDisk' /\ WholeFromDisk' /\ IndicesInList' /\ PinIsBacked' /\ BaselineNotOlder'
  BY <1>1 DEF Inv, ListedFromDisk, WholeFromDisk, IndicesInList, PinIsBacked, BaselineNotOlder,
              Baseline
<1> QED BY <1>1, <1>3, <1>4, <1>5 DEF Inv

LEMMA LeaveStep == ASSUME Inv, Leave PROVE Inv'
<1>1. /\ screen' = "other" /\ prev_screen' = "other"
      /\ disk' = disk /\ clock' = clock /\ exports' = exports
      /\ selected' = selected /\ compare' = compare /\ saved' = saved
      /\ faithful' = faithful /\ pinned' = pinned
  BY DEF Leave
<1>2. TypeOK' /\ NamesAreDistinct' /\ SavedIsWhole'
  BY <1>1 DEF Inv, TypeOK, NamesAreDistinct, SavedIsWhole
<1>3. SavedIsListed'
  BY <1>1 DEF SavedIsListed
<1>4. ListedFromDisk' /\ WholeFromDisk' /\ IndicesInList' /\ PinIsBacked' /\ BaselineNotOlder'
  BY <1>1 DEF Inv, ListedFromDisk, WholeFromDisk, IndicesInList, PinIsBacked, BaselineNotOlder,
              Baseline
<1> QED BY <1>1, <1>2, <1>3, <1>4 DEF Inv

LEMMA RestartStep == ASSUME Inv, Restart PROVE Inv'
<1>1. /\ clock' = 0 /\ screen' = "other" /\ prev_screen' = "other"
      /\ exports' = <<>> /\ selected' = 0
      /\ compare' = -1 /\ faithful' = FALSE /\ pinned' = {} /\ saved' = saved
  BY DEF Restart
<1>2. /\ disk' \in SUBSET Files /\ IsFiniteSet(disk') /\ NamesAreDistinct'
      /\ \A file \in disk : file \in disk'
  <2>1. CASE UNCHANGED disk
    BY <2>1 DEF Inv, TypeOK, NamesAreDistinct
  <2>2. ASSUME NEW time \in Times, NEW scan \in Scans, NEW files \in Remains(time, scan),
               disk' = disk \union files
        PROVE  /\ disk' \in SUBSET Files /\ IsFiniteSet(disk') /\ NamesAreDistinct'
               /\ \A file \in disk : file \in disk'
    BY <2>2, DiskGrows DEF Inv
  <2> QED BY <2>1, <2>2 DEF Restart
<1>3. TypeOK'
  <2>1. 0 \in 0..MaxTime /\ 0 \in 0..MaxFiles - 1 /\ -1 \in -1..MaxFiles - 1
    BY ExportsAssumption
  <2>2. saved \in SUBSET [name : Nat, hosts : Seq(Hosts)]
    BY DEF Inv, TypeOK
  <2> QED BY <1>1, <1>2, <2>1, <2>2, EmptyList DEF TypeOK
<1>4. SavedIsWhole'
  BY <1>1, <1>2 DEF Inv, SavedIsWhole
<1>5. ListedFromDisk'
  BY <1>1, EmptyList DEF ListedFromDisk
<1>6. WholeFromDisk' /\ IndicesInList' /\ SavedIsListed' /\ PinIsBacked' /\ BaselineNotOlder'
  BY <1>1 DEF WholeFromDisk, IndicesInList, SavedIsListed, PinIsBacked, BaselineNotOlder
<1> QED BY <1>1, <1>2, <1>3, <1>4, <1>5, <1>6 DEF Inv

LEMMA Stutter == ASSUME Inv, UNCHANGED vars PROVE Inv'
<1>1. /\ disk' = disk /\ clock' = clock /\ screen' = screen /\ prev_screen' = prev_screen
      /\ exports' = exports
      /\ selected' = selected /\ compare' = compare /\ saved' = saved
      /\ faithful' = faithful /\ pinned' = pinned
  BY DEF vars
<1>2. TypeOK' /\ NamesAreDistinct' /\ SavedIsWhole'
  BY <1>1 DEF Inv, TypeOK, NamesAreDistinct, SavedIsWhole
<1>3. SavedIsListed'
  BY <1>1 DEF Inv, SavedIsListed
<1>4. ListedFromDisk' /\ WholeFromDisk' /\ IndicesInList' /\ PinIsBacked' /\ BaselineNotOlder'
  BY <1>1 DEF Inv, ListedFromDisk, WholeFromDisk, IndicesInList, PinIsBacked, BaselineNotOlder,
              Baseline
<1> QED BY <1>1, <1>2, <1>3, <1>4 DEF Inv

LEMMA InvIsInvariant == Spec => []Inv
<1>1. ASSUME Inv, [Next]_vars PROVE Inv'
  BY <1>1, FrameStep, FrameSavesStep, SettingsSavesStep, SettingsOpensStep, LeaveStep,
     RestartStep, Stutter, Zenon DEF Next
<1> QED BY <1>1, Start, PTL DEF Spec

-----------------------------------------------------------------------------
(* With distinct names, the entry of a saved snapshot has what was scanned.*)
LEMMA EntryOfSaved ==
  ASSUME Inv, faithful, NEW s \in saved, NEW i \in 1..Len(exports),
         exports[i].name = s.name, Len(s.hosts) <= ReadMax
  PROVE  s.hosts \in Seq(Hosts) /\ exports[i].hosts = s.hosts
<1>1. PICK file \in disk : exports[i] = Read(file)
  BY Zenon DEF Inv, WholeFromDisk, From
<1>2. file \in Files /\ s.hosts \in Seq(Hosts)
  BY DEF Inv, TypeOK
<1> DEFINE own == File(s.name, s.name, s.hosts)
<1>3. own \in disk /\ own.name = s.name /\ own.hosts = s.hosts
  BY DEF Inv, SavedIsWhole, File
<1> HIDE DEF own
<1>4. file = own
  BY <1>1, <1>2, <1>3, ReadType DEF Inv, NamesAreDistinct, Distinct
<1>5. exports[i].hosts = FirstOf(s.hosts, ReadMax)
  BY <1>1, <1>2, <1>3, <1>4, ReadType
<1> QED BY <1>2, <1>5, FirstOfType, ExportsAssumption

LEMMA LacksIsDifference ==
  ASSUME NEW one, NEW other, one.hosts \in Seq(Hosts), other.hosts \in Seq(Hosts)
  PROVE  Lacks(one, other) = ToSet(other.hosts) \ ToSet(one.hosts)
<1>1. /\ \A i \in 1..Len(one.hosts) : one.hosts[i] \in Hosts
      /\ \A i \in 1..Len(other.hosts) : other.hosts[i] \in Hosts
  BY ElementOfSeq
<1>2. DOMAIN one.hosts = 1..Len(one.hosts) /\ DOMAIN other.hosts = 1..Len(other.hosts)
  BY LenProperties
<1>3. \A host : Has(one, host) <=> host \in ToSet(one.hosts)
  BY <1>2, Zenon DEF Has, ToSet
<1>4. \A host : Has(other, host) <=> host \in ToSet(other.hosts)
  BY <1>2, Zenon DEF Has, ToSet
<1>5. ToSet(other.hosts) \subseteq Hosts
  BY <1>1, <1>2 DEF ToSet
<1> QED BY <1>3, <1>4, <1>5 DEF Lacks

-----------------------------------------------------------------------------
(* Every variable keeps its range; the list never has more than MaxFiles   *)
(* entries, whatever is on the disk (export_viewer.c:73-98).               *)
THEOREM TypeCorrect == Spec => []TypeOK
<1>1. Inv => TypeOK
  BY DEF Inv
<1> QED BY <1>1, InvIsInvariant, PTL

(* Neither index leaves the list, although it is loaded again below them   *)
(* and CROSS pins before the clamps (main.c:646-693).                      *)
THEOREM IndicesStay == Spec => []IndicesInList
<1>1. Inv => IndicesInList
  BY DEF Inv
<1> QED BY <1>1, InvIsInvariant, PTL

(* Every snapshot reported as saved is in the list, in any session.        *)
THEOREM SavedSnapshotsAreListed == Spec => []SavedIsListed
<1>1. Inv => SavedIsListed
  BY DEF Inv
<1> QED BY <1>1, InvIsInvariant, PTL

(* The difference shown of two saved scans that fit the buffer is theirs.  *)
THEOREM DifferenceIsExact == Spec => []DeltaExact
<1>1. ASSUME Inv PROVE DeltaExact
  <2> SUFFICES ASSUME BaselineShown, faithful, NEW s \in saved, NEW b \in saved,
                      s.name = Selected.name, b.name = Baseline.name,
                      Len(s.hosts) <= ReadMax, Len(b.hosts) <= ReadMax
               PROVE  /\ Added = ToSet(s.hosts) \ ToSet(b.hosts)
                      /\ Removed = ToSet(b.hosts) \ ToSet(s.hosts)
    BY DEF DeltaExact
  <2>1. /\ selected + 1 \in 1..Len(exports) /\ compare + 1 \in 1..Len(exports)
    <3>1. selected \in Nat /\ Len(exports) \in Nat
      BY <1>1, ExportsAssumption DEF Inv, TypeOK
    <3> QED BY <3>1 DEF BaselineShown
  <2>2. s.hosts \in Seq(Hosts) /\ Selected.hosts = s.hosts
    BY <1>1, <2>1, EntryOfSaved DEF Selected
  <2>3. b.hosts \in Seq(Hosts) /\ Baseline.hosts = b.hosts
    BY <1>1, <2>1, EntryOfSaved DEF Baseline
  <2>4. Added = ToSet(s.hosts) \ ToSet(b.hosts)
    BY <2>2, <2>3, LacksIsDifference DEF Added
  <2>5. Removed = ToSet(b.hosts) \ ToSet(s.hosts)
    BY <2>2, <2>3, LacksIsDifference DEF Removed
  <2> QED BY <2>4, <2>5
<1> QED BY <1>1, InvIsInvariant, PTL

(* The baseline compared with was announced, and is the entry named or, in *)
(* a whole list loaded after a snapshot, one that is not older.            *)
THEOREM BaselineIsNotOlder == Spec => []BaselineNotOlder
<1>1. Inv => BaselineNotOlder
  BY DEF Inv
<1> QED BY <1>1, InvIsInvariant, PTL
=============================================================================
