--------------------------- MODULE LibraryProofs ----------------------------
(***************************************************************************)
(* What is proved of the scan of the music folders (Scan) and of the       *)
(* SQLite file with its imports, its search and its statistics (Library).  *)
(*                                                                         *)
(* Library is extended. The scan is the instance of MCScan, with constants *)
(* and variables of its own. They are not composed - a theorem speaks of   *)
(* one specification - and the assumption on the constants of each is a    *)
(* hypothesis of its theorems.                                             *)
(*                                                                         *)
(* Each part goes the same way: the inductive invariant, the lemmas about  *)
(* the operators the specification is built from, a lemma for each step,   *)
(* the theorems.                                                           *)
(***************************************************************************)
EXTENDS Library, MCScan, FiniteSetTheorems, SequenceTheorems, WellFoundedInduction, NaturalsInduction, TLAPS

---------------------------------------------------------------------------
\* Numbers have a smallest one: every induction below is by a smallest
\* counterexample.
LEMMA Smallest ==
  ASSUME NEW T, T \subseteq Nat, T # {}
  PROVE  \E x \in T : \A y \in T : x <= y
<1>1. PICK x \in T : \A y \in T : ~(<<y, x>> \in OpToRel(<, Nat))
  BY NatLessThanWellFounded, WFMin
<1>2. \A y \in T : ~(y < x)
  BY <1>1 DEF OpToRel
<1> QED BY <1>2

---------------------------------------------------------------------------
(* The scan: what the catalog, the disk and each scanning process know of  *)
(* each other, honest of any scan, and exact of one that nobody disturbs.  *)

ReadTracks == {Scans!ReadTrack(c) : c \in Scans!Contents} \ {Scans!None}

File == [content : Scans!Contents, stamp : Nat \ {0}]

ScanRow == [track : ReadTracks, stamp : Nat, at : Nat \ {0}]

ScanLooking == {"walk", "read"}

Finding == [track : ReadTracks \cup {Scans!None}, stamp : Nat]

Stamps == UNION {[D -> Nat] : D \in SUBSET Scans!Files}
Findings == UNION {[D -> Finding] : D \in SUBSET Scans!Files}

Scanning ==
  [pc : {"idle", "ask", "stamps", "walk", "read", "replace"}, last : Nat, known : Stamps,
   todo : SUBSET (Scans!Dirs \cup Scans!Files), seen : {0, 1}, file : Scans!Files \cup {Scans!None}, stamp : Nat,
   found : Findings]

Types ==
  /\ music \in [Scans!Files -> {Scans!NoFile} \cup File]
  /\ dirTime \in [Scans!Dirs -> Nat] /\ closed \in SUBSET Scans!Dirs
  /\ clock \in Nat \ {0} /\ changes \in Nat
  /\ catalog \in [Scans!Files -> {Scans!NoRow} \cup ScanRow]
  /\ scan \in [Scanners -> Scanning]
  /\ quiet \in [Scanners -> BOOLEAN] /\ unseen \in BOOLEAN /\ edited \in SUBSET Scans!Files

\* A stamp that was the file's at some time: it is not a stamp to come.
Recorded(file, time, stamp) ==
  IF file = Scans!NoFile THEN stamp < time ELSE stamp <= file.stamp

\* What was read under a stamp is what the file holds while it has that stamp.
Honest(file, time, row) ==
  /\ Recorded(file, time, row.stamp)
  /\ file # Scans!NoFile /\ file.stamp = row.stamp => row.track = Scans!ReadTrack(file.content)

\* A stamp under which the file could be read.
StillReadable(file, time, stamp) ==
  /\ Recorded(file, time, stamp)
  /\ file # Scans!NoFile /\ file.stamp = stamp => Scans!ReadTrack(file.content) # Scans!None

StampsArePast ==
  \A f \in Scans!Files : /\ music[f] # Scans!NoFile => music[f].stamp <= clock
                         /\ catalog[f] # Scans!NoRow => catalog[f].at <= clock

CatalogIsHonest == \A f \in Scans!Rows(catalog) : Honest(music[f], clock, catalog[f])

HonestScan(s, fs, time) ==
  /\ \A f \in DOMAIN s.known : StillReadable(fs[f], time, s.known[f])
  /\ s.pc \in ScanLooking => \A f \in DOMAIN s.found :
       IF s.found[f].track = Scans!None THEN StillReadable(fs[f], time, s.found[f].stamp)
       ELSE Honest(fs[f], time, s.found[f])
  /\ s.pc = "read" => s.file \in Scans!Files /\ Recorded(fs[s.file], time, s.stamp)
  /\ s.pc = "replace" => \A f \in DOMAIN s.found :
       s.found[f].track # Scans!None /\ Honest(fs[f], time, s.found[f])

ScansAreHonest == \A p \in Scanners : HonestScan(scan[p], music, clock)

\* The directories a walk may come to at all, and the files that count.
Below == Scans!Walked(Roots, {})
Within == {f \in AudioFiles : DirOf[f] \in Below}

WithinRoots(s) ==
  /\ s.todo \cap Scans!Dirs \subseteq Below
  /\ \A f \in s.todo \cap Scans!Files : DirOf[f] \in Below
  /\ s.pc = "read" => s.file \in Within
  /\ DOMAIN s.found \subseteq Within
  /\ s.pc \in {"idle", "ask", "stamps"} => DOMAIN s.found = {}

AllWithinRoots == Scans!Rows(catalog) \subseteq Within /\ \A p \in Scanners : WithinRoots(scan[p])

\* The disk has not changed since the scan began.
Steady(p) == quiet[p] \/ ~unseen

Here == {f \in Scans!Files : music[f] # Scans!NoFile /\ DirOf[f] \in Scans!Reachable}

Matches(f) == f \in Scans!Rows(catalog) /\ catalog[f].stamp = music[f].stamp

\* What is left of the walk: below every directory seen to, everything is seen
\* to or still to be.
Accounts(s, done) ==
  /\ Roots \subseteq done \cup s.todo
  /\ \A d \in done \ closed :
       /\ Scans!Subdirs(d) \subseteq done \cup s.todo
       /\ \A f \in Scans!Under(d) \cap AudioFiles :
            \/ f \in s.todo \/ (s.pc = "read" /\ s.file = f)
            \/ f \in DOMAIN s.found \/ Scans!ReadTrack(music[f].content) = Scans!None
  /\ ~unseen => done \cap closed = {}

WalkIsTrue(s) ==
  /\ \E done \in SUBSET Scans!Dirs : Accounts(s, done)
  /\ s.todo \cap Scans!Dirs \subseteq Scans!Walked(Roots, closed)
  /\ s.todo \cap Scans!Files \subseteq Here
  /\ s.pc = "read" => s.file \in Here /\ s.stamp = music[s.file].stamp
  /\ \A f \in DOMAIN s.found :
       /\ f \in Scans!Mirror /\ s.found[f].stamp = music[f].stamp
       /\ s.found[f].track = Scans!None => Matches(f)
  /\ \A f \in DOMAIN s.known \cap Scans!Mirror : s.known[f] = music[f].stamp => Matches(f)

FoundIsMirror(s) ==
  /\ DOMAIN s.found = Scans!Mirror
  /\ \A f \in Scans!Mirror : s.found[f].stamp = music[f].stamp
  /\ ~unseen => Scans!Walked(Roots, closed) \cap closed = {}

SteadyScans ==
  \A p \in Scanners : Steady(p) =>
    /\ scan[p].pc \in ScanLooking => WalkIsTrue(scan[p])
    /\ scan[p].pc = "replace" => FoundIsMirror(scan[p])

\* When nothing escaped a scan, a directory no newer than the catalog has in it
\* what the catalog says, but for the files changed in place.
NothingEscaped ==
  /\ \A p \in Scanners : scan[p].pc = "ask" /\ quiet[p] => scan[p].last = Scans!LastScannedAt
  /\ ~unseen =>
       \A f \in Within \ edited :
         dirTime[DirOf[f]] <= Scans!LastScannedAt =>
           (f \in Scans!Rows(catalog) <=> music[f] # Scans!NoFile /\ Scans!ReadTrack(music[f].content) # Scans!None)

ScanInv ==
  /\ Scans!ScanAssumption /\ Types /\ StampsArePast /\ CatalogIsHonest /\ ScansAreHonest /\ AllWithinRoots
  /\ SteadyScans /\ NothingEscaped

---------------------------------------------------------------------------
(* The scan: the operators.                                                *)

\* A bounded set of numbers has its greatest as Max.
LEMMA MaxIs ==
  ASSUME NEW S \in SUBSET Nat, S # {}, NEW n \in Nat, \A m \in S : m <= n
  PROVE  Scans!Max(S) \in S
<1> DEFINE gaps == {n - m : m \in S}
<1>1. gaps \subseteq Nat /\ gaps # {}
  <2>1. \A m \in S : n - m \in Nat
    OBVIOUS
  <2> QED BY <2>1
<1>2. PICK g \in gaps : \A h \in gaps : g <= h
  BY <1>1, Smallest
<1>3. PICK k \in S : g = n - k
  OBVIOUS
<1>4. \A m \in S : k >= m
  <2> TAKE m \in S
  <2>1. n - k <= n - m
    BY <1>2, <1>3
  <2>2. k \in Nat /\ m \in Nat
    OBVIOUS
  <2> QED BY <2>1, <2>2
<1> QED BY <1>4 DEF Scans!Max

\* A walk comes to where it begins and to what lies below what it can read,
\* and nowhere else.
LEMMA WalkedIs ==
  ASSUME NEW dirs \in SUBSET Scans!Dirs, NEW shut
  PROVE  /\ Scans!Walked(dirs, shut) \in SUBSET Scans!Dirs /\ dirs \subseteq Scans!Walked(dirs, shut)
         /\ \A d \in Scans!Walked(dirs, shut) \ shut : Scans!Subdirs(d) \subseteq Scans!Walked(dirs, shut)
         /\ \A ds \in SUBSET Scans!Dirs :
              dirs \subseteq ds /\ (\A d \in ds \ shut : Scans!Subdirs(d) \subseteq ds)
              => Scans!Walked(dirs, shut) \subseteq ds
<1>1. \A d : Scans!Subdirs(d) \subseteq Scans!Dirs
  BY DEF Scans!Subdirs, Scans!Dirs
<1> QED BY <1>1 DEF Scans!Walked

\* The more can be read the further it comes.
LEMMA WalkedMore ==
  ASSUME NEW dirs \in SUBSET Scans!Dirs, NEW shut
  PROVE  /\ Scans!Walked(dirs, shut) \subseteq Scans!Walked(dirs, {})
         /\ Scans!Walked(dirs, shut) \cap shut = {} => Scans!Walked(dirs, shut) = Scans!Walked(dirs, {})
<1>1. Scans!Walked(dirs, shut) \subseteq Scans!Walked(dirs, {})
  BY WalkedIs
<1>2. ASSUME Scans!Walked(dirs, shut) \cap shut = {} PROVE Scans!Walked(dirs, {}) \subseteq Scans!Walked(dirs, shut)
  <2>1. \A d \in Scans!Walked(dirs, shut) \ {} : d \in Scans!Walked(dirs, shut) \ shut
    BY <1>2
  <2> QED BY <2>1, WalkedIs
<1> QED BY <1>1, <1>2

LEMMA RootsAreDirs == Roots \in SUBSET Scans!Dirs
  BY DEF Scans!Dirs

LEMMA NoFileIs == Scans!NoFile.stamp = 0 /\ Scans!NoFile \notin File /\ Scans!NoRow \notin ScanRow
  BY DEF Scans!NoFile, File, Scans!NoRow, ScanRow

\* What is found beside what was found.
LEMMA WithIs ==
  ASSUME NEW all \in Findings, NEW f \in Scans!Files, NEW row \in Finding
  PROVE  /\ Scans!With(all, f, row) \in Findings /\ DOMAIN Scans!With(all, f, row) = DOMAIN all \cup {f}
         /\ Scans!With(all, f, row)[f] = row
         /\ \A g \in DOMAIN all \cup {f} : g = f \/ Scans!With(all, f, row)[g] = all[g]
<1> PICK found : found = Scans!With(all, f, row)
  OBVIOUS
<1>1. PICK D \in SUBSET Scans!Files : all \in [D -> Finding]
  BY DEF Findings
<1>2. found \in [D \cup {f} -> Finding] /\ D \cup {f} \in SUBSET Scans!Files
  BY <1>1 DEF Scans!With
<1>3. found \in Findings
  BY <1>2 DEF Findings
<1> QED BY <1>3 DEF Scans!With

LEMMA FindingsAre ==
  ASSUME NEW found \in Findings
  PROVE  DOMAIN found \in SUBSET Scans!Files /\ \A f \in DOMAIN found : found[f] \in Finding
<1>1. PICK D \in SUBSET Scans!Files : found \in [D -> Finding]
  BY DEF Findings
<1> QED BY <1>1

LEMMA StampsAre ==
  ASSUME NEW known \in Stamps
  PROVE  DOMAIN known \in SUBSET Scans!Files /\ \A f \in DOMAIN known : known[f] \in Nat
<1>1. PICK D \in SUBSET Scans!Files : known \in [D -> Nat]
  BY DEF Stamps
<1> QED BY <1>1

\* A file's own stamp is one it had, and what it holds is what it holds.
LEMMA JustRead ==
  ASSUME NEW file \in {Scans!NoFile} \cup File, NEW time \in Nat \ {0}, file # Scans!NoFile => file.stamp <= time
  PROVE  Recorded(file, time, file.stamp)
  BY NoFileIs DEF Recorded, File

\* A change gives a file a stamp it never had.
LEMMA ChangeIsNew ==
  ASSUME NEW file \in {Scans!NoFile} \cup File, NEW new \in {Scans!NoFile} \cup File, NEW time \in Nat \ {0},
         file # Scans!NoFile => file.stamp < time, new # Scans!NoFile => new.stamp = time,
         NEW stamp \in Nat, Recorded(file, time, stamp)
  PROVE  Recorded(new, time, stamp) /\ stamp < time
<1>1. stamp < time
  BY DEF Recorded, File
<1> QED BY <1>1 DEF Recorded, File

LEMMA ChangeKeepsHonest ==
  ASSUME NEW file \in {Scans!NoFile} \cup File, NEW new \in {Scans!NoFile} \cup File, NEW time \in Nat \ {0},
         file # Scans!NoFile => file.stamp < time, new # Scans!NoFile => new.stamp = time
  PROVE  /\ \A stamp \in Nat : Recorded(file, time, stamp) => Recorded(new, time, stamp)
         /\ \A stamp \in Nat : StillReadable(file, time, stamp) => StillReadable(new, time, stamp)
         /\ \A row : row.stamp \in Nat /\ Honest(file, time, row) => Honest(new, time, row)
<1>1. \A stamp \in Nat : Recorded(file, time, stamp) => Recorded(new, time, stamp) /\ stamp < time
  BY ChangeIsNew
<1>2. new # Scans!NoFile => new.stamp = time /\ ~(time < time)
  OBVIOUS
<1>3. \A stamp \in Nat : StillReadable(file, time, stamp) => StillReadable(new, time, stamp)
  BY <1>1, <1>2 DEF StillReadable
<1>4. \A row : row.stamp \in Nat /\ Honest(file, time, row) => Honest(new, time, row)
  BY <1>1, <1>2 DEF Honest
<1> QED BY <1>1, <1>3, <1>4

LEMMA TimeKeepsHonest ==
  ASSUME NEW file \in {Scans!NoFile} \cup File, NEW time \in Nat \ {0}
  PROVE  /\ \A stamp \in Nat : Recorded(file, time, stamp) => Recorded(file, time + 1, stamp)
         /\ \A stamp \in Nat : StillReadable(file, time, stamp) => StillReadable(file, time + 1, stamp)
         /\ \A row : row.stamp \in Nat /\ Honest(file, time, row) => Honest(file, time + 1, row)
<1>1. \A stamp \in Nat : Recorded(file, time, stamp) => Recorded(file, time + 1, stamp)
  BY DEF Recorded
<1> QED BY <1>1 DEF StillReadable, Honest

---------------------------------------------------------------------------
(* The scan: the disk and the clock.                                       *)

LEMMA ScanInit == Scans!ScanAssumption /\ Scans!Init => ScanInv
<1> SUFFICES ASSUME Scans!ScanAssumption, Scans!Init PROVE ScanInv
  OBVIOUS
<1>1. /\ \A f \in Scans!Files : music[f] = Scans!NoFile /\ catalog[f] = Scans!NoRow
      /\ Scans!Rows(catalog) = {}
  BY DEF Scans!Init, Scans!Rows
<1>2. Scans!Idle \in Scanning /\ DOMAIN Scans!Idle.known = {} /\ DOMAIN Scans!Idle.found = {} /\ Scans!Idle.pc = "idle"
      /\ Scans!Idle.todo = {}
  <2>1. <<>> \in [{} -> Nat] /\ <<>> \in [{} -> Finding]
    OBVIOUS
  <2>2. <<>> \in Stamps /\ <<>> \in Findings
    BY <2>1 DEF Stamps, Findings
  <2> QED BY <2>2 DEF Scans!Idle, Scanning
<1>3. Types
  <2>1. /\ music = [f \in Scans!Files |-> Scans!NoFile] /\ catalog = [f \in Scans!Files |-> Scans!NoRow]
        /\ dirTime = [d \in Scans!Dirs |-> 0] /\ scan = [p \in Scanners |-> Scans!Idle]
        /\ quiet = [p \in Scanners |-> FALSE]
    BY DEF Scans!Init
  <2>2. music \in [Scans!Files -> {Scans!NoFile} \cup File] /\ catalog \in [Scans!Files -> {Scans!NoRow} \cup ScanRow]
    BY <2>1
  <2>3. dirTime \in [Scans!Dirs -> Nat] /\ scan \in [Scanners -> Scanning] /\ quiet \in [Scanners -> BOOLEAN]
    BY <1>2, <2>1
  <2>4. closed = {} /\ clock = 1 /\ changes = 0 /\ unseen = FALSE /\ edited = {}
    BY DEF Scans!Init
  <2>5. closed \in SUBSET Scans!Dirs /\ edited \in SUBSET Scans!Files
    <3>1. closed = {} /\ edited = {}
      BY <2>4
    <3>2. {} \in SUBSET Scans!Dirs /\ {} \in SUBSET Scans!Files
      OBVIOUS
    <3> QED BY <3>1, <3>2, Zenon
  <2>6. clock \in Nat \ {0} /\ changes \in Nat
    BY <2>4
  <2>7. unseen \in BOOLEAN
    BY <2>4, Zenon
  <2> QED BY <2>2, <2>3, <2>5, <2>6, <2>7 DEF Types
<1>4. StampsArePast /\ CatalogIsHonest
  BY <1>1 DEF StampsArePast, CatalogIsHonest
<1>5. ScansAreHonest
  BY <1>2 DEF ScansAreHonest, HonestScan, Scans!Init, ScanLooking
<1>6. AllWithinRoots
  BY <1>1, <1>2 DEF AllWithinRoots, WithinRoots, Scans!Init
<1>7. SteadyScans
  BY <1>2 DEF SteadyScans, Scans!Init, ScanLooking
<1>8. NothingEscaped
  <2>1. \A f \in Within : f \in Scans!Files
    BY DEF Within, Scans!ScanAssumption, Scans!Files
  <2>2. \A p \in Scanners : scan[p].pc = "idle"
    BY <1>2 DEF Scans!Init
  <2> QED BY <1>1, <2>1, <2>2 DEF NothingEscaped
<1> QED BY <1>3, <1>4, <1>5, <1>6, <1>7, <1>8 DEF ScanInv

\* MAX(scanned_at) is a number.
LEMMA LastIs == ASSUME Types, StampsArePast PROVE Scans!LastScannedAt \in Nat
<1>1. CASE Scans!Rows(catalog) = {}
  BY <1>1 DEF Scans!LastScannedAt
<1>2. CASE Scans!Rows(catalog) # {}
  <2> DEFINE times == {catalog[f].at : f \in Scans!Rows(catalog)}
  <2>1. \A f \in Scans!Rows(catalog) : catalog[f].at \in Nat /\ catalog[f].at <= clock /\ clock \in Nat
    BY DEF Scans!Rows, Types, ScanRow, StampsArePast
  <2>2. times \in SUBSET Nat /\ times # {} /\ \A m \in times : m <= clock
    BY <1>2, <2>1
  <2>3. Scans!Max(times) \in times
    <3> HIDE DEF times
    <3> QED BY <2>2, MaxIs DEF Types
  <2> QED BY <1>2, <2>2, <2>3 DEF Scans!LastScannedAt
<1> QED BY <1>1, <1>2

\* What becomes of the files' honesty when the disk or the clock moves on.
LEMMA StaysHonest ==
  ASSUME ScanInv, UNCHANGED <<catalog, scan>>,
         \A f \in Scans!Files :
           /\ \A stamp \in Nat : Recorded(music[f], clock, stamp) => Recorded(music'[f], clock', stamp)
           /\ \A stamp \in Nat : StillReadable(music[f], clock, stamp) => StillReadable(music'[f], clock', stamp)
           /\ \A row : row.stamp \in Nat /\ Honest(music[f], clock, row) => Honest(music'[f], clock', row)
  PROVE  CatalogIsHonest' /\ ScansAreHonest' /\ AllWithinRoots'
<1>1. CatalogIsHonest'
  <2>1. \A f \in Scans!Rows(catalog) : f \in Scans!Files /\ catalog[f].stamp \in Nat
    BY DEF Scans!Rows, ScanInv, Types, ScanRow
  <2> QED BY <2>1 DEF CatalogIsHonest, ScanInv, Scans!Rows
<1>2. ASSUME NEW p \in Scanners PROVE HonestScan(scan[p], music', clock')
  <2> PICK s \in Scanning : s = scan[p] /\ HonestScan(s, music, clock)
    BY DEF ScanInv, Types, ScansAreHonest
  <2>1. DOMAIN s.known \in SUBSET Scans!Files /\ \A f \in DOMAIN s.known : s.known[f] \in Nat
    BY StampsAre DEF Scanning
  <2>2. DOMAIN s.found \in SUBSET Scans!Files /\ \A f \in DOMAIN s.found : s.found[f].stamp \in Nat
    BY FindingsAre DEF Scanning, Finding
  <2>3. \A f \in DOMAIN s.known : StillReadable(music'[f], clock', s.known[f])
    BY <2>1 DEF HonestScan
  <2>4. s.pc \in ScanLooking => \A f \in DOMAIN s.found :
          IF s.found[f].track = Scans!None THEN StillReadable(music'[f], clock', s.found[f].stamp)
          ELSE Honest(music'[f], clock', s.found[f])
    BY <2>2 DEF HonestScan
  <2>5. s.pc = "read" => s.file \in Scans!Files /\ Recorded(music'[s.file], clock', s.stamp)
    BY DEF HonestScan, Scanning
  <2>6. s.pc = "replace" => \A f \in DOMAIN s.found :
          s.found[f].track # Scans!None /\ Honest(music'[f], clock', s.found[f])
    BY <2>2 DEF HonestScan
  <2> QED BY <2>3, <2>4, <2>5, <2>6 DEF HonestScan
<1>3. ScansAreHonest'
  BY <1>2 DEF ScansAreHonest
<1>4. AllWithinRoots'
  BY DEF ScanInv, AllWithinRoots, Scans!Rows
<1> QED BY <1>1, <1>3, <1>4

\* After a change every scan under way has missed it.
LEMMA ChangedIsSeen ==
  ASSUME ScanInv, NEW d, Scans!Changed(d)
  PROVE  /\ SteadyScans' /\ changes' \in Nat /\ quiet' \in [Scanners -> BOOLEAN] /\ unseen' \in BOOLEAN
         /\ UNCHANGED <<clock, catalog, scan>>
         /\ Scans!LastScannedAt' = Scans!LastScannedAt /\ Scans!LastScannedAt \in Nat
         /\ \A p \in Scanners : ~quiet'[p]
         /\ ~unseen' => ~unseen /\ Scans!LastScannedAt < clock
<1>1. /\ UNCHANGED <<clock, catalog, scan>> /\ quiet' = [p \in Scanners |-> FALSE] /\ changes' = changes + 1
      /\ unseen' = (unseen \/ clock <= Scans!LastScannedAt \/ \E p \in Scanners : scan[p].pc # "idle")
  BY DEF Scans!Changed
<1>2. Scans!LastScannedAt' = Scans!LastScannedAt
  BY <1>1 DEF Scans!LastScannedAt, Scans!Rows
<1>3. Scans!LastScannedAt \in Nat /\ clock \in Nat
  BY LastIs DEF ScanInv, Types
<1>4. ~unseen' => ~unseen /\ Scans!LastScannedAt < clock /\ \A p \in Scanners : scan[p].pc = "idle"
  <2> SUFFICES ASSUME ~unseen' PROVE ~unseen /\ Scans!LastScannedAt < clock /\ \A p \in Scanners : scan[p].pc = "idle"
    OBVIOUS
  <2>1. ~unseen /\ ~(clock <= Scans!LastScannedAt) /\ \A p \in Scanners : scan[p].pc = "idle"
    BY <1>1, Zenon
  <2> QED BY <1>3, <2>1
<1>5. SteadyScans'
  BY <1>1, <1>4 DEF SteadyScans, Steady, ScanLooking
<1>6. changes' \in Nat /\ quiet' \in [Scanners -> BOOLEAN] /\ unseen' \in BOOLEAN
  BY <1>1 DEF ScanInv, Types
<1> QED BY <1>1, <1>2, <1>3, <1>4, <1>5, <1>6

\* A file becomes another: its directory notices, or it counts as edited.
LEMMA FileChanges ==
  ASSUME ScanInv, NEW f \in Scans!Files, NEW new \in {Scans!NoFile} \cup File,
         music[f] # Scans!NoFile => music[f].stamp < clock, new # Scans!NoFile => new.stamp = clock,
         music' = [music EXCEPT ![f] = new], Scans!Changed(DirOf[f]), UNCHANGED closed,
         \/ dirTime' = [dirTime EXCEPT ![DirOf[f]] = clock] /\ edited' = edited \ {f}
         \/ dirTime' = dirTime /\ edited' = edited \cup {f}
  PROVE  ScanInv'
<1>0. Scans!ScanAssumption /\ Types /\ StampsArePast
  BY DEF ScanInv
<1>1. /\ SteadyScans' /\ changes' \in Nat /\ quiet' \in [Scanners -> BOOLEAN] /\ unseen' \in BOOLEAN
      /\ UNCHANGED <<clock, catalog, scan>>
      /\ Scans!LastScannedAt' = Scans!LastScannedAt /\ Scans!LastScannedAt \in Nat
      /\ \A p \in Scanners : ~quiet'[p]
      /\ ~unseen' => ~unseen /\ Scans!LastScannedAt < clock
  BY ChangedIsSeen
<1>2. music' \in [Scans!Files -> {Scans!NoFile} \cup File] /\ music'[f] = new /\ \A g \in Scans!Files : g # f => music'[g] = music[g]
  BY <1>0 DEF Types
<1>3. dirTime' \in [Scans!Dirs -> Nat] /\ edited' \in SUBSET Scans!Files /\ clock \in Nat \ {0}
  BY <1>0 DEF Types
<1>4. Types'
  BY <1>0, <1>1, <1>2, <1>3 DEF Types
<1>5. StampsArePast'
  BY <1>0, <1>1, <1>2, <1>3 DEF StampsArePast
<1>6. CatalogIsHonest' /\ ScansAreHonest' /\ AllWithinRoots'
  <2>1. music[f] \in {Scans!NoFile} \cup File
    BY <1>0 DEF Types
  <2>2. ASSUME NEW g \in Scans!Files
        PROVE  /\ \A stamp \in Nat : Recorded(music[g], clock, stamp) => Recorded(music'[g], clock', stamp)
               /\ \A stamp \in Nat : StillReadable(music[g], clock, stamp) => StillReadable(music'[g], clock', stamp)
               /\ \A row : row.stamp \in Nat /\ Honest(music[g], clock, row) => Honest(music'[g], clock', row)
    <3>1. CASE g = f
      BY <1>1, <1>2, <1>3, <2>1, <3>1, ChangeKeepsHonest
    <3>2. CASE g # f
      BY <1>1, <1>2, <3>2
    <3> QED BY <3>1, <3>2
  <2> QED BY <1>1, <2>2, StaysHonest
<1>7. NothingEscaped'
  <2> SUFFICES ASSUME ~unseen', NEW g \in Within \ edited', dirTime'[DirOf[g]] <= Scans!LastScannedAt
               PROVE  g \in Scans!Rows(catalog) <=> music'[g] # Scans!NoFile /\ Scans!ReadTrack(music'[g].content) # Scans!None
    BY <1>1 DEF NothingEscaped, Scans!Rows
  <2>1. g \in Scans!Files /\ DirOf[g] \in Scans!Dirs /\ dirTime \in [Scans!Dirs -> Nat]
    BY <1>0 DEF Within, Scans!Files, Scans!Dirs, Scans!ScanAssumption, Types
  <2>2. g # f /\ g \notin edited /\ dirTime[DirOf[g]] <= Scans!LastScannedAt
    <3>1. CASE dirTime' = [dirTime EXCEPT ![DirOf[f]] = clock] /\ edited' = edited \ {f}
      <4>1. DirOf[g] # DirOf[f]
        BY <1>1, <1>3, <2>1, <3>1
      <4> QED BY <2>1, <3>1, <4>1
    <3>2. CASE dirTime' = dirTime /\ edited' = edited \cup {f}
      BY <3>2
    <3> QED BY <3>1, <3>2
  <2> QED BY <1>1, <1>2, <2>1, <2>2 DEF ScanInv, NothingEscaped
<1> QED BY <1>0, <1>1, <1>4, <1>5, <1>6, <1>7 DEF ScanInv

LEMMA DiskStep == ScanInv /\ Scans!Disk => ScanInv'
<1> SUFFICES ASSUME ScanInv, Scans!Disk PROVE ScanInv'
  OBVIOUS
<1>0. Types /\ Scans!ScanAssumption /\ clock \in Nat \ {0}
      /\ \A f \in Scans!Files : music[f] \in {Scans!NoFile} \cup File /\ (music[f] # Scans!NoFile => music[f].stamp <= clock)
  BY DEF ScanInv, Types, StampsArePast
<1>1. ASSUME NEW f \in Scans!Files, NEW c \in Scans!Contents, Scans!AddFile(f, c) PROVE ScanInv'
  <2> PICK new \in File : new = [content |-> c, stamp |-> clock]
    BY <1>0 DEF File
  <2>1. new.stamp = clock /\ music' = [music EXCEPT ![f] = new] /\ music[f] = Scans!NoFile
    BY <1>1 DEF Scans!AddFile
  <2> QED BY <1>1, <2>1, FileChanges DEF Scans!AddFile
<1>2. ASSUME NEW f \in Scans!Files, NEW c \in Scans!Contents, Scans!EditFile(f, c) PROVE ScanInv'
  <2> PICK new \in File : new = [content |-> c, stamp |-> clock]
    BY <1>0 DEF File
  <2>1. new.stamp = clock /\ music' = [music EXCEPT ![f] = new] /\ music[f] # Scans!NoFile /\ music[f].stamp # clock
    BY <1>2 DEF Scans!EditFile
  <2>2. music[f].stamp < clock
    BY <1>0, <2>1 DEF File
  <2> QED BY <1>2, <2>1, <2>2, FileChanges DEF Scans!EditFile
<1>3. ASSUME NEW f \in Scans!Files, Scans!DeleteFile(f) PROVE ScanInv'
  <2>1. music' = [music EXCEPT ![f] = Scans!NoFile] /\ music[f] # Scans!NoFile /\ music[f].stamp # clock
    BY <1>3 DEF Scans!DeleteFile
  <2>2. music[f].stamp < clock
    BY <1>0, <2>1 DEF File
  <2> QED BY <1>3, <2>1, <2>2, FileChanges DEF Scans!DeleteFile
<1>4. ASSUME NEW d \in Scans!Dirs, Scans!ToggleDir(d) PROVE ScanInv'
  <2>1. /\ SteadyScans' /\ changes' \in Nat /\ quiet' \in [Scanners -> BOOLEAN] /\ unseen' \in BOOLEAN
        /\ UNCHANGED <<clock, catalog, scan>>
        /\ Scans!LastScannedAt' = Scans!LastScannedAt
        /\ \A p \in Scanners : ~quiet'[p]
        /\ ~unseen' => ~unseen
    BY <1>4, ChangedIsSeen DEF Scans!ToggleDir
  <2>2. UNCHANGED <<music, dirTime, edited>> /\ closed' \in SUBSET Scans!Dirs
    BY <1>0, <1>4 DEF Scans!ToggleDir, Types
  <2>3. Types' /\ StampsArePast'
    BY <1>0, <2>1, <2>2 DEF ScanInv, Types, StampsArePast
  <2>4. CatalogIsHonest' /\ ScansAreHonest' /\ AllWithinRoots'
    BY <2>1, <2>2, StaysHonest
  <2>5. NothingEscaped'
    BY <2>1, <2>2 DEF ScanInv, NothingEscaped, Scans!Rows
  <2> QED BY <1>0, <2>1, <2>3, <2>4, <2>5 DEF ScanInv
<1> QED BY <1>1, <1>2, <1>3, <1>4 DEF Scans!Disk

LEMMA TickStep == ScanInv /\ Scans!Tick => ScanInv'
<1> SUFFICES ASSUME ScanInv, Scans!Tick PROVE ScanInv'
  OBVIOUS
<1>0. Types /\ Scans!ScanAssumption /\ StampsArePast
  BY DEF ScanInv
<1>1. clock' = clock + 1 /\ UNCHANGED <<music, dirTime, closed, changes, catalog, scan, Scans!history>>
  BY DEF Scans!Tick
<1>2. Types'
  BY <1>0, <1>1 DEF Types, Scans!history
<1>3. StampsArePast'
  <2>1. \A f \in Scans!Files : /\ music[f] # Scans!NoFile => music[f].stamp \in Nat
                               /\ catalog[f] # Scans!NoRow => catalog[f].at \in Nat
    BY <1>0 DEF Types, File, ScanRow
  <2> QED BY <1>0, <1>1, <2>1 DEF StampsArePast, Types
<1>4. CatalogIsHonest' /\ ScansAreHonest' /\ AllWithinRoots'
  <2>1. \A f \in Scans!Files : music[f] \in {Scans!NoFile} \cup File /\ clock \in Nat \ {0}
    BY <1>0 DEF Types
  <2> QED BY <1>1, <2>1, TimeKeepsHonest, StaysHonest
<1>5. SteadyScans'
  <2>1. Scans!Mirror' = Scans!Mirror /\ Here' = Here /\ \A p : Steady(p)' = Steady(p)
    BY <1>1 DEF Scans!Mirror, Here, Scans!Reachable, Steady, Scans!history
  <2>2. ASSUME NEW s PROVE (WalkIsTrue(s) => WalkIsTrue(s)') /\ (FoundIsMirror(s) => FoundIsMirror(s)')
    BY <1>1, <2>1 DEF WalkIsTrue, FoundIsMirror, Accounts, Matches, Scans!Rows, Scans!Under, Scans!history
  <2> QED BY <1>1, <2>1, <2>2 DEF ScanInv, SteadyScans
<1>6. NothingEscaped'
  <2>1. Scans!LastScannedAt' = Scans!LastScannedAt
    BY <1>1 DEF Scans!LastScannedAt, Scans!Rows
  <2> QED BY <1>1, <2>1 DEF ScanInv, NothingEscaped, Scans!Rows, Scans!history
<1> QED BY <1>0, <1>2, <1>3, <1>4, <1>5, <1>6 DEF ScanInv

---------------------------------------------------------------------------
(* The scan: the steps.                                                    *)

LEMMA OneScans ==
  ASSUME Types, NEW p \in Scanners, NEW new \in Scanning, Scans!Step(p, new)
  PROVE  /\ scan' \in [Scanners -> Scanning] /\ scan'[p] = new
         /\ \A q \in Scanners : q # p => scan'[q] = scan[q]
  BY DEF Types, Scans!Step

\* What the other scans rely on is not touched by a step of one that leaves the
\* catalog alone.
LEMMA StaysTrue ==
  ASSUME UNCHANGED <<Scans!world, catalog>>, unseen => unseen', NEW s
  PROVE  /\ WalkIsTrue(s) => WalkIsTrue(s)'
         /\ FoundIsMirror(s) => FoundIsMirror(s)'
<1>1. UNCHANGED <<music, closed, catalog>>
  BY DEF Scans!world
<1>2. Scans!Mirror' = Scans!Mirror /\ Here' = Here
  BY <1>1 DEF Scans!Mirror, Here, Scans!Reachable
<1>3. \A f : Matches(f)' <=> Matches(f)
  BY <1>1 DEF Matches, Scans!Rows
<1>4. \A d : Scans!Under(d)' = Scans!Under(d)
  BY <1>1 DEF Scans!Under
<1>5. ASSUME NEW done, Accounts(s, done) PROVE Accounts(s, done)'
  BY <1>1, <1>4, <1>5 DEF Accounts
<1>6. WalkIsTrue(s) => WalkIsTrue(s)'
  BY <1>1, <1>2, <1>3, <1>5 DEF WalkIsTrue
<1>7. FoundIsMirror(s) => FoundIsMirror(s)'
  BY <1>1, <1>2 DEF FoundIsMirror
<1> QED BY <1>6, <1>7

\* A step of one scan that leaves the catalog alone.
LEMMA ScanMoves ==
  ASSUME ScanInv, NEW p \in Scanners, NEW new \in Scanning, Scans!Step(p, new), UNCHANGED <<Scans!world, catalog, edited>>,
         unseen' \in BOOLEAN, unseen => unseen',
         quiet' \in [Scanners -> BOOLEAN], \A q \in Scanners : q # p => quiet'[q] = quiet[q],
         HonestScan(new, music, clock), WithinRoots(new),
         new.pc = "ask" /\ quiet'[p] => new.last = Scans!LastScannedAt,
         new.pc \in ScanLooking /\ Steady(p)' => WalkIsTrue(new)',
         new.pc = "replace" /\ Steady(p)' => FoundIsMirror(new)'
  PROVE  ScanInv'
<1>0. Types /\ Scans!ScanAssumption
  BY DEF ScanInv
<1>1. /\ scan' \in [Scanners -> Scanning] /\ scan'[p] = new
      /\ \A q \in Scanners : q # p => scan'[q] = scan[q]
  BY <1>0, OneScans
<1>2. UNCHANGED <<music, dirTime, closed, clock, changes, catalog, edited>>
  BY DEF Scans!world
<1>3. Types' /\ StampsArePast' /\ CatalogIsHonest'
  BY <1>1, <1>2 DEF ScanInv, Types, StampsArePast, CatalogIsHonest, Scans!Rows
<1>4. ScansAreHonest'
  <2>1. \A q \in Scanners : HonestScan(scan'[q], music, clock)
    BY <1>1 DEF ScanInv, ScansAreHonest
  <2> QED BY <1>2, <2>1 DEF ScansAreHonest
<1>5. AllWithinRoots'
  <2>1. \A q \in Scanners : WithinRoots(scan'[q])
    BY <1>1 DEF ScanInv, AllWithinRoots
  <2> QED BY <1>2, <2>1 DEF ScanInv, AllWithinRoots, Scans!Rows
<1>6. SteadyScans'
  <2> SUFFICES ASSUME NEW q \in Scanners, Steady(q)'
               PROVE  /\ scan'[q].pc \in ScanLooking => WalkIsTrue(scan[q])'
                      /\ scan'[q].pc = "replace" => FoundIsMirror(scan[q])'
    BY DEF SteadyScans
  <2>1. CASE q = p
    BY <1>1, <2>1
  <2>2. CASE q # p
    <3> PICK s : s = scan[q] /\ s = scan'[q]
      BY <1>1, <2>2
    <3>1. Steady(q)
      BY <2>2 DEF Steady
    <3>2. (s.pc \in ScanLooking => WalkIsTrue(s)) /\ (s.pc = "replace" => FoundIsMirror(s))
      BY <3>1 DEF ScanInv, SteadyScans
    <3>3. (WalkIsTrue(s) => WalkIsTrue(s)') /\ (FoundIsMirror(s) => FoundIsMirror(s)')
      BY StaysTrue
    <3> QED BY <3>2, <3>3
  <2> QED BY <2>1, <2>2
<1>7. NothingEscaped'
  <2>1. Scans!LastScannedAt' = Scans!LastScannedAt /\ Scans!Rows(catalog') = Scans!Rows(catalog)
    BY <1>2 DEF Scans!LastScannedAt, Scans!Rows
  <2>2. \A q \in Scanners : scan'[q].pc = "ask" /\ quiet'[q] => scan'[q].last = Scans!LastScannedAt'
    BY <1>1, <2>1 DEF ScanInv, NothingEscaped
  <2> QED BY <1>2, <2>1, <2>2 DEF ScanInv, NothingEscaped
<1> QED BY <1>0, <1>3, <1>4, <1>5, <1>6, <1>7 DEF ScanInv

\* Before it looks at anything and after it has ended, a scan says nothing.
LEMMA IdleIs ==
  /\ Scans!Idle \in Scanning /\ Scans!Idle.pc = "idle" /\ Scans!Idle.known = <<>> /\ Scans!Idle.found = <<>> /\ Scans!Idle.todo = {}
  /\ Scans!Idle.seen = 0 /\ Scans!Idle.last = 0
<1>1. <<>> \in [{} -> Nat] /\ <<>> \in [{} -> Finding]
  OBVIOUS
<1>2. <<>> \in Stamps /\ <<>> \in Findings
  BY <1>1 DEF Stamps, Findings
<1> QED BY <1>2 DEF Scans!Idle, Scanning

LEMMA EndStep ==
  ASSUME ScanInv, NEW p \in Scanners, Scans!Step(p, Scans!Idle), UNCHANGED <<Scans!world, catalog, edited>>,
         UNCHANGED unseen,
         quiet' = [quiet EXCEPT ![p] = FALSE]
  PROVE  ScanInv'
<1>1. HonestScan(Scans!Idle, music, clock) /\ WithinRoots(Scans!Idle)
  BY IdleIs DEF HonestScan, WithinRoots, ScanLooking
<1>2. quiet' \in [Scanners -> BOOLEAN] /\ unseen' \in BOOLEAN
  BY DEF ScanInv, Types
<1> QED BY <1>1, <1>2, IdleIs, ScanMoves DEF ScanLooking, ScanInv, Types

LEMMA BeginSteps ==
  ASSUME ScanInv, NEW p \in Scanners,
         Scans!BeginScan(p) \/ Scans!BeginIfStale(p) \/ Scans!Skip(p) \/ Scans!GoOn(p) \/ Scans!Fail(p)
  PROVE  ScanInv'
<1>0. Types /\ quiet' \in [Scanners -> BOOLEAN] /\ unseen' \in BOOLEAN /\ quiet \in [Scanners -> BOOLEAN]
      /\ scan[p] \in Scanning
  BY DEF ScanInv, Types, Scans!BeginScan, Scans!BeginIfStale, Scans!Skip, Scans!GoOn, Scans!Fail, Scans!history
<1>1. CASE Scans!Skip(p) \/ Scans!Fail(p)
  BY <1>1, EndStep DEF Scans!Skip, Scans!Fail
<1>2. CASE Scans!BeginScan(p)
  <2> PICK new : new = [Scans!Idle EXCEPT !.pc = "stamps"]
    OBVIOUS
  <2>1. new \in Scanning /\ new.pc = "stamps" /\ new.known = <<>> /\ new.found = <<>> /\ new.todo = {}
    BY IdleIs DEF Scanning
  <2>2. HonestScan(new, music, clock) /\ WithinRoots(new)
    BY <2>1 DEF HonestScan, WithinRoots, ScanLooking
  <2>3. Scans!Step(p, new) /\ UNCHANGED <<Scans!world, catalog, unseen, edited>> /\ quiet' = [quiet EXCEPT ![p] = TRUE]
    BY <1>2 DEF Scans!BeginScan
  <2> QED BY <1>0, <2>1, <2>2, <2>3, ScanMoves DEF ScanLooking
<1>3. CASE Scans!BeginIfStale(p)
  <2>0. Scans!LastScannedAt \in Nat
    BY LastIs DEF ScanInv
  <2> PICK last \in Nat : last = Scans!LastScannedAt
    BY <2>0
  <2> PICK new : new = [Scans!Idle EXCEPT !.pc = "ask", !.last = last]
    OBVIOUS
  <2>1. new \in Scanning /\ new.pc = "ask" /\ new.known = <<>> /\ new.found = <<>> /\ new.todo = {}
        /\ new.last = last
    BY IdleIs DEF Scanning
  <2>2. HonestScan(new, music, clock) /\ WithinRoots(new)
    BY <2>1 DEF HonestScan, WithinRoots, ScanLooking
  <2>3. Scans!Step(p, new) /\ UNCHANGED <<Scans!world, catalog, unseen, edited>> /\ quiet' = [quiet EXCEPT ![p] = TRUE]
    BY <1>3 DEF Scans!BeginIfStale
  <2> QED BY <1>0, <2>1, <2>2, <2>3, ScanMoves DEF ScanLooking
<1>4. CASE Scans!GoOn(p)
  <2> PICK old \in Scanning : old = scan[p]
    BY <1>0
  <2> PICK new : new = [old EXCEPT !.pc = "stamps"]
    OBVIOUS
  <2>1. new \in Scanning /\ new.pc = "stamps" /\ new.known = old.known /\ new.found = old.found
        /\ new.todo = old.todo
    BY DEF Scanning
  <2>2. old.pc = "ask" /\ Scans!Step(p, new) /\ UNCHANGED <<Scans!world, catalog, Scans!history>>
    BY <1>4 DEF Scans!GoOn
  <2>3. HonestScan(old, music, clock) /\ WithinRoots(old)
    BY DEF ScanInv, ScansAreHonest, AllWithinRoots
  <2>4. HonestScan(new, music, clock) /\ WithinRoots(new)
    BY <2>1, <2>2, <2>3 DEF HonestScan, WithinRoots, ScanLooking
  <2> QED BY <1>0, <2>1, <2>2, <2>4, ScanMoves DEF ScanLooking, Scans!history
<1> QED BY <1>1, <1>2, <1>3, <1>4

LEMMA ReadStampsStep == ASSUME ScanInv, NEW p \in Scanners, Scans!ReadStamps(p) PROVE ScanInv'
<1> PICK old \in Scanning : old = scan[p]
  BY DEF ScanInv, Types
<1>0. Types /\ CatalogIsHonest /\ HonestScan(old, music, clock) /\ WithinRoots(old) /\ old.pc = "stamps"
      /\ Scans!Rows(catalog) \subseteq Within /\ unseen \in BOOLEAN /\ quiet \in [Scanners -> BOOLEAN]
  BY DEF ScanInv, ScansAreHonest, AllWithinRoots, Scans!ReadStamps, Types
<1>1. \A f \in Scans!Rows(catalog) : f \in Scans!Files /\ catalog[f] \in ScanRow
  BY <1>0 DEF Scans!Rows, Types
<1> PICK known : known = Scans!CatalogStamps
  OBVIOUS
<1>2. DOMAIN known = Scans!Rows(catalog) /\ \A f \in Scans!Rows(catalog) : known[f] = catalog[f].stamp
  BY DEF Scans!CatalogStamps
<1>3. known \in Stamps
  <2>1. known \in [Scans!Rows(catalog) -> Nat]
    BY <1>1 DEF Scans!CatalogStamps, ScanRow
  <2>2. Scans!Rows(catalog) \in SUBSET Scans!Files
    BY DEF Scans!Rows
  <2> QED BY <2>1, <2>2 DEF Stamps
<1>4. \A f \in DOMAIN known : StillReadable(music[f], clock, known[f])
  BY <1>0, <1>1, <1>2 DEF CatalogIsHonest, StillReadable, Honest, ScanRow, ReadTracks
<1> PICK new : new = [old EXCEPT !.pc = "walk", !.known = known, !.todo = Roots]
  OBVIOUS
<1>5. new \in Scanning /\ new.pc = "walk" /\ new.known = known /\ new.todo = Roots /\ new.found = old.found
  BY <1>3, RootsAreDirs DEF Scanning
<1>6. Scans!Step(p, new) /\ UNCHANGED <<Scans!world, catalog, Scans!history>>
  BY DEF Scans!ReadStamps
<1>7. DOMAIN new.found = {} /\ Roots \cap Scans!Files = {}
  BY <1>0, <1>5, RootsAreDirs DEF WithinRoots, ScanInv, Scans!ScanAssumption, Scans!Files, Scans!Dirs
<1>8. HonestScan(new, music, clock)
  BY <1>4, <1>5, <1>7 DEF HonestScan
<1>9. Roots \subseteq Below /\ Roots \subseteq Scans!Walked(Roots, closed)
  BY RootsAreDirs, WalkedIs DEF Below
<1>10. WithinRoots(new)
  BY <1>5, <1>7, <1>9 DEF WithinRoots
<1>11. WalkIsTrue(new)
  <2>1. Accounts(new, {})
    BY <1>5 DEF Accounts
  <2>2. \A f \in DOMAIN known : Matches(f) \/ known[f] # music[f].stamp
    BY <1>2 DEF Matches
  <2> QED BY <1>5, <1>7, <1>9, <2>1, <2>2 DEF WalkIsTrue
<1>12. WalkIsTrue(new)'
  BY <1>6, <1>11, StaysTrue DEF Scans!history
<1> QED BY <1>0, <1>5, <1>6, <1>8, <1>10, <1>12, ScanMoves DEF Scans!history

\* The scan that is about to look at one more.
LEMMA OldScan ==
  ASSUME ScanInv, NEW p \in Scanners
  PROVE  /\ scan[p] \in Scanning /\ HonestScan(scan[p], music, clock) /\ WithinRoots(scan[p])
         /\ unseen \in BOOLEAN /\ quiet \in [Scanners -> BOOLEAN]
         /\ Scans!Files \cap Scans!Dirs = {} /\ AudioFiles \subseteq Scans!Files
         /\ scan[p].pc \in ScanLooking /\ Steady(p) => WalkIsTrue(scan[p])
         /\ scan[p].pc = "replace" /\ Steady(p) => FoundIsMirror(scan[p])
  BY DEF ScanInv, Types, ScansAreHonest, AllWithinRoots, Scans!ScanAssumption, Scans!Files, Scans!Dirs, SteadyScans

LEMMA OldDisk ==
  ASSUME ScanInv
  PROVE  /\ clock \in Nat \ {0}
         /\ \A f \in Scans!Files : music[f] \in {Scans!NoFile} \cup File /\ (music[f] # Scans!NoFile => music[f].stamp <= clock)
<1>1. clock \in Nat \ {0} /\ music \in [Scans!Files -> {Scans!NoFile} \cup File]
  BY DEF ScanInv, Types
<1>2. \A f \in Scans!Files : music[f] # Scans!NoFile => music[f].stamp <= clock
  BY DEF ScanInv, StampsArePast
<1> QED BY <1>1, <1>2

LEMMA VisitDirStep == ASSUME ScanInv, NEW p \in Scanners, NEW d \in Scans!Dirs, Scans!VisitDir(p, d) PROVE ScanInv'
<1> PICK old \in Scanning : old = scan[p]
  BY OldScan
<1>0. /\ HonestScan(old, music, clock) /\ WithinRoots(old) /\ Scans!Files \cap Scans!Dirs = {}
      /\ unseen \in BOOLEAN /\ quiet \in [Scanners -> BOOLEAN] /\ AudioFiles \subseteq Scans!Files
  BY OldScan
<1>1. old.pc = "walk" /\ d \in old.todo /\ UNCHANGED <<Scans!world, catalog>>
  BY DEF Scans!VisitDir
<1>2. d \in Below /\ Scans!Subdirs(d) \subseteq Below /\ Scans!Subdirs(d) \subseteq Scans!Dirs
  <2>1. d \in Below
    BY <1>0, <1>1 DEF WithinRoots
  <2>2. d \in Below \ {} /\ Roots \in SUBSET Scans!Dirs
    BY <2>1, RootsAreDirs
  <2> QED BY <2>1, <2>2, WalkedIs DEF Below, Scans!Subdirs, Scans!Dirs
<1>3. \A f : f \in Scans!Under(d) <=> f \in Scans!Files /\ DirOf[f] = d /\ music[f] # Scans!NoFile
  BY DEF Scans!Under
<1>4. CASE d \notin closed
  <2> PICK ahead : ahead = (old.todo \ {d}) \cup Scans!Under(d) \cup Scans!Subdirs(d)
    OBVIOUS
  <2>1. ahead \in SUBSET (Scans!Dirs \cup Scans!Files)
    BY <1>2, <1>3 DEF Scanning
  <2> PICK new : new = [old EXCEPT !.todo = ahead]
    OBVIOUS
  <2>2. /\ new \in Scanning /\ new.pc = "walk" /\ new.todo = ahead /\ new.known = old.known
        /\ new.found = old.found
    BY <1>1, <2>1 DEF Scanning
  <2>3. Scans!Step(p, new) /\ UNCHANGED <<quiet, unseen, edited>>
    BY <1>4 DEF Scans!VisitDir, Scans!history
  <2>4. HonestScan(new, music, clock)
    BY <1>0, <1>1, <2>2 DEF HonestScan, ScanLooking
  <2>5. WithinRoots(new)
    <3>1. ahead \cap Scans!Dirs \subseteq Below
      BY <1>0, <1>2, <1>3 DEF WithinRoots
    <3>2. \A f \in ahead \cap Scans!Files : DirOf[f] \in Below
      BY <1>0, <1>2, <1>3 DEF WithinRoots
    <3> QED BY <1>0, <2>2, <3>1, <3>2 DEF WithinRoots
  <2>6. ASSUME WalkIsTrue(old) PROVE WalkIsTrue(new)
    <3>1. PICK done \in SUBSET Scans!Dirs : Accounts(old, done)
      BY <2>6 DEF WalkIsTrue
    <3>2. Accounts(new, done \cup {d})
      <4>1. Roots \subseteq done \cup {d} \cup ahead
        BY <3>1 DEF Accounts
      <4>2. ASSUME NEW e \in (done \cup {d}) \ closed
            PROVE  /\ Scans!Subdirs(e) \subseteq (done \cup {d}) \cup ahead
                   /\ \A f \in Scans!Under(e) \cap AudioFiles :
                        \/ f \in ahead \/ (new.pc = "read" /\ new.file = f)
                        \/ f \in DOMAIN new.found \/ Scans!ReadTrack(music[f].content) = Scans!None
        <5>1. CASE e = d
          BY <5>1
        <5>2. CASE e # d
          <6>1. e \in done \ closed
            BY <4>2, <5>2
          <6>2. Scans!Subdirs(e) \subseteq done \cup old.todo
            BY <3>1, <6>1 DEF Accounts
          <6>3. \A f \in Scans!Under(e) \cap AudioFiles :
                  f \in old.todo \/ f \in DOMAIN old.found \/ Scans!ReadTrack(music[f].content) = Scans!None
            BY <1>1, <3>1, <6>1 DEF Accounts
          <6>4. \A f \in AudioFiles : f \in old.todo => f \in ahead
            BY <1>0
          <6> QED BY <2>2, <6>2, <6>3, <6>4
        <5> QED BY <5>1, <5>2
      <4>3. ~unseen => (done \cup {d}) \cap closed = {}
        BY <1>4, <3>1 DEF Accounts
      <4> QED BY <2>2, <4>1, <4>2, <4>3 DEF Accounts
    <3>3. d \in Scans!Walked(Roots, closed) \ closed
      BY <1>1, <1>4, <2>6 DEF WalkIsTrue
    <3>4. Scans!Subdirs(d) \subseteq Scans!Walked(Roots, closed)
      BY <3>3, RootsAreDirs, WalkedIs
    <3>5. ahead \cap Scans!Dirs \subseteq Scans!Walked(Roots, closed)
      BY <1>0, <1>3, <2>6, <3>4 DEF WalkIsTrue
    <3>6. ahead \cap Scans!Files \subseteq Here
      <4>1. Scans!Under(d) \subseteq Here
        BY <1>3, <3>3 DEF Here, Scans!Reachable
      <4> QED BY <1>0, <1>2, <2>6, <4>1 DEF WalkIsTrue
    <3>7. done \cup {d} \in SUBSET Scans!Dirs
      OBVIOUS
    <3> QED BY <2>2, <2>6, <3>2, <3>5, <3>6, <3>7 DEF WalkIsTrue
  <2>7. Steady(p)' => WalkIsTrue(new)'
    <3>1. Steady(p)' => Steady(p)
      BY <2>3 DEF Steady
    <3>2. Steady(p) => WalkIsTrue(old)
      BY <1>1, OldScan DEF ScanLooking
    <3> QED BY <1>1, <2>3, <2>6, <3>1, <3>2, StaysTrue
  <2> QED BY <1>0, <1>1, <2>2, <2>3, <2>4, <2>5, <2>7, ScanMoves
<1>5. CASE d \in closed /\ old.seen = 0
  <2>1. Scans!Step(p, Scans!Idle) /\ quiet' = [quiet EXCEPT ![p] = FALSE] /\ UNCHANGED <<unseen, edited>>
    BY <1>5 DEF Scans!VisitDir
  <2> QED BY <1>1, <2>1, EndStep
<1>6. CASE d \in closed /\ old.seen # 0
  <2> PICK ahead : ahead = old.todo \ {d}
    OBVIOUS
  <2> PICK new : new = [old EXCEPT !.todo = ahead]
    OBVIOUS
  <2>1. ahead \in SUBSET (Scans!Dirs \cup Scans!Files)
    BY DEF Scanning
  <2>2. /\ new \in Scanning /\ new.pc = "walk" /\ new.todo = ahead /\ new.known = old.known
        /\ new.found = old.found
    BY <1>1, <2>1 DEF Scanning
  <2>3. Scans!Step(p, new) /\ unseen' = TRUE /\ UNCHANGED <<quiet, edited>>
    BY <1>6 DEF Scans!VisitDir
  <2>4. HonestScan(new, music, clock)
    BY <1>0, <1>1, <2>2 DEF HonestScan, ScanLooking
  <2>5. WithinRoots(new)
    BY <1>0, <1>1, <2>2 DEF WithinRoots
  <2>6. ASSUME WalkIsTrue(old) PROVE WalkIsTrue(new)'
    <3>1. PICK done \in SUBSET Scans!Dirs : Accounts(old, done)
      BY <2>6 DEF WalkIsTrue
    <3>2. UNCHANGED <<music, closed, catalog>> /\ unseen'
      BY <1>1, <2>3 DEF Scans!world
    <3>3. Accounts(new, done \cup {d})'
      <4>1. Roots \subseteq done \cup {d} \cup ahead
        BY <3>1 DEF Accounts
      <4>2. \A e \in (done \cup {d}) \ closed :
              /\ Scans!Subdirs(e) \subseteq (done \cup {d}) \cup ahead
              /\ \A f \in Scans!Under(e) \cap AudioFiles :
                   \/ f \in ahead \/ (new.pc = "read" /\ new.file = f)
                   \/ f \in DOMAIN new.found \/ Scans!ReadTrack(music[f].content) = Scans!None
        <5> TAKE e \in (done \cup {d}) \ closed
        <5>1. e \in done \ closed
          BY <1>6
        <5>2. Scans!Subdirs(e) \subseteq done \cup old.todo
          BY <3>1, <5>1 DEF Accounts
        <5>3. \A f \in Scans!Under(e) \cap AudioFiles :
                f \in old.todo \/ f \in DOMAIN old.found \/ Scans!ReadTrack(music[f].content) = Scans!None
          BY <1>1, <3>1, <5>1 DEF Accounts
        <5>4. \A f \in AudioFiles : f \in old.todo => f \in ahead
          BY <1>0
        <5> QED BY <2>2, <5>2, <5>3, <5>4
      <4> QED BY <2>2, <3>2, <4>1, <4>2 DEF Accounts, Scans!Under
    <3>4. UNCHANGED <<Scans!Mirror, Here>> /\ \A f : Matches(f)' <=> Matches(f)
      BY <3>2 DEF Scans!Mirror, Here, Scans!Reachable, Matches, Scans!Rows
    <3>5. done \cup {d} \in SUBSET Scans!Dirs
      OBVIOUS
    <3>6. ahead \cap Scans!Dirs \subseteq Scans!Walked(Roots, closed) /\ ahead \cap Scans!Files \subseteq Here
      BY <2>6 DEF WalkIsTrue
    <3>7. /\ \A f \in DOMAIN new.found :
               /\ f \in Scans!Mirror /\ new.found[f].stamp = music[f].stamp
               /\ new.found[f].track = Scans!None => Matches(f)
          /\ \A f \in DOMAIN new.known \cap Scans!Mirror : new.known[f] = music[f].stamp => Matches(f)
      BY <2>2, <2>6 DEF WalkIsTrue
    <3> QED BY <2>2, <3>2, <3>3, <3>4, <3>5, <3>6, <3>7 DEF WalkIsTrue
  <2>7. Steady(p)' => WalkIsTrue(new)'
    <3>1. Steady(p)' => Steady(p)
      BY <2>3 DEF Steady
    <3>2. Steady(p) => WalkIsTrue(old)
      BY <1>1, OldScan DEF ScanLooking
    <3> QED BY <2>6, <3>1, <3>2
  <2> QED BY <1>0, <1>1, <2>2, <2>3, <2>4, <2>5, <2>7, ScanMoves
<1> QED BY <1>4, <1>5, <1>6

\* A walk goes on being complete when one file leaves the list, if it counts
\* for nothing, is at hand or has been found.
LEMMA FileLeaves ==
  ASSUME NEW s, NEW new, NEW f \in Scans!Files, Scans!Files \cap Scans!Dirs = {}, s.pc \in ScanLooking, WalkIsTrue(s),
         new.todo = s.todo \ {f}, new.known = s.known, DOMAIN s.found \subseteq DOMAIN new.found,
         s.pc = "read" => s.file = f, Roots \subseteq Scans!Dirs, \A d : Scans!Subdirs(d) \subseteq Scans!Dirs,
         AudioFiles \subseteq Scans!Files,
         \/ f \notin AudioFiles \/ (new.pc = "read" /\ new.file = f)
         \/ f \in DOMAIN new.found \/ music[f] = Scans!NoFile \/ Scans!ReadTrack(music[f].content) = Scans!None,
         new.pc = "read" => new.file \in Here /\ new.stamp = music[new.file].stamp,
         \A g \in DOMAIN new.found :
           /\ g \in Scans!Mirror /\ new.found[g].stamp = music[g].stamp
           /\ new.found[g].track = Scans!None => Matches(g)
  PROVE  WalkIsTrue(new)
<1>1. PICK done \in SUBSET Scans!Dirs : Accounts(s, done)
  BY DEF WalkIsTrue
<1>2. Accounts(new, done)
  <2>1. Roots \subseteq done \cup new.todo
    BY <1>1 DEF Accounts
  <2>2. ASSUME NEW d \in done \ closed
        PROVE  /\ Scans!Subdirs(d) \subseteq done \cup new.todo
               /\ \A g \in Scans!Under(d) \cap AudioFiles :
                    \/ g \in new.todo \/ (new.pc = "read" /\ new.file = g)
                    \/ g \in DOMAIN new.found \/ Scans!ReadTrack(music[g].content) = Scans!None
    <3>1. Scans!Subdirs(d) \subseteq done \cup s.todo
      BY <1>1 DEF Accounts
    <3>2. ASSUME NEW g \in Scans!Under(d) \cap AudioFiles
          PROVE  \/ g \in new.todo \/ (new.pc = "read" /\ new.file = g)
                 \/ g \in DOMAIN new.found \/ Scans!ReadTrack(music[g].content) = Scans!None
      <4>1. \/ g \in s.todo \/ (s.pc = "read" /\ s.file = g)
            \/ g \in DOMAIN s.found \/ Scans!ReadTrack(music[g].content) = Scans!None
        BY <1>1 DEF Accounts
      <4>2. music[g] # Scans!NoFile
        BY DEF Scans!Under
      <4>3. CASE g = f
        BY <4>2, <4>3
      <4>4. CASE g # f
        BY <4>1, <4>4
      <4> QED BY <4>3, <4>4
    <3> QED BY <3>1, <3>2
  <2>3. ~unseen => done \cap closed = {}
    BY <1>1 DEF Accounts
  <2> QED BY <2>1, <2>2, <2>3 DEF Accounts
<1>3. new.todo \cap Scans!Dirs \subseteq Scans!Walked(Roots, closed) /\ new.todo \cap Scans!Files \subseteq Here
  BY DEF WalkIsTrue
<1>4. \A g \in DOMAIN new.known \cap Scans!Mirror : new.known[g] = music[g].stamp => Matches(g)
  BY DEF WalkIsTrue
<1> QED BY <1>2, <1>3, <1>4 DEF WalkIsTrue

LEMMA VisitFileStep == ASSUME ScanInv, NEW p \in Scanners, NEW f \in Scans!Files, Scans!VisitFile(p, f) PROVE ScanInv'
<1> PICK old \in Scanning : old = scan[p]
  BY OldScan
<1>0. /\ HonestScan(old, music, clock) /\ WithinRoots(old) /\ Scans!Files \cap Scans!Dirs = {}
      /\ unseen \in BOOLEAN /\ quiet \in [Scanners -> BOOLEAN] /\ AudioFiles \subseteq Scans!Files
      /\ clock \in Nat \ {0} /\ music[f] \in {Scans!NoFile} \cup File /\ (music[f] # Scans!NoFile => music[f].stamp <= clock)
  BY OldScan, OldDisk
<1>1. old.pc = "walk" /\ f \in old.todo /\ UNCHANGED <<Scans!world, catalog, Scans!history>>
  BY DEF Scans!VisitFile
<1> PICK stamp : stamp = music[f].stamp
  OBVIOUS
<1>2. stamp \in Nat
  BY <1>0, NoFileIs DEF File
<1> PICK seen : seen = Scans!Passed(old, f)
  OBVIOUS
<1>3. /\ seen \in Scanning /\ seen.pc = "walk" /\ seen.todo = old.todo \ {f} /\ seen.known = old.known
      /\ seen.found = old.found
  BY <1>1 DEF Scans!Passed, Scanning
<1>4. DirOf[f] \in Below /\ DOMAIN old.found \subseteq Within
      /\ seen.todo \cap Scans!Dirs \subseteq Below /\ \A g \in seen.todo \cap Scans!Files : DirOf[g] \in Below
  BY <1>0, <1>1, <1>3 DEF WithinRoots
<1>5. Steady(p) => WalkIsTrue(old) /\ f \in Here
  <2>1. Steady(p) => WalkIsTrue(old)
    BY <1>1, OldScan DEF ScanLooking
  <2> QED BY <1>1, <2>1 DEF WalkIsTrue
<1>6. Roots \subseteq Scans!Dirs /\ \A d : Scans!Subdirs(d) \subseteq Scans!Dirs
  BY DEF Scans!Dirs, Scans!Subdirs
<1>7. \A g \in DOMAIN old.found : Steady(p) =>
         /\ g \in Scans!Mirror /\ old.found[g].stamp = music[g].stamp
         /\ old.found[g].track = Scans!None => Matches(g)
  BY <1>5 DEF WalkIsTrue
<1>8. (Steady(p)' <=> Steady(p)) /\ UNCHANGED <<quiet, unseen, edited>>
  BY <1>1 DEF Steady, Scans!history
<1>9. CASE f \notin AudioFiles
  <2>1. Scans!Step(p, seen)
    BY <1>9 DEF Scans!VisitFile
  <2>2. HonestScan(seen, music, clock) /\ WithinRoots(seen)
    BY <1>0, <1>1, <1>3, <1>4 DEF HonestScan, WithinRoots, ScanLooking
  <2>3. Steady(p) => WalkIsTrue(seen)
    BY <1>0, <1>1, <1>3, <1>5, <1>6, <1>7, <1>9, FileLeaves DEF ScanLooking
  <2>4. Steady(p)' => WalkIsTrue(seen)'
    BY <1>1, <1>8, <2>3, StaysTrue
  <2> QED BY <1>0, <1>1, <1>3, <1>8, <2>1, <2>2, <2>4, ScanMoves
<1>10. CASE f \in AudioFiles /\ stamp # 0 /\ f \in DOMAIN old.known /\ old.known[f] = stamp
  <2> PICK row : row = [track |-> Scans!None, stamp |-> stamp]
    OBVIOUS
  <2>0. row \in Finding /\ row.track = Scans!None /\ row.stamp = stamp
    BY <1>2 DEF Finding
  <2> PICK found : found = Scans!With(old.found, f, row)
    OBVIOUS
  <2>1. /\ found \in Findings /\ DOMAIN found = DOMAIN old.found \cup {f} /\ found[f] = row
        /\ \A g \in DOMAIN old.found : g # f => found[g] = old.found[g]
    <3> PICK all \in Findings : all = old.found
      BY DEF Scanning
    <3>1. found = Scans!With(all, f, row) /\ all \in Findings /\ f \in Scans!Files /\ row \in Finding
      BY <2>0
    <3>2. /\ found \in Findings /\ DOMAIN found = DOMAIN all \cup {f} /\ found[f] = row
          /\ \A g \in DOMAIN all \cup {f} : g = f \/ found[g] = all[g]
      BY ONLY <3>1, WithIs
    <3> QED BY <3>2
  <2> PICK new : new = [seen EXCEPT !.found = found]
    OBVIOUS
  <2>2. /\ new \in Scanning /\ new.pc = "walk" /\ new.todo = old.todo \ {f} /\ new.known = old.known
        /\ new.found = found
    BY <1>3, <2>1 DEF Scanning
  <2>3. Scans!Step(p, new)
    BY <1>3, <1>10 DEF Scans!VisitFile
  <2>4. StillReadable(music[f], clock, stamp)
    BY <1>0, <1>10 DEF HonestScan
  <2>5. HonestScan(new, music, clock)
    <3>1. \A g \in DOMAIN found :
            IF found[g].track = Scans!None THEN StillReadable(music[g], clock, found[g].stamp)
            ELSE Honest(music[g], clock, found[g])
      BY <1>0, <1>1, <2>0, <2>1, <2>4 DEF HonestScan, ScanLooking
    <3> QED BY <1>0, <2>2, <3>1 DEF HonestScan
  <2>6. WithinRoots(new)
    <3>1. f \in Within
      BY <1>4, <1>10 DEF Within
    <3> QED BY <1>3, <1>4, <2>1, <2>2, <3>1 DEF WithinRoots
  <2>7. ASSUME Steady(p) PROVE WalkIsTrue(new)
    <3>1. f \in Here /\ WalkIsTrue(old)
      BY <1>5, <2>7
    <3>2. f \in Scans!Mirror
      BY <1>10, <2>4, <3>1 DEF Here, Scans!Mirror, StillReadable
    <3>3. Matches(f)
      BY <1>10, <3>1, <3>2 DEF WalkIsTrue
    <3>4. \A g \in DOMAIN new.found :
            /\ g \in Scans!Mirror /\ new.found[g].stamp = music[g].stamp
            /\ new.found[g].track = Scans!None => Matches(g)
      BY <1>7, <2>0, <2>1, <2>2, <2>7, <3>2, <3>3
    <3>5. f \in DOMAIN new.found /\ DOMAIN old.found \subseteq DOMAIN new.found
      BY <2>1, <2>2
    <3> QED BY <1>0, <1>1, <1>6, <2>2, <3>1, <3>4, <3>5, FileLeaves DEF ScanLooking
  <2>8. Steady(p)' => WalkIsTrue(new)'
    BY <1>1, <1>8, <2>7, StaysTrue
  <2> QED BY <1>0, <1>1, <1>8, <2>2, <2>3, <2>5, <2>6, <2>8, ScanMoves
<1>11. CASE f \in AudioFiles /\ ~(stamp # 0 /\ f \in DOMAIN old.known /\ old.known[f] = stamp)
  <2> PICK new : new = [seen EXCEPT !.pc = "read", !.file = f, !.stamp = stamp]
    OBVIOUS
  <2>2. /\ new \in Scanning /\ new.pc = "read" /\ new.todo = old.todo \ {f} /\ new.known = old.known
        /\ new.found = old.found /\ new.file = f /\ new.stamp = stamp
    BY <1>2, <1>3 DEF Scanning
  <2>3. Scans!Step(p, new)
    BY <1>3, <1>11 DEF Scans!VisitFile
  <2>4. HonestScan(new, music, clock)
    <3>1. Recorded(music[f], clock, stamp)
      BY <1>0, JustRead
    <3> QED BY <1>0, <1>1, <2>2, <3>1 DEF HonestScan, ScanLooking
  <2>5. WithinRoots(new)
    <3>1. f \in Within
      BY <1>4, <1>11 DEF Within
    <3> QED BY <1>3, <1>4, <2>2, <3>1 DEF WithinRoots
  <2>6. ASSUME Steady(p) PROVE WalkIsTrue(new)
    <3>1. f \in Here /\ WalkIsTrue(old) /\ new.stamp = music[new.file].stamp
      BY <1>5, <2>2, <2>6
    <3>2. \A g \in DOMAIN new.found :
            /\ g \in Scans!Mirror /\ new.found[g].stamp = music[g].stamp
            /\ new.found[g].track = Scans!None => Matches(g)
      BY <1>7, <2>2, <2>6
    <3>3. old.pc \in ScanLooking /\ (old.pc = "read" => old.file = f)
          /\ DOMAIN old.found \subseteq DOMAIN new.found
      BY <1>1, <2>2 DEF ScanLooking
    <3>4. new.pc = "read" => new.file \in Here /\ new.stamp = music[new.file].stamp
      BY <2>2, <3>1
    <3>5. new.pc = "read" /\ new.file = f /\ new.todo = old.todo \ {f} /\ new.known = old.known
      BY <2>2
    <3>6. /\ Scans!Files \cap Scans!Dirs = {} /\ AudioFiles \subseteq Scans!Files
          /\ Roots \subseteq Scans!Dirs /\ (\A d : Scans!Subdirs(d) \subseteq Scans!Dirs) /\ WalkIsTrue(old)
      BY <1>0, <1>6, <3>1
    <3>7. \/ f \notin AudioFiles \/ (new.pc = "read" /\ new.file = f)
          \/ f \in DOMAIN new.found \/ music[f] = Scans!NoFile \/ Scans!ReadTrack(music[f].content) = Scans!None
      BY <3>5
    <3> QED BY ONLY <3>2, <3>3, <3>4, <3>5, <3>6, <3>7, f \in Scans!Files, FileLeaves
  <2>7. Steady(p)' => WalkIsTrue(new)'
    BY <1>1, <1>8, <2>6, StaysTrue
  <2> QED BY <1>0, <1>1, <1>8, <2>2, <2>3, <2>4, <2>5, <2>7, ScanMoves
<1> QED BY <1>9, <1>10, <1>11

LEMMA ReadFileStep == ASSUME ScanInv, NEW p \in Scanners, Scans!ReadFile(p) PROVE ScanInv'
<1> PICK old \in Scanning : old = scan[p]
  BY OldScan
<1>0. /\ HonestScan(old, music, clock) /\ WithinRoots(old) /\ Scans!Files \cap Scans!Dirs = {}
      /\ unseen \in BOOLEAN /\ quiet \in [Scanners -> BOOLEAN] /\ AudioFiles \subseteq Scans!Files
      /\ \A g \in Scans!Files : music[g] \in {Scans!NoFile} \cup File
  BY OldScan, OldDisk
<1>1. old.pc = "read" /\ UNCHANGED <<Scans!world, catalog, Scans!history>>
  BY DEF Scans!ReadFile
<1> PICK f : f = old.file
  OBVIOUS
<1>2. f \in Within /\ f \in Scans!Files /\ f \in AudioFiles /\ Recorded(music[f], clock, old.stamp)
      /\ DOMAIN old.found \subseteq Within
  BY <1>0, <1>1 DEF WithinRoots, HonestScan, Within
<1> PICK track : track = IF music[f] = Scans!NoFile THEN Scans!None ELSE Scans!ReadTrack(music[f].content)
  OBVIOUS
<1>3. track = Scans!None \/ (track \in ReadTracks /\ music[f] # Scans!NoFile /\ track = Scans!ReadTrack(music[f].content))
  BY <1>0, <1>2 DEF ReadTracks, File
<1> PICK row : row = [track |-> track, stamp |-> old.stamp]
  OBVIOUS
<1>4. row \in Finding /\ row.track = track /\ row.stamp = old.stamp
  BY <1>3 DEF Finding, Scanning
<1> PICK found : found = IF track = Scans!None THEN old.found ELSE Scans!With(old.found, f, row)
  OBVIOUS
<1>5. /\ found \in Findings /\ DOMAIN old.found \subseteq DOMAIN found
      /\ DOMAIN found \subseteq DOMAIN old.found \cup {f}
      /\ \A g \in DOMAIN found : found[g] = old.found[g] \/ (g = f /\ track # Scans!None /\ found[g] = row)
      /\ \A g \in DOMAIN found : g \notin DOMAIN old.found => g = f /\ track # Scans!None /\ found[g] = row
      /\ track # Scans!None => f \in DOMAIN found
  <2>1. old.found \in Findings
    BY DEF Scanning
  <2>2. CASE track = Scans!None
    BY <2>1, <2>2
  <2>3. CASE track # Scans!None
    <3>0. PICK all \in Findings : all = old.found
      BY <2>1
    <3>1. found = Scans!With(all, f, row) /\ all \in Findings /\ f \in Scans!Files /\ row \in Finding
      BY <1>2, <1>4, <2>3, <3>0
    <3>2. /\ found \in Findings /\ DOMAIN found = DOMAIN all \cup {f} /\ found[f] = row
          /\ \A g \in DOMAIN all \cup {f} : g = f \/ found[g] = all[g]
      BY ONLY <3>1, WithIs
    <3>3. /\ DOMAIN all \subseteq DOMAIN found /\ DOMAIN found \subseteq DOMAIN all \cup {f} /\ f \in DOMAIN found
          /\ \A g \in DOMAIN found : found[g] = all[g] \/ (g = f /\ found[g] = row)
          /\ \A g \in DOMAIN found : g \notin DOMAIN all => g = f /\ found[g] = row
      BY ONLY <3>2
    <3> QED BY ONLY <2>3, <3>0, <3>2, <3>3
  <2> QED BY <2>2, <2>3
<1> PICK new : new = [old EXCEPT !.pc = "walk", !.file = Scans!None, !.found = found]
  OBVIOUS
<1>6. /\ new \in Scanning /\ new.pc = "walk" /\ new.todo = old.todo /\ new.known = old.known
      /\ new.found = found
  <2>1. found \in Findings
    BY <1>5
  <2> QED BY <2>1 DEF Scanning
<1>7. Scans!Step(p, new)
  BY <1>1 DEF Scans!ReadFile
<1>8. HonestScan(new, music, clock)
  <2>1. track # Scans!None => Honest(music[f], clock, row)
    BY <1>2, <1>3, <1>4 DEF Honest
  <2>2. ASSUME NEW g \in DOMAIN found
        PROVE  IF found[g].track = Scans!None THEN StillReadable(music[g], clock, found[g].stamp)
               ELSE Honest(music[g], clock, found[g])
    <3>1. CASE g = f /\ track # Scans!None /\ found[g] = row
      BY <1>4, <2>1, <3>1
    <3>2. CASE ~(g = f /\ track # Scans!None /\ found[g] = row)
      <4>1. found[g] = old.found[g] /\ g \in DOMAIN old.found
        BY <1>5, <3>2
      <4> QED BY <1>0, <1>1, <4>1 DEF HonestScan, ScanLooking
    <3> QED BY <3>1, <3>2
  <2>3. \A g \in DOMAIN old.known : StillReadable(music[g], clock, old.known[g])
    BY <1>0 DEF HonestScan
  <2>4. \A g \in DOMAIN found : IF found[g].track = Scans!None THEN StillReadable(music[g], clock, found[g].stamp)
                                ELSE Honest(music[g], clock, found[g])
    BY <2>2
  <2>5. new.found = found /\ new.known = old.known
    BY <1>6
  <2>6. /\ \A g \in DOMAIN new.known : StillReadable(music[g], clock, new.known[g])
        /\ \A g \in DOMAIN new.found :
             IF new.found[g].track = Scans!None THEN StillReadable(music[g], clock, new.found[g].stamp)
             ELSE Honest(music[g], clock, new.found[g])
    BY ONLY <2>3, <2>4, <2>5
  <2> QED BY <1>6, <2>6 DEF HonestScan
<1>9. WithinRoots(new)
  <2>1. DOMAIN found \subseteq Within
    BY <1>2, <1>5
  <2>2. old.todo \cap Scans!Dirs \subseteq Below /\ \A g \in old.todo \cap Scans!Files : DirOf[g] \in Below
    BY <1>0 DEF WithinRoots
  <2> QED BY <1>6, <2>1, <2>2 DEF WithinRoots
<1>10. ASSUME Steady(p) PROVE WalkIsTrue(new)
  <2>1. WalkIsTrue(old)
    BY <1>1, <1>10, OldScan DEF ScanLooking
  <2>2. f \in Here /\ old.stamp = music[f].stamp
    BY <1>1, <2>1 DEF WalkIsTrue
  <2>3. music[f] # Scans!NoFile /\ DirOf[f] \in Scans!Reachable
    BY <2>2 DEF Here
  <2>4. track # Scans!None => f \in Scans!Mirror
    BY <1>2, <1>3, <2>3 DEF Scans!Mirror
  <2>5. \A g \in DOMAIN old.found :
          /\ g \in Scans!Mirror /\ old.found[g].stamp = music[g].stamp
          /\ old.found[g].track = Scans!None => Matches(g)
    BY <2>1 DEF WalkIsTrue
  <2>6. ASSUME NEW g \in DOMAIN found
        PROVE  /\ g \in Scans!Mirror /\ found[g].stamp = music[g].stamp
               /\ found[g].track = Scans!None => Matches(g)
    <3>1. CASE g = f /\ track # Scans!None /\ found[g] = row
      BY <1>4, <2>2, <2>4, <3>1
    <3>2. CASE ~(g = f /\ track # Scans!None /\ found[g] = row)
      <4>1. found[g] = old.found[g] /\ g \in DOMAIN old.found
        BY <1>5, <3>2
      <4> QED BY <2>5, <4>1
    <3> QED BY <3>1, <3>2
  <2>7. PICK done \in SUBSET Scans!Dirs : Accounts(old, done)
    BY <2>1 DEF WalkIsTrue
  <2>8. Accounts(new, done)
    <3>1. Roots \subseteq done \cup new.todo /\ (~unseen => done \cap closed = {})
      BY <1>6, <2>7 DEF Accounts
    <3>2. ASSUME NEW d \in done \ closed
          PROVE  /\ Scans!Subdirs(d) \subseteq done \cup new.todo
                 /\ \A g \in Scans!Under(d) \cap AudioFiles :
                      \/ g \in new.todo \/ (new.pc = "read" /\ new.file = g)
                      \/ g \in DOMAIN new.found \/ Scans!ReadTrack(music[g].content) = Scans!None
      <4>1. Scans!Subdirs(d) \subseteq done \cup old.todo
        BY <2>7 DEF Accounts
      <4>2. ASSUME NEW g \in Scans!Under(d) \cap AudioFiles
            PROVE  g \in old.todo \/ g \in DOMAIN found \/ Scans!ReadTrack(music[g].content) = Scans!None
        <5>1. g \in old.todo \/ g = f \/ g \in DOMAIN old.found \/ Scans!ReadTrack(music[g].content) = Scans!None
          BY <2>7 DEF Accounts
        <5>2. track = Scans!None => Scans!ReadTrack(music[f].content) = Scans!None
          BY <2>3
        <5>3. track # Scans!None => f \in DOMAIN found
          BY <1>5
        <5> QED BY <1>5, <5>1, <5>2, <5>3
      <4> QED BY <1>6, <4>1, <4>2
    <3> QED BY <3>1, <3>2 DEF Accounts
  <2>9. new.todo \cap Scans!Dirs \subseteq Scans!Walked(Roots, closed) /\ new.todo \cap Scans!Files \subseteq Here
    BY <1>6, <2>1 DEF WalkIsTrue
  <2>10. \A g \in DOMAIN new.known \cap Scans!Mirror : new.known[g] = music[g].stamp => Matches(g)
    BY <1>6, <2>1 DEF WalkIsTrue
  <2>11. \A g \in DOMAIN new.found : /\ g \in Scans!Mirror /\ new.found[g].stamp = music[g].stamp
                                     /\ new.found[g].track = Scans!None => Matches(g)
    <3> TAKE g \in DOMAIN new.found
    <3>1. g \in DOMAIN found /\ new.found[g] = found[g]
      BY <1>6
    <3> QED BY ONLY <2>6, <3>1
  <2>12. new.pc # "read" /\ \E all \in SUBSET Scans!Dirs : Accounts(new, all)
    BY <1>6, <2>8
  <2> QED BY <2>9, <2>10, <2>11, <2>12 DEF WalkIsTrue
<1>11. Steady(p)' => WalkIsTrue(new)'
  BY <1>1, <1>10, StaysTrue DEF Steady, Scans!history
<1> QED BY <1>0, <1>1, <1>6, <1>7, <1>8, <1>9, <1>11, ScanMoves DEF Scans!history

LEMMA KeepRowsStep == ASSUME ScanInv, NEW p \in Scanners, Scans!KeepRows(p) PROVE ScanInv'
<1> PICK old \in Scanning : old = scan[p]
  BY OldScan
<1>0. /\ HonestScan(old, music, clock) /\ WithinRoots(old) /\ AudioFiles \subseteq Scans!Files
      /\ unseen \in BOOLEAN /\ quiet \in [Scanners -> BOOLEAN]
  BY OldScan
<1>1. old.pc = "walk" /\ old.todo = {} /\ UNCHANGED <<Scans!world, catalog, Scans!history>>
  BY DEF Scans!KeepRows
<1> DEFINE kept == {f \in DOMAIN old.found : old.found[f].track # Scans!None \/ catalog[f] # Scans!NoRow}
           row(f) == IF old.found[f].track # Scans!None THEN old.found[f]
                     ELSE [track |-> catalog[f].track, stamp |-> catalog[f].stamp]
<1> PICK found : found = [f \in kept |-> row(f)]
  OBVIOUS
<1>2. DOMAIN old.found \in SUBSET Scans!Files /\ \A f \in DOMAIN old.found : old.found[f] \in Finding
  <2>1. old.found \in Findings
    BY DEF Scanning
  <2> QED BY <2>1, FindingsAre
<1>3. \A f \in kept : catalog[f] # Scans!NoRow => catalog[f] \in ScanRow /\ f \in Scans!Rows(catalog)
  BY <1>2 DEF ScanInv, Types, Scans!Rows
<1>4. \A f \in kept : row(f) \in Finding /\ row(f).track # Scans!None
  <2> TAKE f \in kept
  <2>1. CASE old.found[f].track # Scans!None
    BY <1>2, <2>1
  <2>2. CASE old.found[f].track = Scans!None
    <3>1. catalog[f] \in ScanRow
      BY <1>3, <2>2
    <3>2. row(f) = [track |-> catalog[f].track, stamp |-> catalog[f].stamp]
      BY <2>2
    <3> HIDE DEF row
    <3> QED BY <3>1, <3>2 DEF ScanRow, Finding, ReadTracks
  <2> QED BY <2>1, <2>2
<1>5. found \in Findings /\ DOMAIN found = kept
  <2>1. found \in [kept -> Finding] /\ kept \in SUBSET Scans!Files
    BY <1>2, <1>4
  <2> QED BY <2>1 DEF Findings
<1> PICK new : new = [old EXCEPT !.pc = "replace", !.found = found]
  OBVIOUS
<1>6. /\ new \in Scanning /\ new.pc = "replace" /\ new.todo = {} /\ new.known = old.known
      /\ new.found = found
  BY <1>1, <1>5 DEF Scanning
<1>7. Scans!Step(p, new)
  BY <1>1 DEF Scans!KeepRows
<1>8. HonestScan(new, music, clock)
  <2>1. ASSUME NEW f \in kept PROVE Honest(music[f], clock, row(f))
    <3>1. CASE old.found[f].track # Scans!None
      BY <1>0, <1>1, <3>1 DEF HonestScan, ScanLooking
    <3>2. CASE old.found[f].track = Scans!None
      <4>1. Honest(music[f], clock, catalog[f])
        BY <1>3, <3>2 DEF ScanInv, CatalogIsHonest
      <4>2. row(f).track = catalog[f].track /\ row(f).stamp = catalog[f].stamp
        BY <3>2
      <4> QED BY <4>1, <4>2 DEF Honest
    <3> QED BY <3>1, <3>2
  <2>2. \A f \in DOMAIN found : found[f].track # Scans!None /\ Honest(music[f], clock, found[f])
    BY <1>4, <1>5, <2>1
  <2> HIDE DEF kept, row
  <2> QED BY <1>0, <1>6, <2>2 DEF HonestScan, ScanLooking
<1>9. WithinRoots(new)
  BY <1>0, <1>5, <1>6 DEF WithinRoots
<1>10. ASSUME Steady(p) PROVE FoundIsMirror(new)
  <2>1. WalkIsTrue(old)
    BY <1>1, <1>10, OldScan DEF ScanLooking
  <2>2. \A f \in DOMAIN old.found :
          /\ f \in Scans!Mirror /\ old.found[f].stamp = music[f].stamp
          /\ old.found[f].track = Scans!None => Matches(f)
    BY <2>1 DEF WalkIsTrue
  <2>3. kept = DOMAIN old.found
    BY <2>2 DEF Matches, Scans!Rows
  <2>4. PICK done \in SUBSET Scans!Dirs : Accounts(old, done)
    BY <2>1 DEF WalkIsTrue
  <2>5. Roots \subseteq done /\ \A d \in done \ closed : Scans!Subdirs(d) \subseteq done
    BY <1>1, <2>4 DEF Accounts
  <2>6. Scans!Walked(Roots, closed) \subseteq done
    BY <2>5, RootsAreDirs, WalkedIs
  <2>7. Scans!Mirror \subseteq DOMAIN old.found
    <3> SUFFICES ASSUME NEW f \in Scans!Mirror PROVE f \in DOMAIN old.found
      OBVIOUS
    <3>1. DirOf[f] \in done \ closed /\ f \in Scans!Under(DirOf[f]) \cap AudioFiles
          /\ Scans!ReadTrack(music[f].content) # Scans!None
      BY <1>0, <2>6 DEF Scans!Mirror, Scans!Reachable, Scans!Under
    <3> QED BY <1>1, <2>4, <3>1 DEF Accounts
  <2>8. DOMAIN found = Scans!Mirror
    BY <1>5, <2>2, <2>3, <2>7
  <2>9. ASSUME NEW f \in Scans!Mirror PROVE found[f].stamp = music[f].stamp
    <3>1. f \in kept /\ found[f] = row(f)
      BY <1>5, <2>8
    <3>2. CASE old.found[f].track # Scans!None
      BY <2>2, <3>1, <3>2
    <3>3. CASE old.found[f].track = Scans!None
      BY <2>2, <3>1, <3>3 DEF Matches
    <3> QED BY <3>2, <3>3
  <2>10. ~unseen => Scans!Walked(Roots, closed) \cap closed = {}
    BY <2>4, <2>6 DEF Accounts
  <2> HIDE DEF kept, row
  <2> QED BY <1>6, <2>8, <2>9, <2>10 DEF FoundIsMirror
<1>11. Steady(p)' => FoundIsMirror(new)'
  BY <1>1, <1>10, StaysTrue DEF Steady, Scans!history
<1> QED BY <1>0, <1>1, <1>6, <1>7, <1>8, <1>9, <1>11, ScanMoves DEF Scans!history, ScanLooking

\* What a replacement writes: whatever was found, and nothing else.
LEMMA Replaced ==
  ASSUME ScanInv, NEW p \in Scanners, Scans!Replace(p)
  PROVE  /\ Scans!Rows(catalog') = DOMAIN scan[p].found
         /\ catalog' \in [Scans!Files -> {Scans!NoRow} \cup ScanRow]
         /\ \A f \in Scans!Files : /\ catalog'[f] # Scans!NoRow => catalog'[f].at <= clock
                                   /\ catalog'[f] # Scans!NoRow =>
                                        Honest(music[f], clock, catalog'[f]) /\ catalog'[f].stamp = scan[p].found[f].stamp
<1> PICK old \in Scanning : old = scan[p]
  BY OldScan
<1>0. /\ HonestScan(old, music, clock) /\ clock \in Nat \ {0} /\ old.pc = "replace"
  BY OldScan, OldDisk DEF Scans!Replace
<1>1. DOMAIN old.found \in SUBSET Scans!Files /\ \A f \in DOMAIN old.found : old.found[f] \in Finding
  <2>1. old.found \in Findings
    BY DEF Scanning
  <2> QED BY <2>1, FindingsAre
<1>2. \A f \in DOMAIN old.found : old.found[f].track # Scans!None /\ Honest(music[f], clock, old.found[f])
  BY <1>0 DEF HonestScan
<1>3. catalog \in [Scans!Files -> {Scans!NoRow} \cup ScanRow] /\ StampsArePast /\ CatalogIsHonest
  BY DEF ScanInv, Types
<1> DEFINE keeps(f) == catalog[f] # Scans!NoRow /\ catalog[f].stamp # 0 /\ catalog[f].stamp = old.found[f].stamp
           fresh(f) == [track |-> old.found[f].track, stamp |-> old.found[f].stamp, at |-> clock]
<1>4. catalog' = [f \in Scans!Files |-> IF f \notin DOMAIN old.found THEN Scans!NoRow
                                  ELSE IF keeps(f) THEN catalog[f] ELSE fresh(f)]
  BY DEF Scans!Replace, Scans!ReplaceCatalog
<1>5. \A f \in DOMAIN old.found : /\ fresh(f) \in ScanRow /\ fresh(f).track = old.found[f].track
                                  /\ fresh(f).stamp = old.found[f].stamp /\ fresh(f).at = clock
  BY <1>0, <1>1, <1>2 DEF Finding, ScanRow
<1>6. \A f \in DOMAIN old.found : Honest(music[f], clock, fresh(f))
  BY <1>2, <1>5 DEF Honest
<1> HIDE DEF fresh
<1>7. ASSUME NEW f \in Scans!Files
      PROVE  /\ catalog'[f] \in {Scans!NoRow} \cup ScanRow
             /\ catalog'[f] # Scans!NoRow <=> f \in DOMAIN old.found
             /\ catalog'[f] # Scans!NoRow => catalog'[f].at <= clock
             /\ catalog'[f] # Scans!NoRow =>
                  Honest(music[f], clock, catalog'[f]) /\ catalog'[f].stamp = old.found[f].stamp
  <2>1. CASE f \notin DOMAIN old.found
    BY <1>4, <2>1
  <2>2. CASE f \in DOMAIN old.found /\ keeps(f)
    <3>1. catalog'[f] = catalog[f] /\ catalog[f] # Scans!NoRow /\ catalog[f] \in ScanRow
      BY <1>3, <1>4, <2>2
    <3>2. catalog[f].at <= clock
      BY <1>3, <3>1 DEF StampsArePast
    <3>3. Honest(music[f], clock, catalog[f])
      BY <1>3, <3>1 DEF CatalogIsHonest, Scans!Rows
    <3> QED BY <2>2, <3>1, <3>2, <3>3
  <2>3. CASE f \in DOMAIN old.found /\ ~keeps(f)
    <3>1. catalog'[f] = fresh(f)
      BY <1>4, <2>3
    <3>2. fresh(f) # Scans!NoRow
      BY <1>5, <2>3, NoFileIs
    <3> QED BY <1>0, <1>5, <1>6, <2>3, <3>1, <3>2
  <2> QED BY <2>1, <2>2, <2>3
<1>8. Scans!Rows(catalog') = DOMAIN old.found
  BY <1>1, <1>7 DEF Scans!Rows
<1>9. catalog' \in [Scans!Files -> {Scans!NoRow} \cup ScanRow]
  BY <1>4, <1>7
<1> QED BY <1>7, <1>8, <1>9

LEMMA ReplaceStep == ASSUME ScanInv, NEW p \in Scanners, Scans!Replace(p) PROVE ScanInv'
<1> PICK old \in Scanning : old = scan[p]
  BY OldScan
<1>0. Types /\ Scans!ScanAssumption /\ WithinRoots(old) /\ old.pc = "replace"
  BY OldScan DEF ScanInv, Scans!Replace
<1> PICK all \in BOOLEAN : all = Scans!SeesAll(p)
  BY DEF Scans!SeesAll
<1>1. /\ Scans!Step(p, Scans!Idle) /\ quiet' = [q \in Scanners |-> FALSE] /\ UNCHANGED Scans!world
      /\ UNCHANGED <<music, dirTime, closed, clock, changes>>
      /\ unseen' = (unseen /\ ~all) /\ edited' = IF all THEN {} ELSE edited
  BY DEF Scans!Replace, Scans!world
<1>a. all => /\ quiet[p] /\ Scans!Walked(Roots, closed) \cap closed = {}
             /\ \A q \in Scanners : q # p => scan[q].pc = "idle"
  BY DEF Scans!SeesAll
<1>2. /\ scan' \in [Scanners -> Scanning] /\ scan'[p] = Scans!Idle
      /\ \A q \in Scanners : q # p => scan'[q] = scan[q]
  BY <1>0, <1>1, IdleIs, OneScans
<1>3. /\ Scans!Rows(catalog') = DOMAIN old.found
      /\ catalog' \in [Scans!Files -> {Scans!NoRow} \cup ScanRow]
      /\ \A f \in Scans!Files : /\ catalog'[f] # Scans!NoRow => catalog'[f].at <= clock
                                /\ catalog'[f] # Scans!NoRow =>
                                     Honest(music[f], clock, catalog'[f]) /\ catalog'[f].stamp = old.found[f].stamp
  BY Replaced
<1>4. Types'
  <2>1. quiet' \in [Scanners -> BOOLEAN] /\ \A q \in Scanners : ~quiet'[q]
    BY <1>1
  <2>2. unseen' \in BOOLEAN /\ edited' \in SUBSET Scans!Files
    BY <1>0, <1>1 DEF Types
  <2> QED BY <1>0, <1>1, <1>2, <1>3, <2>1, <2>2 DEF Types
<1>5. StampsArePast' /\ CatalogIsHonest'
  <2>1. StampsArePast'
    BY <1>1, <1>3 DEF ScanInv, StampsArePast
  <2>2. \A f \in Scans!Rows(catalog') : f \in Scans!Files /\ catalog'[f] # Scans!NoRow
    BY DEF Scans!Rows
  <2> QED BY <1>1, <1>3, <2>1, <2>2 DEF CatalogIsHonest
<1>6. HonestScan(Scans!Idle, music, clock) /\ WithinRoots(Scans!Idle) /\ Scans!Idle.pc = "idle"
  BY IdleIs DEF HonestScan, WithinRoots, ScanLooking
<1>7. ScansAreHonest'
  <2>1. \A q \in Scanners : HonestScan(scan'[q], music, clock)
    BY <1>2, <1>6 DEF ScanInv, ScansAreHonest
  <2> QED BY <1>1, <2>1 DEF ScansAreHonest
<1>8. AllWithinRoots'
  <2>1. \A q \in Scanners : WithinRoots(scan'[q])
    BY <1>2, <1>6 DEF ScanInv, AllWithinRoots
  <2>2. Scans!Rows(catalog') \subseteq Within
    BY <1>0, <1>3 DEF WithinRoots
  <2> QED BY <2>1, <2>2 DEF AllWithinRoots
<1>9. ~unseen' => /\ Scans!Rows(catalog') = Scans!Mirror
                  /\ \A f \in Scans!Mirror : catalog'[f].stamp = music[f].stamp
                  /\ Scans!Walked(Roots, closed) \cap closed = {}
  <2> SUFFICES ASSUME ~unseen' PROVE /\ Scans!Rows(catalog') = Scans!Mirror
                                     /\ \A f \in Scans!Mirror : catalog'[f].stamp = music[f].stamp
                                     /\ Scans!Walked(Roots, closed) \cap closed = {}
    OBVIOUS
  <2>1. FoundIsMirror(old)
    BY <1>0, <1>1, <1>a, OldScan DEF Steady
  <2>2. \A f \in Scans!Rows(catalog') : f \in Scans!Files /\ catalog'[f] # Scans!NoRow
    BY DEF Scans!Rows
  <2> QED BY <1>1, <1>3, <1>a, <2>1, <2>2 DEF FoundIsMirror
<1>10. SteadyScans'
  <2> SUFFICES ASSUME NEW q \in Scanners, Steady(q)'
               PROVE  /\ scan'[q].pc \in ScanLooking => WalkIsTrue(scan[q])'
                      /\ scan'[q].pc = "replace" => FoundIsMirror(scan[q])'
    BY DEF SteadyScans
  <2>1. ~unseen' /\ (~unseen \/ all)
    BY <1>1 DEF Steady
  <2>2. CASE q = p
    BY <1>2, <1>6, <2>2 DEF ScanLooking
  <2>a. CASE q # p /\ all
    BY <1>2, <1>a, <2>a DEF ScanLooking
  <2>3. CASE q # p /\ ~all
    <3> PICK s : s = scan[q] /\ s = scan'[q]
      BY <1>2, <2>3
    <3>0. ~unseen
      BY <2>1, <2>3
    <3>1. (s.pc \in ScanLooking => WalkIsTrue(s)) /\ (s.pc = "replace" => FoundIsMirror(s))
      BY <3>0 DEF ScanInv, SteadyScans, Steady
    <3>2. Scans!Mirror' = Scans!Mirror /\ Here' = Here /\ \A d : Scans!Under(d)' = Scans!Under(d)
      BY <1>1 DEF Scans!Mirror, Here, Scans!Reachable, Scans!Under
    <3>3. \A f \in Scans!Mirror : Matches(f)'
      BY <1>1, <1>9, <2>1 DEF Matches
    <3>4. ASSUME NEW done, Accounts(s, done) PROVE Accounts(s, done)'
      BY <1>1, <3>0, <3>2, <3>4 DEF Accounts
    <3>5. WalkIsTrue(s) => WalkIsTrue(s)'
      BY <1>1, <3>2, <3>3, <3>4 DEF WalkIsTrue
    <3>6. FoundIsMirror(s) => FoundIsMirror(s)'
      BY <1>1, <3>0, <3>2 DEF FoundIsMirror
    <3> QED BY <3>1, <3>5, <3>6
  <2> QED BY <2>2, <2>a, <2>3
<1>11. NothingEscaped'
  <2>1. \A q \in Scanners : ~quiet'[q]
    BY <1>1
  <2>2. ASSUME ~unseen', NEW f \in Within
        PROVE  f \in Scans!Rows(catalog') <=> music[f] # Scans!NoFile /\ Scans!ReadTrack(music[f].content) # Scans!None
    <3>1. Scans!Walked(Roots, closed) = Below
      BY <1>9, <2>2, RootsAreDirs, WalkedMore DEF Below
    <3>2. f \in AudioFiles /\ DirOf[f] \in Scans!Reachable
      BY <1>9, <2>2, <3>1 DEF Within, Scans!Reachable
    <3> QED BY <1>9, <2>2, <3>2 DEF Scans!Mirror
  <2> QED BY <1>1, <2>1, <2>2 DEF NothingEscaped
<1> QED BY <1>0, <1>4, <1>5, <1>7, <1>8, <1>10, <1>11 DEF ScanInv

LEMMA ScanStep == ScanInv /\ [Scans!Next]_(Scans!vars) => ScanInv'
<1> SUFFICES ASSUME ScanInv, [Scans!Next]_(Scans!vars) PROVE ScanInv'
  OBVIOUS
<1>1. ASSUME NEW p \in Scanners, Scans!Scanner(p) PROVE ScanInv'
  BY <1>1, BeginSteps, ReadStampsStep, VisitDirStep, VisitFileStep, ReadFileStep, KeepRowsStep,
     ReplaceStep DEF Scans!Scanner
<1>2. CASE UNCHANGED Scans!vars
  <2>1. UNCHANGED <<Scans!world, catalog, scan, Scans!history>> /\ UNCHANGED <<music, dirTime, closed, clock, changes>>
        /\ UNCHANGED <<quiet, unseen, edited>>
    BY <1>2 DEF Scans!vars, Scans!world, Scans!history
  <2>2. Types' /\ StampsArePast' /\ CatalogIsHonest' /\ ScansAreHonest' /\ AllWithinRoots'
    BY <2>1 DEF ScanInv, Types, StampsArePast, CatalogIsHonest, Scans!Rows, ScansAreHonest, AllWithinRoots
  <2>3. SteadyScans'
    <3>1. \A s : (WalkIsTrue(s) => WalkIsTrue(s)') /\ (FoundIsMirror(s) => FoundIsMirror(s)')
      BY <2>1, StaysTrue
    <3>2. \A q : Steady(q)' <=> Steady(q)
      BY <2>1 DEF Steady
    <3> QED BY <2>1, <3>1, <3>2 DEF ScanInv, SteadyScans
  <2>4. NothingEscaped'
    <3>1. Scans!LastScannedAt' = Scans!LastScannedAt
      BY <2>1 DEF Scans!LastScannedAt, Scans!Rows
    <3> QED BY <2>1, <3>1 DEF ScanInv, NothingEscaped, Scans!Rows
  <2> QED BY <2>2, <2>3, <2>4 DEF ScanInv
<1> QED BY <1>1, <1>2, DiskStep, TickStep DEF Scans!Next

\* A row whose stamp is the file's has the file's tags, whatever is written
\* into the directories while whoever scans them (scan_inner,
\* replace_catalog).
THEOREM StampsVouch == Scans!ScanAssumption => (Scans!Spec => []StampsAreHonest)
<1>1. ScanInv => StampsAreHonest
  BY DEF ScanInv, CatalogIsHonest, StampsAreHonest, Scans!StampsAreHonest, Honest
<1> QED BY <1>1, ScanInit, ScanStep, PTL DEF Scans!Spec

\* A scan that nothing is written under leaves a mirror of what can be read:
\* every audio file with tags it can read, and no row of anything else
\* (scan_inner).
THEOREM QuietScans == Scans!ScanAssumption => (Scans!Spec => QuietScanMirrors)
<1> DEFINE Mirrors == \A p \in Scanners :
             Scans!Replace(p) /\ quiet[p] =>
               /\ Scans!Rows(catalog') = Scans!Mirror
               /\ \A f \in Scans!Mirror : catalog'[f].track = Scans!ReadTrack(music[f].content)
<1>1. ScanInv => Mirrors
  <2> SUFFICES ASSUME ScanInv, NEW p \in Scanners, Scans!Replace(p), quiet[p]
               PROVE  /\ Scans!Rows(catalog') = Scans!Mirror
                      /\ \A f \in Scans!Mirror : catalog'[f].track = Scans!ReadTrack(music[f].content)
    OBVIOUS
  <2>1. FoundIsMirror(scan[p])
    BY OldScan DEF Steady, Scans!Replace
  <2>2. Scans!Rows(catalog') = Scans!Mirror
    BY <2>1, Replaced DEF FoundIsMirror
  <2>3. ASSUME NEW f \in Scans!Mirror PROVE catalog'[f].track = Scans!ReadTrack(music[f].content)
    <3>1. f \in Scans!Files /\ catalog'[f] # Scans!NoRow
      BY <2>2 DEF Scans!Rows
    <3>2. Honest(music[f], clock, catalog'[f]) /\ catalog'[f].stamp = scan[p].found[f].stamp
      BY <3>1, Replaced
    <3>3. scan[p].found[f].stamp = music[f].stamp /\ music[f] # Scans!NoFile
      BY <2>1 DEF FoundIsMirror, Scans!Mirror
    <3> QED BY <3>2, <3>3 DEF Honest
  <2> QED BY <2>2, <2>3
<1>2. Scans!ScanAssumption => (Scans!Spec => [][Mirrors]_(Scans!vars))
  BY <1>1, ScanInit, ScanStep, PTL DEF Scans!Spec
<1> QED BY <1>2 DEF QuietScanMirrors, Scans!QuietScanMirrors

\* A scan that is skipped would have found nothing, but for the files that were
\* changed in place: unless, since the last undisturbed scan of everything, a
\* change ran into a scan or its last millisecond or a directory was passed over
\* as unreadable, the newest time of the directories below the roots tells of
\* every file that came or went (scan_providers_if_stale, newest_dir_mtime_ms).
THEOREM SkipsAreJustified == Scans!ScanAssumption => (Scans!Spec => SkipIsJustified)
<1> DEFINE Justified == \A p \in Scanners :
             Scans!Skip(p) /\ quiet[p] /\ ~unseen => Scans!Rows(catalog) \ edited = Scans!Mirror \ edited
<1>1. ScanInv => Justified
  <2> SUFFICES ASSUME ScanInv, NEW p \in Scanners, Scans!Skip(p), quiet[p], ~unseen
               PROVE  Scans!Rows(catalog) \ edited = Scans!Mirror \ edited
    OBVIOUS
  <2>1. scan[p].pc = "ask" /\ ~Scans!Stale(scan[p].last)
    BY DEF Scans!Skip
  <2>2. scan[p].last = Scans!LastScannedAt
    BY <2>1 DEF ScanInv, NothingEscaped
  <2>3. closed = {} /\ \A stamp \in Scans!WalkDirStamps(Roots) : ~(stamp > Scans!LastScannedAt)
    BY <2>1, <2>2 DEF Scans!Stale
  <2>4. Scans!Walked(Roots, closed) = Below /\ Scans!Reachable = Below
    BY <2>3 DEF Below, Scans!Reachable
  <2>5. ASSUME NEW f \in Within PROVE dirTime[DirOf[f]] <= Scans!LastScannedAt
    <3>1. DirOf[f] \in Below /\ DirOf[f] \in Scans!Dirs
      BY RootsAreDirs, WalkedIs DEF Within, Below
    <3>2. dirTime[DirOf[f]] \in Scans!WalkDirStamps(Roots)
      BY <2>4, <3>1 DEF Scans!WalkDirStamps
    <3>3. dirTime[DirOf[f]] \in Nat /\ Scans!LastScannedAt \in Nat
      BY <3>1, LastIs DEF ScanInv, Types
    <3> QED BY <2>3, <3>2, <3>3
  <2>6. \A f \in Within \ edited :
          f \in Scans!Rows(catalog) <=> music[f] # Scans!NoFile /\ Scans!ReadTrack(music[f].content) # Scans!None
    BY <2>5 DEF ScanInv, NothingEscaped
  <2>7. Scans!Rows(catalog) \subseteq Within
    BY DEF ScanInv, AllWithinRoots
  <2>8. \A f : f \in Scans!Mirror <=> f \in Within /\ music[f] # Scans!NoFile /\ Scans!ReadTrack(music[f].content) # Scans!None
    BY <2>4 DEF Scans!Mirror, Within
  <2> QED BY <2>6, <2>7, <2>8
<1>2. Scans!ScanAssumption => (Scans!Spec => [][Justified]_(Scans!vars))
  BY <1>1, ScanInit, ScanStep, PTL DEF Scans!Spec
<1> QED BY <1>2 DEF SkipIsJustified, Scans!SkipIsJustified

---------------------------------------------------------------------------
(* The library: what the schema, the rows and each process know of each    *)
(* other.                                                                  *)

\* Every statement of the migrations before this one took effect.
DoneTo(done, m, s) ==
  \A x \in DOMAIN Migrations : \A y \in 1..Migrations[x] :
    x < m \/ (x = m /\ y < s) => <<x, y>> \in done

Positions == {"closed", "migrate", "version", "ready", "resolve", "begin", "write", "set", "done", "asked"}

Shaped(table) == DOMAIN table = Keys /\ \A k \in Keys : DOMAIN table[k] = DOMAIN NoRow

\* A process is where its migrations let it be.
Migrated(s, done) ==
  /\ s.pc = "migrate" =>
       s.at[1] \in DOMAIN Migrations /\ s.at[2] \in 1..Migrations[s.at[1]] /\ DoneTo(done, s.at[1], s.at[2])
  /\ s.pc = "version" => s.at[1] \in DOMAIN Migrations /\ DoneTo(done, s.at[1] + 1, 1)
  /\ s.pc \notin {"closed", "migrate", "version"} => DoneTo(done, Len(Migrations) + 1, 1)

\* An identity was found for each track that is to be written.
Resolved(s) ==
  DOMAIN s.found = KeysOf(s.offered) /\ \A key \in DOMAIN s.found : s.found[key].id # NoId

\* What was found reaches the rows: it is there, or still to be written.
Imports(s, table) ==
  /\ s.pc \in {"resolve", "begin", "write"} => OfTracks(s.offered)
  /\ s.pc \in {"closed", "migrate", "version", "ready", "resolve"} => s.found = <<>>
  /\ s.pc \in {"begin", "write"} => s.found = <<>> \/ Resolved(s)
  /\ s.pc = "set" =>
       /\ s.todo \in Seq(DOMAIN s.found) /\ DOMAIN s.found \subseteq Keys
       /\ \A key \in DOMAIN s.found :
            /\ s.found[key].id # NoId /\ table[key].known
            /\ key \in ToSet(s.todo) \/ table[key].id # NoId
  /\ s.pc = "done" =>
       s.found = <<>> \/ \A key \in DOMAIN s.found : key \in Keys /\ table[key].known /\ table[key].id # NoId

Fits(s, table, done) ==
  DOMAIN s = DOMAIN Closed /\ s.pc \in Positions /\ Migrated(s, done) /\ Imports(s, table)

LibraryInv ==
  /\ LibraryAssumption
  /\ DOMAIN schema = {"version", "done"} /\ schema.version \in 0..Len(Migrations)
  /\ DoneTo(schema.done, schema.version + 1, 1)
  /\ Shaped(rows)
  /\ DOMAIN proc = Procs /\ \A p \in Procs : Fits(proc[p], rows, schema.done)

---------------------------------------------------------------------------
(* The library: the folds of an import. The rows take every track, the     *)
(* listens every listen, and the keys come in the order of the listens.    *)

Taken(fold, value, item) ==
  IF fold = "rows" THEN Upsert(value, item)
  ELSE IF fold = "listens" THEN InsertListen(value, item) ELSE WithKey(value, item)

\* One item after the other is taken.
Taking(fold, run, base, items, n) ==
  run[0] = base /\ \A i \in 1..n : run[i] = Taken(fold, run[i - 1], items[i])

\* What a fold does with some of the items, given what it does with fewer.
TakenOf(fold, iter, base, items, s) ==
  IF s = {} THEN base ELSE Taken(fold, iter[s \ {Max(s)}], items[Max(s)])

LEMMA GreatestIs ==
  ASSUME NEW m \in Nat, NEW S \in SUBSET (1..m), m \in S
  PROVE  Max(S) = m
<1>1. m \in S /\ \A y \in S : m >= y
  OBVIOUS
<1>2. \A x \in S : (\A y \in S : x >= y) => x = m
  OBVIOUS
<1> QED BY <1>1, <1>2 DEF Max

LEMMA FoldsExist ==
  ASSUME NEW fold, NEW base, NEW items, NEW n \in Nat
  PROVE  \E iter : iter = [s \in SUBSET (1..n) |-> TakenOf(fold, iter, base, items, s)]
<1> DEFINE exists(m) == \E iter : iter = [s \in SUBSET (1..m) |-> TakenOf(fold, iter, base, items, s)]
           gaps == {m \in Nat : ~exists(m)}
<1>1. exists(0)
  <2> PICK iter : iter = [s \in {{}} |-> base]
    OBVIOUS
  <2>1. SUBSET (1..0) = {{}}
    OBVIOUS
  <2>2. iter = [s \in SUBSET (1..0) |-> TakenOf(fold, iter, base, items, s)]
    BY <2>1 DEF TakenOf
  <2> QED BY <2>2
<1>2. ASSUME NEW m \in Nat, exists(m) PROVE exists(m + 1)
  <2>1. PICK old : old = [s \in SUBSET (1..m) |-> TakenOf(fold, old, base, items, s)]
    BY <1>2
  <2> PICK new : new = [s \in SUBSET (1..m + 1) |->
                          IF m + 1 \in s THEN Taken(fold, old[s \ {m + 1}], items[m + 1]) ELSE old[s]]
    OBVIOUS
  <2>2. ASSUME NEW s \in SUBSET (1..m + 1) PROVE new[s] = TakenOf(fold, new, base, items, s)
    <3>1. CASE m + 1 \in s
      <4>1. Max(s) = m + 1
        BY <3>1, GreatestIs
      <4> PICK less : less = s \ {m + 1}
        OBVIOUS
      <4>a. \A x \in less : x \in 1..m + 1 /\ x # m + 1
        OBVIOUS
      <4>b. \A x \in less : x \in 1..m
        BY <4>a
      <4>2. s \ {m + 1} \in SUBSET (1..m) /\ s \ {m + 1} \in SUBSET (1..m + 1) /\ m + 1 \notin s \ {m + 1}
        BY <4>a, <4>b
      <4>3. new[s \ {m + 1}] = old[s \ {m + 1}]
        BY <4>2
      <4>4. new[s] = Taken(fold, old[s \ {m + 1}], items[m + 1])
        BY <3>1
      <4> QED BY <3>1, <4>1, <4>3, <4>4 DEF TakenOf
    <3>2. CASE m + 1 \notin s
      <4>1. s \in SUBSET (1..m)
        BY <3>2
      <4>2. new[s] = old[s] /\ old[s] = TakenOf(fold, old, base, items, s)
        BY <2>1, <3>2, <4>1
      <4> PICK less : less = s \ {Max(s)}
        OBVIOUS
      <4>a. less \in SUBSET (1..m) /\ m + 1 \notin less
        BY <3>2, <4>1
      <4>3. s \ {Max(s)} \in SUBSET (1..m) /\ s \ {Max(s)} \in SUBSET (1..m + 1) /\ m + 1 \notin s \ {Max(s)}
        BY <4>a
      <4>4. new[s \ {Max(s)}] = old[s \ {Max(s)}]
        BY <4>3
      <4> QED BY <4>2, <4>4 DEF TakenOf
    <3> QED BY <3>1, <3>2
  <2> QED BY <2>2
<1>3. gaps = {}
  <2> SUFFICES ASSUME gaps # {} PROVE FALSE
    OBVIOUS
  <2> HIDE DEF exists
  <2>1. PICK m \in gaps : \A k \in gaps : m <= k
    BY Smallest
  <2>2. m # 0
    BY <1>1
  <2>a. m \in Nat /\ m - 1 \in Nat /\ m = (m - 1) + 1 /\ ~(m <= m - 1)
    BY <2>2
  <2>3. m - 1 \in Nat /\ m - 1 \notin gaps /\ m = (m - 1) + 1
    BY <2>1, <2>a
  <2>4. exists(m - 1)
    BY <2>3
  <2>5. exists((m - 1) + 1)
    BY <1>2, <2>3, <2>4
  <2> QED BY <2>3, <2>5
<1> QED BY <1>3

LEMMA FoldsAre ==
  ASSUME NEW fold \in {"rows", "listens", "keys"}, NEW base, NEW items, NEW n \in Nat, DOMAIN items = 1..n
  PROVE  \E run : /\ Taking(fold, run, base, items, n)
                  /\ fold = "rows" => FoldLeft(Upsert, base, items) = run[n]
                  /\ fold = "listens" => FoldLeft(InsertListen, base, items) = run[n]
                  /\ fold = "keys" => FoldLeft(WithKey, base, items) = run[n]
<1> DEFINE iter == CHOOSE iter : iter = [s \in SUBSET (1..n) |-> TakenOf(fold, iter, base, items, s)]
<1>1. iter = [s \in SUBSET (1..n) |-> TakenOf(fold, iter, base, items, s)]
  BY FoldsExist
<1>a. fold = "rows" => FoldLeft(Upsert, base, items) = iter[1..n]
  BY DEF FoldLeft, MapThenFoldSet, TakenOf, Taken
<1>c. fold = "listens" => FoldLeft(InsertListen, base, items) = iter[1..n]
  BY DEF FoldLeft, MapThenFoldSet, TakenOf, Taken
<1>b. fold = "keys" => FoldLeft(WithKey, base, items) = iter[1..n]
  BY DEF FoldLeft, MapThenFoldSet, TakenOf, Taken
<1> HIDE DEF iter
<1> PICK run : run = [i \in 0..n |-> iter[1..i]]
  OBVIOUS
<1>3. run[0] = base
  <2>1. 1..0 = {} /\ 1..0 \in SUBSET (1..n) /\ run[0] = iter[1..0]
    OBVIOUS
  <2> QED BY <1>1, <2>1 DEF TakenOf
<1>4. ASSUME NEW i \in 1..n PROVE run[i] = Taken(fold, run[i - 1], items[i])
  <2>1. Max(1..i) = i
    BY GreatestIs
  <2>2. (1..i) \ {i} = 1..(i - 1) /\ 1..i # {} /\ 1..i \in SUBSET (1..n)
    <3>1. (1..i) \ {i} = 1..(i - 1)
      OBVIOUS
    <3>2. i \in 1..i /\ 1..i \in SUBSET (1..n)
      OBVIOUS
    <3> QED BY <3>1, <3>2
  <2>3. run[i] = iter[1..i] /\ run[i - 1] = iter[1..(i - 1)]
    <3>1. i \in 0..n /\ i - 1 \in 0..n
      OBVIOUS
    <3> QED BY <3>1
  <2>4. iter[1..i] = TakenOf(fold, iter, base, items, 1..i)
    BY <1>1, <2>2
  <2> QED BY <2>1, <2>2, <2>3, <2>4 DEF TakenOf
<1>5. run[n] = iter[1..n]
  <2>1. n \in 0..n
    OBVIOUS
  <2> QED BY <2>1
<1> QED BY <1>a, <1>b, <1>c, <1>3, <1>4, <1>5 DEF Taking

---------------------------------------------------------------------------
(* The library: the rows.                                                  *)

\* Nothing is forgotten of a track that is there, least of all its identity.
KeepsIds(old, new) ==
  \A k \in Keys : old[k].known => new[k].known /\ new[k].id = old[k].id

LEMMA UpsertIs ==
  ASSUME NEW table, NEW track, Shaped(table), TrackKey(track) \in Keys
  PROVE  /\ Shaped(Upsert(table, track)) /\ KeepsIds(table, Upsert(table, track))
         /\ Upsert(table, track)[TrackKey(track)].known
<1> DEFINE key == TrackKey(track)
           old == table[TrackKey(track)]
           new == IF old.known THEN [old EXCEPT !.track = Completed(old.track, track)]
                  ELSE [NoRow EXCEPT !.known = TRUE, !.track = track]
<1>1. DOMAIN old = DOMAIN NoRow
  BY DEF Shaped
<1>2. DOMAIN NoRow = {"known", "track", "id", "method"}
  BY DEF NoRow
<1>3. DOMAIN new = DOMAIN NoRow /\ new.known /\ (old.known => new.id = old.id)
  <2>1. CASE old.known
    <3>1. /\ DOMAIN new = DOMAIN old /\ new["known"] = old["known"] /\ new["id"] = old["id"]
      BY <1>1, <1>2, <2>1
    <3> QED BY <1>1, <2>1, <3>1
  <2>2. CASE ~old.known
    BY <1>2, <2>2 DEF NoRow
  <2> QED BY <2>1, <2>2
<1>4. Upsert(table, track) = [table EXCEPT ![key] = new]
  BY DEF Upsert
<1> HIDE DEF new
<1>5. /\ DOMAIN Upsert(table, track) = Keys /\ Upsert(table, track)[key] = new
      /\ \A k \in Keys : k # key => Upsert(table, track)[k] = table[k]
  BY <1>4 DEF Shaped
<1> QED BY <1>3, <1>5 DEF Shaped, KeepsIds

\* What a list of listens writes: every track of it is there, and nothing is
\* forgotten.
LEMMA WrittenIs ==
  ASSUME NEW table, NEW offered, Shaped(table), OfTracks(offered)
  PROVE  /\ Shaped(FoldLeft(Upsert, table, TracksOf(offered)))
         /\ KeepsIds(table, FoldLeft(Upsert, table, TracksOf(offered)))
         /\ \A key \in KeysOf(offered) : FoldLeft(Upsert, table, TracksOf(offered))[key].known
<1> PICK n \in Nat : n = Len(offered)
  BY DEF OfTracks
<1> PICK recs : recs = TracksOf(offered)
  OBVIOUS
<1>1. DOMAIN recs = 1..n /\ DOMAIN offered = 1..n
  BY DEF TracksOf, OfTracks
<1>2. \A i \in 1..n : recs[i] = offered[i].track /\ TrackKey(recs[i]) \in Keys
  BY <1>1 DEF TracksOf, OfTracks
<1>3. PICK run : Taking("rows", run, table, recs, n) /\ FoldLeft(Upsert, table, recs) = run[n]
  BY <1>1, FoldsAre
<1> DEFINE good(i) == /\ Shaped(run[i]) /\ KeepsIds(table, run[i])
                      /\ \A j \in 1..i : run[i][TrackKey(recs[j])].known
           gaps == {i \in 0..n : ~good(i)}
<1>4. good(0)
  BY <1>3 DEF Taking, KeepsIds
<1>5. ASSUME NEW i \in 1..n, good(i - 1) PROVE good(i)
  <2>1. run[i] = Upsert(run[i - 1], recs[i])
    BY <1>3 DEF Taking, Taken
  <2>2. /\ Shaped(run[i]) /\ KeepsIds(run[i - 1], run[i]) /\ run[i][TrackKey(recs[i])].known
    BY <1>2, <1>5, <2>1, UpsertIs
  <2>3. KeepsIds(table, run[i])
    BY <1>5, <2>2 DEF KeepsIds
  <2>4. ASSUME NEW j \in 1..i PROVE run[i][TrackKey(recs[j])].known
    <3>1. CASE j = i
      BY <2>2, <3>1
    <3>2. CASE j # i
      <4>1. j \in 1..(i - 1) /\ j \in 1..n
        BY <3>2
      <4>2. run[i - 1][TrackKey(recs[j])].known
        BY <1>5, <4>1
      <4> QED BY <1>2, <2>2, <4>1, <4>2 DEF KeepsIds
    <3> QED BY <3>1, <3>2
  <2> QED BY <2>2, <2>3, <2>4
<1>6. good(n)
  <2> HIDE DEF good
  <2>1. gaps = {}
    <3> SUFFICES ASSUME gaps # {} PROVE FALSE
      OBVIOUS
    <3>0. gaps \subseteq Nat
      OBVIOUS
    <3>1. PICK m \in gaps : \A k \in gaps : m <= k
      BY <3>0, Smallest
    <3>2. m # 0
      BY <1>4
    <3>a. m \in 1..n /\ m - 1 \in 0..n /\ ~(m <= m - 1)
      BY <3>2
    <3>3. good(m - 1)
      BY <3>1, <3>a
    <3> QED BY <1>5, <3>a, <3>3
  <2>2. n \in 0..n
    OBVIOUS
  <2> QED BY <2>1, <2>2
<1>7. \A key \in KeysOf(offered) : \E j \in 1..n : key = TrackKey(recs[j])
  BY <1>1, <1>2 DEF KeysOf
<1> QED BY <1>3, <1>6, <1>7

\* Every key is listed.
LEMMA KeysAreListed ==
  ASSUME NEW offered, OfTracks(offered)
  PROVE  /\ KeysInOrder(offered) \in Seq(KeysOf(offered))
         /\ KeysOf(offered) \subseteq ToSet(KeysInOrder(offered))
<1> PICK n \in Nat : n = Len(offered)
  BY DEF OfTracks
<1>1. DOMAIN offered = 1..n
  BY DEF OfTracks
<1> PICK K : K = KeysOf(offered)
  OBVIOUS
<1>2. \A i \in 1..n : TrackKey(offered[i].track) \in K
  BY <1>1 DEF KeysOf
<1>3. PICK run : Taking("keys", run, <<>>, offered, n) /\ FoldLeft(WithKey, <<>>, offered) = run[n]
  BY <1>1, FoldsAre
<1> DEFINE good(i) == run[i] \in Seq(K) /\ \A j \in 1..i : TrackKey(offered[j].track) \in ToSet(run[i])
           gaps == {i \in 0..n : ~good(i)}
<1>4. good(0)
  BY <1>3 DEF Taking
<1>5. ASSUME NEW i \in 1..n, good(i - 1) PROVE good(i)
  <2>1. run[i] = WithKey(run[i - 1], offered[i])
    BY <1>3 DEF Taking, Taken
  <2> PICK old \in Seq(K) : old = run[i - 1]
    BY <1>5
  <2> PICK key \in K : key = TrackKey(offered[i].track)
    BY <1>2
  <2>2. run[i] \in Seq(K) /\ key \in ToSet(run[i]) /\ ToSet(old) \subseteq ToSet(run[i])
    <3>1. CASE key \in ToSet(old)
      BY <2>1, <3>1 DEF WithKey
    <3>2. CASE key \notin ToSet(old)
      <4>1. run[i] = Append(old, key)
        BY <2>1, <3>2 DEF WithKey
      <4>2. /\ Append(old, key) \in Seq(K) /\ Len(Append(old, key)) = Len(old) + 1
            /\ \A k \in 1..Len(old) : Append(old, key)[k] = old[k]
            /\ Append(old, key)[Len(old) + 1] = key
        BY AppendProperties
      <4>3. DOMAIN Append(old, key) = 1..(Len(old) + 1) /\ DOMAIN old = 1..Len(old) /\ Len(old) \in Nat
        BY <4>2, LenProperties
      <4>4. Len(old) + 1 \in DOMAIN Append(old, key) /\ DOMAIN old \subseteq DOMAIN Append(old, key)
        BY <4>3
      <4>5. key \in ToSet(Append(old, key))
        BY <4>2, <4>4 DEF ToSet
      <4>6. \A k \in DOMAIN old : old[k] \in ToSet(Append(old, key))
        BY <4>2, <4>3, <4>4 DEF ToSet
      <4>7. ToSet(old) \subseteq ToSet(Append(old, key))
        BY <4>6 DEF ToSet
      <4> QED BY <4>1, <4>2, <4>5, <4>7
    <3> QED BY <3>1, <3>2
  <2>3. \A j \in 1..i : j = i \/ j \in 1..(i - 1)
    OBVIOUS
  <2> QED BY <1>5, <2>2, <2>3
<1>6. good(n)
  <2> HIDE DEF good
  <2>1. gaps = {}
    <3> SUFFICES ASSUME gaps # {} PROVE FALSE
      OBVIOUS
    <3>0. gaps \subseteq Nat
      OBVIOUS
    <3>1. PICK m \in gaps : \A k \in gaps : m <= k
      BY <3>0, Smallest
    <3>2. m # 0
      BY <1>4
    <3>a. m \in 1..n /\ m - 1 \in 0..n /\ ~(m <= m - 1)
      BY <3>2
    <3>3. good(m - 1)
      BY <3>1, <3>a
    <3> QED BY <1>5, <3>a, <3>3
  <2>2. n \in 0..n
    OBVIOUS
  <2> QED BY <2>1, <2>2
<1>7. \A key \in KeysOf(offered) : \E j \in 1..n : key = TrackKey(offered[j].track)
  BY <1>1 DEF KeysOf
<1> QED BY <1>3, <1>6, <1>7 DEF KeysInOrder

\* The chain always ends with an identity, the key of the track itself at last.
LEMMA ResolvesAll ==
  ASSUME NEW recs, NEW answers
  PROVE  /\ DOMAIN ResolveAll(recs, answers) = {TrackKey(recs[i]) : i \in DOMAIN recs}
         /\ \A key \in DOMAIN ResolveAll(recs, answers) : ResolveAll(recs, answers)[key].id # NoId
<1>1. \A a, b : <<a, b>> # NoId
  BY DEF NoId
<1>2. ASSUME NEW track, NEW answer PROVE Resolve(track, answer).id # NoId
  <2>1. Ambiguous(track).id # NoId
    BY <1>1 DEF Ambiguous, FromLocalKey
  <2>2. CASE track.isrc # NoIsrc
    BY <1>1, <2>2 DEF Resolve, FromMbid, FromIsrc
  <2>3. CASE track.isrc = NoIsrc
    BY <1>1, <2>1, <2>3 DEF Resolve, FromMbid
  <2> QED BY <2>2, <2>3
<1> QED BY <1>2 DEF ResolveAll

---------------------------------------------------------------------------
(* The library: the steps.                                                 *)

\* A row keeps its identity or takes another one.
Grown(old, new) ==
  \A k \in Keys : /\ old[k].known => new[k].known
                  /\ old[k].known /\ old[k].id # NoId => new[k].id # NoId

LEMMA StaysMigrated ==
  ASSUME NEW s, NEW done, NEW more, done \subseteq more, Migrated(s, done)
  PROVE  Migrated(s, more)
  BY DEF Migrated, DoneTo

LEMMA StaysImported ==
  ASSUME NEW s, NEW old, NEW new, Grown(old, new), Imports(s, old)
  PROVE  Imports(s, new)
<1>1. CASE s.pc \notin {"set", "done"}
  BY <1>1 DEF Imports
<1>2. CASE s.pc = "set"
  BY <1>2 DEF Imports, Grown
<1>3. CASE s.pc = "done"
  BY <1>3 DEF Imports, Grown
<1> QED BY <1>1, <1>2, <1>3

\* One process moves, and what is in the file only grows.
LEMMA LibOneMoves ==
  ASSUME LibraryInv, NEW p \in Procs, DOMAIN proc' = Procs, \A q \in Procs : q # p => proc'[q] = proc[q],
         Fits(proc'[p], rows', schema'.done),
         Shaped(rows'), Grown(rows, rows'),
         DOMAIN schema' = {"version", "done"}, schema'.version \in 0..Len(Migrations),
         DoneTo(schema'.done, schema'.version + 1, 1), schema.done \subseteq schema'.done
  PROVE  LibraryInv'
<1>1. ASSUME NEW q \in Procs PROVE Fits(proc'[q], rows', schema'.done)
  <2>1. CASE q = p
    BY <2>1
  <2>2. CASE q # p
    <3>1. proc'[q] = proc[q] /\ Fits(proc[q], rows, schema.done)
      BY <2>2 DEF LibraryInv
    <3> QED BY <3>1, StaysMigrated, StaysImported DEF Fits
  <2> QED BY <2>1, <2>2
<1> QED BY <1>1 DEF LibraryInv

\* Most steps leave the file alone.
LEMMA LibOnlyItMoves ==
  ASSUME LibraryInv, NEW p \in Procs, DOMAIN proc' = Procs, \A q \in Procs : q # p => proc'[q] = proc[q],
         UNCHANGED <<schema, rows>>, Fits(proc'[p], rows, schema.done)
  PROVE  LibraryInv'
<1>1. Grown(rows, rows)
  BY DEF Grown
<1> QED BY <1>1, LibOneMoves DEF LibraryInv

LEMMA OldIs ==
  ASSUME LibraryInv, NEW p \in Procs
  PROVE  /\ Fits(proc[p], rows, schema.done) /\ DOMAIN proc = Procs
         /\ DOMAIN Closed = {"pc", "at", "offered", "answers", "found", "todo"}
         /\ Migrations \in Seq(Nat \ {0}) /\ Len(Migrations) \in Nat
         /\ DOMAIN Migrations = 1..Len(Migrations) /\ \A m \in DOMAIN Migrations : Migrations[m] \in Nat \ {0}
         /\ schema.version \in 0..Len(Migrations) /\ DoneTo(schema.done, schema.version + 1, 1)
<1>1. Migrations \in Seq(Nat \ {0})
  BY DEF LibraryInv, LibraryAssumption
<1>2. /\ Len(Migrations) \in Nat
      /\ DOMAIN Migrations = 1..Len(Migrations) /\ \A m \in DOMAIN Migrations : Migrations[m] \in Nat \ {0}
  BY <1>1
<1> QED BY <1>1, <1>2 DEF LibraryInv, Closed

LEMMA ClosedFits == ASSUME NEW table, NEW done PROVE Fits(Closed, table, done)
  BY DEF Fits, Closed, Migrated, Imports, Positions

\* A process that stops, for whatever reason.
LEMMA FailSteps ==
  ASSUME LibraryInv, NEW p \in Procs, Fail(p), UNCHANGED <<schema, rows>> PROVE LibraryInv'
<1>1. /\ DOMAIN proc' = Procs /\ (\A q \in Procs : q # p => proc'[q] = proc[q]) /\ proc'[p] = Closed
  BY DEF Fail, LibraryInv
<1> QED BY <1>1, ClosedFits, LibOnlyItMoves

LEMMA OpenStep == ASSUME LibraryInv, NEW p \in Procs, Open(p) PROVE LibraryInv'
<1> PICK old : old = proc[p]
  OBVIOUS
<1> PICK new : new = proc'[p]
  OBVIOUS
<1>0. old.pc = "closed" /\ UNCHANGED <<schema, rows>> /\ DOMAIN old = DOMAIN Closed /\ old.found = <<>>
  BY OldIs DEF Open, Fits, Imports
<1>1. CASE schema.version < Len(Migrations)
  <2>1. /\ DOMAIN proc' = Procs /\ \A q \in Procs : q # p => proc'[q] = proc[q]
        /\ DOMAIN new = DOMAIN Closed /\ new.pc = "migrate" /\ new.at = <<schema.version + 1, 1>> /\ new.found = <<>>
    BY <1>0, <1>1, OldIs DEF Open
  <2>2. new.at[1] = schema.version + 1 /\ new.at[2] = 1
    BY <2>1
  <2>3. new.at[1] \in DOMAIN Migrations /\ new.at[2] \in 1..Migrations[new.at[1]]
    BY <1>1, <2>2, OldIs
  <2>4. Migrated(new, schema.done)
    BY <2>1, <2>2, <2>3, OldIs DEF Migrated
  <2>5. Imports(new, rows)
    BY <2>1 DEF Imports
  <2> QED BY <1>0, <2>1, <2>4, <2>5, LibOnlyItMoves DEF Fits, Positions
<1>2. CASE ~(schema.version < Len(Migrations))
  <2>1. /\ DOMAIN proc' = Procs /\ \A q \in Procs : q # p => proc'[q] = proc[q]
        /\ DOMAIN new = DOMAIN Closed /\ new.pc = "ready" /\ new.found = <<>>
    BY <1>0, <1>2, OldIs DEF Open, Goto
  <2>2. schema.version = Len(Migrations)
    BY <1>2, OldIs
  <2>3. Migrated(new, schema.done) /\ Imports(new, rows)
    BY <2>1, <2>2, OldIs DEF Migrated, Imports
  <2> QED BY <1>0, <2>1, <2>3, LibOnlyItMoves DEF Fits, Positions
<1> QED BY <1>1, <1>2

LEMMA MigrateStep == ASSUME LibraryInv, NEW p \in Procs, Migrate(p) PROVE LibraryInv'
<1> PICK old : old = proc[p]
  OBVIOUS
<1> PICK new : new = proc'[p]
  OBVIOUS
<1> PICK m : m = old.at[1]
  OBVIOUS
<1> PICK s : s = old.at[2]
  OBVIOUS
<1>0. /\ old.pc = "migrate" /\ UNCHANGED rows /\ DOMAIN old = DOMAIN Closed /\ old.found = <<>>
      /\ m \in DOMAIN Migrations /\ s \in 1..Migrations[m] /\ DoneTo(schema.done, m, s)
  BY OldIs DEF Migrate, Fits, Imports, Migrated
<1>1. CASE <<m, s>> \in schema.done
  BY <1>1, FailSteps DEF Migrate
<1>2. CASE <<m, s>> \notin schema.done
  <2>1. /\ schema' = [schema EXCEPT !.done = @ \cup {<<m, s>>}]
        /\ IF s < Migrations[m] THEN proc' = [proc EXCEPT ![p].at = <<m, s + 1>>] ELSE Goto(p, "version")
    BY <1>2 DEF Migrate
  <2>2. /\ DOMAIN schema' = {"version", "done"} /\ schema'.version = schema.version
        /\ schema'.done = schema.done \cup {<<m, s>>}
    BY <2>1 DEF LibraryInv
  <2>3. m \in Nat /\ s \in Nat /\ Migrations[m] \in Nat
    BY <1>0, OldIs
  <2>4. DoneTo(schema'.done, schema'.version + 1, 1)
    BY <2>2, OldIs DEF DoneTo
  <2>5. DoneTo(schema'.done, m, s + 1)
    <3>1. \A x \in DOMAIN Migrations : \A y \in 1..Migrations[x] :
            (x < m \/ (x = m /\ y < s + 1)) => (x < m \/ (x = m /\ y < s)) \/ (x = m /\ y = s)
      BY <2>3, OldIs
    <3> QED BY <1>0, <2>2, <3>1 DEF DoneTo
  <2>6. Shaped(rows') /\ Grown(rows, rows')
    BY <1>0 DEF LibraryInv, Grown
  <2>7. /\ DOMAIN proc' = Procs /\ \A q \in Procs : q # p => proc'[q] = proc[q]
        /\ DOMAIN new = DOMAIN Closed /\ new.found = <<>>
    BY <1>0, <2>1, OldIs DEF Goto
  <2>8. new.pc \in Positions /\ Migrated(new, schema'.done) /\ Imports(new, rows')
    <3>1. CASE s < Migrations[m]
      <4>1. new.pc = "migrate" /\ new.at = <<m, s + 1>>
        BY <1>0, <2>1, <3>1, OldIs
      <4>2. new.at[1] = m /\ new.at[2] = s + 1
        BY <4>1
      <4>3. s + 1 \in 1..Migrations[m]
        BY <2>3, <3>1
      <4> QED BY <1>0, <2>5, <2>7, <4>1, <4>2, <4>3 DEF Migrated, Imports, Positions
    <3>2. CASE ~(s < Migrations[m])
      <4>1. new.pc = "version" /\ new.at = old.at
        BY <1>0, <2>1, <3>2, OldIs DEF Goto
      <4>2. DoneTo(schema'.done, m + 1, 1)
        <5>1. \A x \in DOMAIN Migrations : \A y \in 1..Migrations[x] :
                (x < m + 1 \/ (x = m + 1 /\ y < 1)) => (x < m \/ (x = m /\ y < s + 1))
          <6> TAKE x \in DOMAIN Migrations
          <6>1. x \in Nat /\ Migrations[x] \in Nat
            BY OldIs
          <6>2. Migrations[m] <= s
            BY <2>3, <3>2
          <6> QED BY <2>3, <6>1, <6>2
        <5> QED BY <2>5, <5>1 DEF DoneTo
      <4> QED BY <1>0, <2>7, <4>1, <4>2 DEF Migrated, Imports, Positions
    <3> QED BY <3>1, <3>2
  <2>9. schema'.version \in 0..Len(Migrations) /\ schema.done \subseteq schema'.done
    BY <2>2, OldIs
  <2> QED BY <2>2, <2>4, <2>6, <2>7, <2>8, <2>9, LibOneMoves DEF Fits
<1> QED BY <1>1, <1>2

LEMMA MarkVersionStep == ASSUME LibraryInv, NEW p \in Procs, MarkVersion(p) PROVE LibraryInv'
<1> PICK old : old = proc[p]
  OBVIOUS
<1> PICK new : new = proc'[p]
  OBVIOUS
<1> PICK m : m = old.at[1]
  OBVIOUS
<1>0. /\ old.pc = "version" /\ UNCHANGED rows /\ DOMAIN old = DOMAIN Closed /\ old.found = <<>>
      /\ m \in DOMAIN Migrations /\ DoneTo(schema.done, m + 1, 1)
  BY OldIs DEF MarkVersion, Fits, Imports, Migrated
<1>1. m \in 1..Len(Migrations) /\ m \in Nat
  BY <1>0, OldIs
<1>2. /\ schema' = [schema EXCEPT !.version = m]
      /\ IF m < Len(Migrations)
         THEN proc' = [proc EXCEPT ![p].pc = "migrate", ![p].at = <<m + 1, 1>>]
         ELSE Goto(p, "ready")
  BY DEF MarkVersion
<1>3. /\ DOMAIN schema' = {"version", "done"} /\ schema'.version = m /\ schema'.done = schema.done
  BY <1>2 DEF LibraryInv
<1>4. /\ DOMAIN proc' = Procs /\ \A q \in Procs : q # p => proc'[q] = proc[q]
      /\ DOMAIN new = DOMAIN Closed /\ new.found = <<>>
  BY <1>0, <1>2, OldIs DEF Goto
<1>5. new.pc \in Positions /\ Migrated(new, schema.done) /\ Imports(new, rows)
  <2>1. CASE m < Len(Migrations)
    <3>1. new.pc = "migrate" /\ new.at = <<m + 1, 1>>
      BY <1>0, <1>2, <2>1, OldIs
    <3>2. new.at[1] = m + 1 /\ new.at[2] = 1
      BY <3>1
    <3>3. m + 1 \in DOMAIN Migrations /\ 1 \in 1..Migrations[m + 1]
      BY <1>1, <2>1, OldIs
    <3> QED BY <1>0, <1>4, <3>1, <3>2, <3>3 DEF Migrated, Imports, Positions
  <2>2. CASE ~(m < Len(Migrations))
    <3>1. new.pc = "ready" /\ m = Len(Migrations)
      BY <1>0, <1>1, <1>2, <2>2, OldIs DEF Goto
    <3> QED BY <1>0, <1>4, <3>1 DEF Migrated, Imports, Positions
  <2> QED BY <2>1, <2>2
<1>6. Shaped(rows') /\ Grown(rows, rows')
  BY <1>0 DEF LibraryInv, Grown
<1>7. Fits(new, rows', schema'.done)
  BY <1>0, <1>3, <1>4, <1>5 DEF Fits
<1> QED BY <1>0, <1>1, <1>3, <1>4, <1>6, <1>7, LibOneMoves

LEMMA BeginImportStep == ASSUME LibraryInv, NEW p \in Procs, BeginImport(p) PROVE LibraryInv'
<1> PICK old : old = proc[p]
  OBVIOUS
<1> PICK new : new = proc'[p]
  OBVIOUS
<1>0. /\ old.pc = "ready" /\ UNCHANGED <<schema, rows>> /\ DOMAIN old = DOMAIN Closed /\ old.found = <<>>
      /\ DoneTo(schema.done, Len(Migrations) + 1, 1)
  BY OldIs DEF BeginImport, Fits, Imports, Migrated
<1>1. PICK archive \in Archives :
        IF Readable(archive)
        THEN proc' = [proc EXCEPT ![p].pc = "resolve", ![p].offered = ImportListens(archive, Tracks)]
        ELSE Fail(p)
  BY DEF BeginImport
<1>2. CASE Readable(archive)
  <2>1. OfTracks(ImportListens(archive, Tracks))
    BY <1>2 DEF LibraryInv, LibraryAssumption
  <2>2. /\ DOMAIN proc' = Procs /\ \A q \in Procs : q # p => proc'[q] = proc[q]
        /\ DOMAIN new = DOMAIN Closed /\ new.pc = "resolve" /\ new.found = <<>>
        /\ new.offered = ImportListens(archive, Tracks)
    BY <1>0, <1>1, <1>2, OldIs
  <2>3. Migrated(new, schema.done) /\ Imports(new, rows)
    BY <1>0, <2>1, <2>2 DEF Migrated, Imports
  <2> QED BY <1>0, <2>2, <2>3, LibOnlyItMoves DEF Fits, Positions
<1>3. CASE ~Readable(archive)
  BY <1>0, <1>1, <1>3, FailSteps
<1> QED BY <1>2, <1>3

LEMMA ResolveTracksStep == ASSUME LibraryInv, NEW p \in Procs, ResolveTracks(p) PROVE LibraryInv'
<1> PICK old : old = proc[p]
  OBVIOUS
<1> PICK new : new = proc'[p]
  OBVIOUS
<1>0. /\ old.pc = "resolve" /\ UNCHANGED <<schema, rows>> /\ DOMAIN old = DOMAIN Closed
      /\ OfTracks(old.offered) /\ DoneTo(schema.done, Len(Migrations) + 1, 1)
  BY OldIs DEF ResolveTracks, Fits, Imports, Migrated
<1> PICK recs : recs = TracksOf(old.offered)
  OBVIOUS
<1>1. \/ Fail(p)
      \/ \E answers : proc' = [proc EXCEPT ![p].pc = "begin", ![p].answers = Candidates(answers),
                                 ![p].found = ResolveAll(recs, Candidates(answers))]
  BY DEF ResolveTracks
<1>2. CASE Fail(p)
  BY <1>0, <1>2, FailSteps
<1>3. CASE \E answers : proc' = [proc EXCEPT ![p].pc = "begin", ![p].answers = Candidates(answers),
                                   ![p].found = ResolveAll(recs, Candidates(answers))]
  <2>1. PICK answers : proc' = [proc EXCEPT ![p].pc = "begin", ![p].answers = Candidates(answers),
                                  ![p].found = ResolveAll(recs, Candidates(answers))]
    BY <1>3
  <2>2. /\ DOMAIN proc' = Procs /\ \A q \in Procs : q # p => proc'[q] = proc[q]
        /\ DOMAIN new = DOMAIN Closed /\ new.pc = "begin" /\ new.offered = old.offered
        /\ new.found = ResolveAll(recs, Candidates(answers))
    BY <1>0, <2>1, OldIs
  <2>3. DOMAIN recs = DOMAIN old.offered /\ \A i \in DOMAIN recs : recs[i] = old.offered[i].track
    BY DEF TracksOf
  <2>4. DOMAIN new.found = KeysOf(old.offered)
    <3> PICK candidates : candidates = Candidates(answers)
      OBVIOUS
    <3>a. DOMAIN ResolveAll(recs, candidates) = {TrackKey(recs[i]) : i \in DOMAIN recs}
      BY ONLY ResolvesAll
    <3>1. DOMAIN new.found = {TrackKey(recs[i]) : i \in DOMAIN recs}
      BY <2>2, <3>a, Zenon
    <3>2. \A i \in DOMAIN recs : TrackKey(recs[i]) = TrackKey(old.offered[i].track)
      BY <2>3
    <3> QED BY <2>3, <3>1, <3>2 DEF KeysOf
  <2>5. Resolved(new)
    BY <2>2, <2>4, ResolvesAll DEF Resolved
  <2>6. Migrated(new, schema.done) /\ Imports(new, rows)
    BY <1>0, <2>2, <2>5 DEF Migrated, Imports
  <2> QED BY <1>0, <2>2, <2>6, LibOnlyItMoves DEF Fits, Positions
<1> QED BY <1>1, <1>2, <1>3

LEMMA BeginWriteStep == ASSUME LibraryInv, NEW p \in Procs, BeginWrite(p) PROVE LibraryInv'
<1> PICK old : old = proc[p]
  OBVIOUS
<1> PICK new : new = proc'[p]
  OBVIOUS
<1>0. /\ old.pc = "begin" /\ UNCHANGED <<schema, rows>> /\ DOMAIN old = DOMAIN Closed
      /\ OfTracks(old.offered) /\ DoneTo(schema.done, Len(Migrations) + 1, 1)
      /\ old.found = <<>> \/ Resolved(old)
  BY OldIs DEF BeginWrite, Fits, Imports, Migrated
<1>1. /\ DOMAIN proc' = Procs /\ \A q \in Procs : q # p => proc'[q] = proc[q]
      /\ DOMAIN new = DOMAIN Closed /\ new.pc = "write" /\ new.offered = old.offered
      /\ new.found = old.found
  BY <1>0, OldIs DEF BeginWrite
<1>2. Migrated(new, schema.done) /\ Imports(new, rows)
  BY <1>0, <1>1 DEF Migrated, Imports, Resolved
<1> QED BY <1>0, <1>1, <1>2, LibOnlyItMoves DEF Fits, Positions

\* Writing what is offered: for an import, each key is still to be given its
\* identity; for what was played, nothing is left to do.
LEMMA LibWriteSteps ==
  ASSUME LibraryInv, NEW p \in Procs, NEW next \in {"set", "done"}, InsertListens(p, next), UNCHANGED schema,
         proc[p].pc = "write", next = "set" <=> proc[p].found # <<>>
  PROVE  LibraryInv'
<1> PICK old : old = proc[p]
  OBVIOUS
<1> PICK new : new = proc'[p]
  OBVIOUS
<1>0. /\ old.pc = "write" /\ DOMAIN old = DOMAIN Closed /\ OfTracks(old.offered)
      /\ DoneTo(schema.done, Len(Migrations) + 1, 1) /\ (old.found = <<>> \/ Resolved(old))
  BY OldIs DEF Fits, Imports, Migrated
<1>1. CASE writes[p]
  BY <1>1, FailSteps DEF InsertListens
<1>2. CASE ~writes[p]
  <2>1. /\ rows' = FoldLeft(Upsert, rows, TracksOf(old.offered))
        /\ proc' = [proc EXCEPT ![p].pc = next, ![p].offered = <<>>,
                      ![p].todo = IF next = "set" THEN KeysInOrder(old.offered) ELSE <<>>]
    BY <1>2 DEF InsertListens
  <2>2. /\ Shaped(rows') /\ KeepsIds(rows, rows') /\ \A key \in KeysOf(old.offered) : rows'[key].known
    BY <1>0, <2>1, WrittenIs DEF LibraryInv
  <2>3. Grown(rows, rows')
    BY <2>2 DEF KeepsIds, Grown
  <2>4. /\ DOMAIN proc' = Procs /\ \A q \in Procs : q # p => proc'[q] = proc[q]
        /\ DOMAIN new = DOMAIN Closed /\ new.pc = next /\ new.found = old.found
        /\ new.todo = IF next = "set" THEN KeysInOrder(old.offered) ELSE <<>>
    BY <1>0, <2>1, OldIs
  <2>5. next \in {"set", "done"}
    OBVIOUS
  <2>6. Imports(new, rows')
    <3>1. CASE next = "done"
      BY <2>4, <3>1 DEF Imports
    <3>2. CASE next = "set"
      <4>1. Resolved(old)
        BY <1>0, <3>2
      <4>2. new.todo \in Seq(DOMAIN new.found) /\ DOMAIN new.found \subseteq ToSet(new.todo)
        BY <1>0, <2>4, <3>2, <4>1, KeysAreListed DEF Resolved
      <4>3. DOMAIN new.found \subseteq Keys
        BY <1>0, <2>4, <4>1 DEF Resolved, KeysOf, OfTracks
      <4>4. \A key \in DOMAIN new.found :
              new.found[key].id # NoId /\ rows'[key].known /\ key \in ToSet(new.todo)
        BY <2>2, <2>4, <4>1, <4>2 DEF Resolved
      <4> QED BY <2>4, <3>2, <4>2, <4>3, <4>4 DEF Imports
    <3> QED BY <2>5, <3>1, <3>2
  <2>7. Fits(new, rows', schema'.done)
    BY <1>0, <2>4, <2>5, <2>6 DEF Fits, Migrated, Positions
  <2> QED BY <2>2, <2>3, <2>4, <2>7, LibOneMoves DEF LibraryInv
<1> QED BY <1>1, <1>2

LEMMA SetResolutionStep == ASSUME LibraryInv, NEW p \in Procs, SetResolution(p) PROVE LibraryInv'
<1> PICK old : old = proc[p]
  OBVIOUS
<1> PICK new : new = proc'[p]
  OBVIOUS
<1>0. /\ old.pc = "set" /\ old.todo # <<>> /\ UNCHANGED schema /\ DOMAIN old = DOMAIN Closed
      /\ DoneTo(schema.done, Len(Migrations) + 1, 1)
      /\ old.todo \in Seq(DOMAIN old.found) /\ DOMAIN old.found \subseteq Keys
      /\ \A key \in DOMAIN old.found :
           /\ old.found[key].id # NoId /\ rows[key].known
           /\ key \in ToSet(old.todo) \/ rows[key].id # NoId
  BY OldIs DEF SetResolution, Fits, Imports, Migrated
<1> PICK later : later = old.todo
  OBVIOUS
<1> PICK key : key = Head(later)
  OBVIOUS
<1>1. /\ key \in DOMAIN old.found /\ Tail(later) \in Seq(DOMAIN old.found)
      /\ \A k \in ToSet(later) : k = key \/ k \in ToSet(Tail(later))
  <2>1. later \in Seq(DOMAIN old.found) /\ later # <<>>
    BY <1>0
  <2>2. /\ key \in DOMAIN old.found /\ Tail(later) \in Seq(DOMAIN old.found)
        /\ Len(Tail(later)) = Len(later) - 1 /\ \A i \in 1..Len(Tail(later)) : Tail(later)[i] = later[i + 1]
    BY <2>1, HeadTailProperties
  <2>3. DOMAIN later = 1..Len(later) /\ DOMAIN Tail(later) = 1..Len(Tail(later)) /\ Len(later) \in Nat
    BY <2>1, <2>2, LenProperties
  <2>4. key = later[1]
    BY <2>1
  <2>5. ASSUME NEW i \in DOMAIN later PROVE later[i] = key \/ later[i] \in ToSet(Tail(later))
    <3>1. CASE i = 1
      BY <2>4, <3>1
    <3>2. CASE i # 1
      <4>1. i - 1 \in DOMAIN Tail(later) /\ Tail(later)[i - 1] = later[i]
        BY <2>2, <2>3, <3>2
      <4> QED BY <4>1 DEF ToSet
    <3> QED BY <3>1, <3>2
  <2> QED BY <2>2, <2>5 DEF ToSet
<1>2. rows' = [rows EXCEPT ![key] = IF @.known
                                    THEN [@ EXCEPT !.id = old.found[key].id,
                                                   !.method = old.found[key].method]
                                    ELSE @]
  BY DEF SetResolution
<1>3. key \in Keys /\ rows[key].known /\ old.found[key].id # NoId
  BY <1>0, <1>1
<1>4. /\ DOMAIN rows = Keys /\ \A k \in Keys : DOMAIN rows[k] = DOMAIN NoRow
      /\ DOMAIN NoRow = {"known", "track", "id", "method"}
  BY DEF LibraryInv, Shaped, NoRow
<1>5. /\ DOMAIN rows' = Keys /\ rows'[key] = [rows[key] EXCEPT !.id = old.found[key].id,
                                                         !.method = old.found[key].method]
      /\ \A k \in Keys : k # key => rows'[k] = rows[k]
  BY <1>2, <1>3, <1>4
<1>6. DOMAIN rows'[key] = DOMAIN NoRow /\ rows'[key].id = old.found[key].id /\ rows'[key].known
  BY <1>3, <1>4, <1>5
<1>7. Shaped(rows') /\ Grown(rows, rows')
  <2>1. ASSUME NEW k \in Keys
        PROVE  /\ DOMAIN rows'[k] = DOMAIN NoRow /\ (rows[k].known => rows'[k].known)
               /\ rows[k].known /\ rows[k].id # NoId => rows'[k].id # NoId
    <3>1. CASE k = key
      BY <1>3, <1>6, <3>1
    <3>2. CASE k # key
      BY <1>4, <1>5, <3>2
    <3> QED BY <3>1, <3>2
  <2>2. Shaped(rows')
    BY <1>5, <2>1 DEF Shaped
  <2>3. Grown(rows, rows')
    BY <2>1 DEF Grown
  <2> QED BY <2>2, <2>3
<1>8. /\ DOMAIN proc' = Procs /\ \A q \in Procs : q # p => proc'[q] = proc[q]
      /\ DOMAIN new = DOMAIN Closed /\ new.pc = "set" /\ new.found = old.found /\ new.todo = Tail(later)
  BY <1>0, OldIs DEF SetResolution
<1>9. ASSUME NEW k \in DOMAIN old.found
      PROVE  rows'[k].known /\ (k \in ToSet(Tail(later)) \/ rows'[k].id # NoId)
  <2>1. CASE k = key
    BY <1>3, <1>6, <2>1
  <2>2. CASE k # key
    BY <1>0, <1>1, <1>5, <2>2
  <2> QED BY <2>1, <2>2
<1>10. Imports(new, rows')
  BY <1>0, <1>1, <1>8, <1>9 DEF Imports
<1>11. Fits(new, rows', schema'.done)
  BY <1>0, <1>8, <1>10 DEF Fits, Migrated, Positions
<1> QED BY <1>0, <1>7, <1>8, <1>11, LibOneMoves DEF LibraryInv

LEMMA FinishImportStep == ASSUME LibraryInv, NEW p \in Procs, FinishImport(p) PROVE LibraryInv'
<1> PICK old : old = proc[p]
  OBVIOUS
<1> PICK new : new = proc'[p]
  OBVIOUS
<1>0. /\ old.pc = "set" /\ old.todo = <<>> /\ UNCHANGED <<schema, rows>> /\ DOMAIN old = DOMAIN Closed
      /\ DoneTo(schema.done, Len(Migrations) + 1, 1) /\ DOMAIN old.found \subseteq Keys
      /\ \A key \in DOMAIN old.found : rows[key].known /\ (key \in ToSet(old.todo) \/ rows[key].id # NoId)
  BY OldIs DEF FinishImport, Fits, Imports, Migrated
<1>1. /\ DOMAIN proc' = Procs /\ \A q \in Procs : q # p => proc'[q] = proc[q]
      /\ DOMAIN new = DOMAIN Closed /\ new.pc = "done" /\ new.found = old.found
  BY <1>0, OldIs DEF FinishImport, Goto
<1>2. ToSet(old.todo) = {}
  BY <1>0 DEF ToSet
<1>3. Migrated(new, schema.done) /\ Imports(new, rows)
  BY <1>0, <1>1, <1>2 DEF Migrated, Imports
<1> QED BY <1>0, <1>1, <1>3, LibOnlyItMoves DEF Fits, Positions

LEMMA BeginPlayedStep == ASSUME LibraryInv, NEW p \in Procs, BeginPlayed(p) PROVE LibraryInv'
<1> PICK old : old = proc[p]
  OBVIOUS
<1> PICK new : new = proc'[p]
  OBVIOUS
<1>0. /\ old.pc = "ready" /\ UNCHANGED <<schema, rows>> /\ DOMAIN old = DOMAIN Closed /\ old.found = <<>>
      /\ DoneTo(schema.done, Len(Migrations) + 1, 1)
  BY OldIs DEF BeginPlayed, Fits, Imports, Migrated
<1>1. PICK listen \in Played : proc' = [proc EXCEPT ![p].pc = "begin", ![p].offered = <<listen>>]
  BY DEF BeginPlayed
<1>2. OfTracks(<<listen>>)
  BY DEF LibraryInv, LibraryAssumption
<1>3. /\ DOMAIN proc' = Procs /\ \A q \in Procs : q # p => proc'[q] = proc[q]
      /\ DOMAIN new = DOMAIN Closed /\ new.pc = "begin" /\ new.found = <<>> /\ new.offered = <<listen>>
  BY <1>0, <1>1, OldIs
<1>4. Migrated(new, schema.done) /\ Imports(new, rows)
  BY <1>0, <1>2, <1>3 DEF Migrated, Imports
<1> QED BY <1>0, <1>3, <1>4, LibOnlyItMoves DEF Fits, Positions

LEMMA AskStep == ASSUME LibraryInv, NEW p \in Procs, Ask(p) PROVE LibraryInv'
<1> PICK old : old = proc[p]
  OBVIOUS
<1> PICK new : new = proc'[p]
  OBVIOUS
<1>0. /\ old.pc = "ready" /\ UNCHANGED <<schema, rows>> /\ DOMAIN old = DOMAIN Closed
      /\ DoneTo(schema.done, Len(Migrations) + 1, 1)
  BY OldIs DEF Ask, Fits, Migrated
<1>1. \/ Fail(p)
      \/ \E offered, answers, found :
           proc' = [proc EXCEPT ![p].pc = "asked", ![p].offered = offered,
                      ![p].answers = answers, ![p].found = found]
  <2>1. PICK q \in Questions :
          LET track == Tracks[q.title]
              answer == Asked(track, q.reply)
              told == ResolveSound(track, answer.value, q.file, q.service)
          IN  IF answer.ok /\ told.ok
              THEN proc' = [proc EXCEPT ![p].pc = "asked",
                              ![p].offered = <<[track |-> track, sound |-> q]>>,
                              ![p].answers = [k \in {TrackKey(track)} |-> answer.value],
                              ![p].found = [k \in {TrackKey(track)} |-> told.value]]
              ELSE Fail(p)
    BY DEF Ask
  <2> DEFINE track == Tracks[q.title]
             answer == Asked(track, q.reply)
             told == ResolveSound(track, answer.value, q.file, q.service)
  <2>2. CASE answer.ok /\ told.ok
    <3> DEFINE offered == <<[track |-> track, sound |-> q]>>
               answers == [k \in {TrackKey(track)} |-> answer.value]
               found == [k \in {TrackKey(track)} |-> told.value]
    <3>1. proc' = [proc EXCEPT ![p].pc = "asked", ![p].offered = offered,
                     ![p].answers = answers, ![p].found = found]
      BY <2>1, <2>2
    <3> HIDE DEF offered, answers, found
    <3> QED BY <3>1
  <2>3. CASE ~(answer.ok /\ told.ok)
    BY <2>1, <2>3
  <2> QED BY <2>2, <2>3
<1>2. CASE Fail(p)
  BY <1>0, <1>2, FailSteps
<1>3. CASE \E offered, answers, found :
             proc' = [proc EXCEPT ![p].pc = "asked", ![p].offered = offered,
                        ![p].answers = answers, ![p].found = found]
  <2>1. /\ DOMAIN proc' = Procs /\ \A q \in Procs : q # p => proc'[q] = proc[q]
        /\ DOMAIN new = DOMAIN Closed /\ new.pc = "asked"
    BY <1>0, <1>3, OldIs
  <2>2. Migrated(new, schema.done) /\ Imports(new, rows)
    BY <1>0, <2>1 DEF Migrated, Imports
  <2> QED BY <1>0, <2>1, <2>2, LibOnlyItMoves DEF Fits, Positions
<1> QED BY <1>1, <1>2, <1>3

LEMMA LibraryStep == ASSUME LibraryInv, [Next]_vars PROVE LibraryInv'
<1>1. CASE UNCHANGED vars
  BY <1>1 DEF vars, LibraryInv
<1>2. ASSUME NEW p \in Procs, Step(p) PROVE LibraryInv'
  <2>1. WriteImport(p) => LibraryInv'
    <3> SUFFICES ASSUME WriteImport(p) PROVE LibraryInv'
      OBVIOUS
    <3>1. InsertListens(p, "set") /\ UNCHANGED schema /\ proc[p].pc = "write" /\ proc[p].found # <<>>
      BY DEF WriteImport
    <3> PICK next \in {"set", "done"} : next = "set"
      OBVIOUS
    <3>2. InsertListens(p, next) /\ (next = "set" <=> proc[p].found # <<>>)
      BY <3>1
    <3> QED BY <3>1, <3>2, LibWriteSteps
  <2>3. WritePlayed(p) => LibraryInv'
    BY LibWriteSteps DEF WritePlayed
  <2>2. End(p) \/ Crash(p) => LibraryInv'
    BY FailSteps DEF End, Crash
  <2> QED BY <1>2, <2>1, <2>2, <2>3, OpenStep, MigrateStep, MarkVersionStep, BeginImportStep, ResolveTracksStep,
             BeginWriteStep, SetResolutionStep, FinishImportStep, BeginPlayedStep, AskStep DEF Step
<1> QED BY <1>1, <1>2 DEF Next

LEMMA LibraryInit == LibraryAssumption /\ Init => LibraryInv
<1> SUFFICES ASSUME LibraryAssumption, Init PROVE LibraryInv
  OBVIOUS
<1>1. Len(Migrations) \in Nat /\ schema = [version |-> 0, done |-> {}]
  BY DEF LibraryAssumption, Init
<1>2. \A x \in DOMAIN Migrations : x \in Nat \ {0}
  BY DEF LibraryAssumption
<1>3. DoneTo(schema.done, schema.version + 1, 1)
  <2>1. \A x \in DOMAIN Migrations : \A y \in 1..Migrations[x] : ~(x < 1 \/ (x = 1 /\ y < 1))
    BY <1>2
  <2> QED BY <1>1, <2>1 DEF DoneTo
<1>4. Shaped(rows)
  BY DEF Init, Shaped
<1>5. DOMAIN proc = Procs /\ \A p \in Procs : Fits(proc[p], rows, schema.done)
  BY ClosedFits DEF Init
<1> QED BY <1>1, <1>3, <1>4, <1>5 DEF LibraryInv

\* Whoever has the library open has every table and index of it, whoever else
\* migrates, crashes or opens meanwhile (SqliteLibrary::migrate).
THEOREM MigrationsAreWhole == LibraryAssumption => (Spec => []OpenMeansMigrated)
<1>1. LibraryInv => OpenMeansMigrated
  <2> SUFFICES ASSUME LibraryInv, NEW p \in Procs, proc[p].pc \notin {"closed", "migrate", "version"},
                      NEW m \in DOMAIN Migrations, NEW s \in 1..Migrations[m]
               PROVE  <<m, s>> \in schema.done
    BY DEF OpenMeansMigrated
  <2>1. DoneTo(schema.done, Len(Migrations) + 1, 1)
    BY OldIs DEF Fits, Migrated
  <2>2. m < Len(Migrations) + 1
    BY OldIs
  <2> QED BY <2>1, <2>2 DEF DoneTo
<1> QED BY <1>1, LibraryInit, LibraryStep, PTL DEF Spec

\* When an import reports its numbers, every track it brought has an identity in
\* the library, whoever else imports or plays (Session::import_inner).
THEOREM ImportsAreResolved == LibraryAssumption => (Spec => []FinishedImportIsResolved)
<1>1. LibraryInv => FinishedImportIsResolved
  BY DEF LibraryInv, Fits, Imports, FinishedImportIsResolved
<1> QED BY <1>1, LibraryInit, LibraryStep, PTL DEF Spec

---------------------------------------------------------------------------
(* The library: the sums of the statistics. What MapThenSumSet makes of    *)
(* the lengths of listens and of the plays of rows.                        *)

Measured(field, x) == IF field = "ms" THEN x.ms ELSE x.plays

SumOf(field, S) == IF field = "ms" THEN Total(S) ELSE TotalPlays(S)

\* The sum of a set, given the sums of smaller ones.
Added(field, iter, s) ==
  IF s = {} THEN 0
  ELSE Measured(field, CHOOSE x \in s : TRUE) + iter[s \ {CHOOSE x \in s : TRUE}]

LEMMA SumsExist ==
  ASSUME NEW field, NEW S, IsFiniteSet(S)
  PROVE  \E iter : iter = [s \in SUBSET S |-> Added(field, iter, s)]
<1> DEFINE upto(n, iter) ==
             /\ DOMAIN iter = SUBSET S
             /\ \A s \in SUBSET S : Cardinality(s) <= n => iter[s] = Added(field, iter, s)
           exists(n) == \E iter : upto(n, iter)
           gaps == {n \in Nat : ~exists(n)}
<1>0. \A s \in SUBSET S : IsFiniteSet(s) /\ Cardinality(s) \in Nat /\ (Cardinality(s) = 0 <=> s = {})
  BY FS_Subset, FS_CardinalityType, FS_EmptySet
<1>1. exists(0)
  <2> PICK iter : iter = [s \in SUBSET S |-> 0]
    OBVIOUS
  <2>1. ASSUME NEW s \in SUBSET S, Cardinality(s) <= 0 PROVE iter[s] = Added(field, iter, s)
    <3>1. Cardinality(s) = 0
      BY <1>0, <2>1
    <3>2. s = {}
      BY <1>0, <3>1
    <3> QED BY <3>2 DEF Added
  <2> QED BY <2>1
<1>2. ASSUME NEW n \in Nat, exists(n) PROVE exists(n + 1)
  <2>1. PICK old : upto(n, old)
    BY <1>2
  <2> PICK new : new = [s \in SUBSET S |-> IF Cardinality(s) <= n THEN old[s] ELSE Added(field, old, s)]
    OBVIOUS
  <2>2. ASSUME NEW s \in SUBSET S, Cardinality(s) <= n + 1 PROVE new[s] = Added(field, new, s)
    <3> PICK c : c = CHOOSE x \in s : TRUE
      OBVIOUS
    <3>1. CASE s = {}
      <4>1. new[s] = old[s] /\ old[s] = Added(field, old, s)
        BY <1>0, <2>1, <3>1
      <4> QED BY <3>1, <4>1 DEF Added
    <3>2. CASE s # {}
      <4>1. c \in s /\ s \ {c} \in SUBSET S
        BY <3>2
      <4>2. Cardinality(s \ {c}) = Cardinality(s) - 1
        BY <1>0, <4>1, FS_RemoveElement
      <4>3. new[s \ {c}] = old[s \ {c}]
        BY <1>0, <2>2, <4>1, <4>2
      <4>4. Added(field, new, s) = Added(field, old, s)
        BY <3>2, <4>3 DEF Added
      <4>5. new[s] = Added(field, old, s)
        BY <2>1
      <4> QED BY <4>4, <4>5
    <3> QED BY <3>1, <3>2
  <2>3. DOMAIN new = SUBSET S
    OBVIOUS
  <2> QED BY <2>2, <2>3
<1> HIDE DEF exists
<1>3. gaps = {}
  <2> SUFFICES ASSUME gaps # {} PROVE FALSE
    OBVIOUS
  <2>0. gaps \subseteq Nat
    OBVIOUS
  <2>1. PICK n \in gaps : \A k \in gaps : n <= k
    BY <2>0, Smallest
  <2>2. n # 0
    BY <1>1
  <2>3. n - 1 \in Nat /\ n = (n - 1) + 1 /\ ~(n <= n - 1)
    BY <2>2
  <2>4. exists(n - 1)
    BY <2>1, <2>3
  <2>5. exists((n - 1) + 1)
    BY <1>2, <2>3, <2>4
  <2> QED BY <2>3, <2>5
<1>4. Cardinality(S) \in Nat
  BY FS_CardinalityType
<1>5. PICK iter : upto(Cardinality(S), iter)
  BY <1>3, <1>4 DEF exists
<1>6. \A s \in SUBSET S : iter[s] = Added(field, iter, s)
  <2> TAKE s \in SUBSET S
  <2>1. Cardinality(s) <= Cardinality(S)
    BY FS_Subset
  <2> QED BY <1>5, <2>1
<1> PICK all : all = [s \in SUBSET S |-> iter[s]]
  OBVIOUS
<1>7. \A s \in SUBSET S : Added(field, iter, s) = Added(field, all, s)
  <2> TAKE s \in SUBSET S
  <2> PICK c : c = CHOOSE x \in s : TRUE
    OBVIOUS
  <2>1. all[s \ {c}] = iter[s \ {c}]
    OBVIOUS
  <2> QED BY <2>1 DEF Added
<1>8. all = [s \in SUBSET S |-> Added(field, all, s)]
  BY <1>6, <1>7
<1> QED BY <1>8

LEMMA SumsAre ==
  ASSUME NEW field \in {"ms", "plays"}, NEW S, IsFiniteSet(S)
  PROVE  \E iter : /\ \A s \in SUBSET S : iter[s] = Added(field, iter, s)
                   /\ SumOf(field, S) = iter[S]
<1> DEFINE iter == CHOOSE iter : iter = [s \in SUBSET S |-> Added(field, iter, s)]
<1>1. iter = [s \in SUBSET S |-> Added(field, iter, s)]
  BY SumsExist
<1>2. field = "ms" => Total(S) = iter[S]
  BY DEF Total, MapThenSumSet, MapThenFoldSet, Added, Measured
<1>3. field = "plays" => TotalPlays(S) = iter[S]
  BY DEF TotalPlays, MapThenSumSet, MapThenFoldSet, Added, Measured
<1> HIDE DEF iter
<1>4. \A s \in SUBSET S : iter[s] = Added(field, iter, s)
  BY <1>1
<1>5. SumOf(field, S) = iter[S]
  BY <1>2, <1>3 DEF SumOf
<1> QED BY <1>4, <1>5

LEMMA SumsAgree ==
  ASSUME NEW field, NEW S, IsFiniteSet(S), NEW a, NEW b,
         \A s \in SUBSET S : a[s] = Added(field, a, s),
         \A s \in SUBSET S : b[s] = Added(field, b, s)
  PROVE  a[S] = b[S]
<1> DEFINE sizes == {n \in Nat : \E s \in SUBSET S : n = Cardinality(s) /\ a[s] # b[s]}
<1>0. \A s \in SUBSET S : IsFiniteSet(s) /\ Cardinality(s) \in Nat
  BY FS_Subset, FS_CardinalityType
<1>1. SUFFICES ASSUME a[S] # b[S] PROVE FALSE
  OBVIOUS
<1>2. sizes # {}
  BY <1>0, <1>1
<1>3. sizes \subseteq Nat
  OBVIOUS
<1>4. PICK n \in sizes : \A k \in sizes : n <= k
  BY <1>2, <1>3, Smallest
<1>5. PICK s \in SUBSET S : n = Cardinality(s) /\ a[s] # b[s]
  OBVIOUS
<1> PICK c : c = CHOOSE x \in s : TRUE
  OBVIOUS
<1>6. CASE s = {}
  BY <1>5, <1>6 DEF Added
<1>7. CASE s # {}
  <2>1. c \in s /\ s \ {c} \in SUBSET S
    BY <1>7
  <2>20. IsFiniteSet(s)
    BY <1>0
  <2>2. Cardinality(s \ {c}) = n - 1
    BY <1>5, <2>1, <2>20, FS_RemoveElement
  <2>3. n \in Nat /\ Cardinality(s \ {c}) \in Nat /\ ~(n <= n - 1)
    BY <1>0, <2>1
  <2>4. a[s \ {c}] = b[s \ {c}]
    BY <1>4, <2>1, <2>2, <2>3
  <2>5. Added(field, a, s) = Added(field, b, s)
    BY <1>7, <2>4 DEF Added
  <2> QED BY <1>5, <2>5
<1> QED BY <1>6, <1>7

LEMMA SumUnfolds ==
  ASSUME NEW field \in {"ms", "plays"}, NEW S, IsFiniteSet(S)
  PROVE  /\ SumOf(field, {}) = 0
         /\ S # {} => \E x \in S : SumOf(field, S) = Measured(field, x) + SumOf(field, S \ {x})
<1>1. ASSUME NEW T, IsFiniteSet(T)
      PROVE \E iter : \A s \in SUBSET T : iter[s] = Added(field, iter, s) /\ SumOf(field, s) = iter[s]
  <2>1. PICK iter : (\A s \in SUBSET T : iter[s] = Added(field, iter, s)) /\ SumOf(field, T) = iter[T]
    BY <1>1, SumsAre
  <2>2. ASSUME NEW s \in SUBSET T PROVE SumOf(field, s) = iter[s]
    <3>1. IsFiniteSet(s)
      BY <1>1, FS_Subset
    <3>2. PICK own : (\A t \in SUBSET s : own[t] = Added(field, own, t)) /\ SumOf(field, s) = own[s]
      BY <3>1, SumsAre
    <3>3. \A t \in SUBSET s : iter[t] = Added(field, iter, t)
      BY <2>1
    <3>4. \A t \in SUBSET s : own[t] = Added(field, own, t)
      BY <3>2
    <3>5. own[s] = iter[s]
      BY ONLY <3>1, <3>3, <3>4, SumsAgree
    <3> QED BY <3>2, <3>5
  <2> QED BY <2>1, <2>2
<1>2. PICK iter : \A s \in SUBSET S : iter[s] = Added(field, iter, s) /\ SumOf(field, s) = iter[s]
  BY <1>1
<1>3. SumOf(field, {}) = 0
  <2>1. {} \in SUBSET S
    OBVIOUS
  <2>2. SumOf(field, {}) = Added(field, iter, {})
    BY <1>2, <2>1
  <2> QED BY <2>2 DEF Added
<1>4. ASSUME S # {} PROVE \E x \in S : SumOf(field, S) = Measured(field, x) + SumOf(field, S \ {x})
  <2> PICK c : c = CHOOSE x \in S : TRUE
    OBVIOUS
  <2>1. c \in S /\ S \in SUBSET S /\ S \ {c} \in SUBSET S
    BY <1>4
  <2>2. SumOf(field, S) = Added(field, iter, S) /\ iter[S \ {c}] = SumOf(field, S \ {c})
    BY <1>2, <2>1
  <2>3. Added(field, iter, S) = Measured(field, c) + iter[S \ {c}]
    BY <1>4 DEF Added
  <2> QED BY <2>1, <2>2, <2>3
<1> QED BY <1>3, <1>4

\* Any member may be counted first.
LEMMA SumAny ==
  ASSUME NEW field \in {"ms", "plays"}, NEW S, IsFiniteSet(S), \A x \in S : Measured(field, x) \in Nat
  PROVE  /\ SumOf(field, S) \in Nat
         /\ \A x \in S : SumOf(field, S) = Measured(field, x) + SumOf(field, S \ {x})
<1> DEFINE adds(s) == /\ SumOf(field, s) \in Nat
                      /\ \A x \in s : SumOf(field, s) = Measured(field, x) + SumOf(field, s \ {x})
           sizes == {n \in Nat : \E s \in SUBSET S : n = Cardinality(s) /\ ~adds(s)}
<1>0. \A s \in SUBSET S : IsFiniteSet(s) /\ Cardinality(s) \in Nat
  BY FS_Subset, FS_CardinalityType
<1>1. SUFFICES ASSUME ~adds(S) PROVE FALSE
  OBVIOUS
<1> HIDE DEF adds
<1>2. sizes # {}
  BY <1>0, <1>1
<1>3. sizes \subseteq Nat
  OBVIOUS
<1>4. PICK n \in sizes : \A k \in sizes : n <= k
  BY <1>2, <1>3, Smallest
<1>5. PICK s \in SUBSET S : n = Cardinality(s) /\ ~adds(s)
  OBVIOUS
<1>6. ASSUME NEW x \in s PROVE adds(s \ {x})
  <2>1. s \ {x} \in SUBSET S
    OBVIOUS
  <2>2. Cardinality(s \ {x}) = n - 1
    BY <1>0, <1>5, FS_RemoveElement
  <2>3. n \in Nat /\ Cardinality(s \ {x}) \in Nat /\ ~(n <= n - 1)
    BY <1>0, <2>1
  <2> QED BY <1>4, <2>1, <2>2, <2>3
<1>7. SumOf(field, {}) = 0
  BY SumUnfolds
<1>8. CASE s = {}
  <2>1. adds(s)
    BY <1>7, <1>8 DEF adds
  <2> QED BY <1>5, <2>1
<1>9. CASE s # {}
  <2>1. PICK c \in s : SumOf(field, s) = Measured(field, c) + SumOf(field, s \ {c})
    BY <1>0, <1>9, SumUnfolds
  <2>2. Measured(field, c) \in Nat /\ SumOf(field, s \ {c}) \in Nat
    BY <1>6 DEF adds
  <2>3. ASSUME NEW x \in s PROVE SumOf(field, s) = Measured(field, x) + SumOf(field, s \ {x})
    <3>1. CASE x = c
      BY <2>1, <3>1
    <3>2. CASE x # c
      <4>1. x \in s \ {c} /\ c \in s \ {x}
        BY <3>2
      <4>2. SumOf(field, s \ {c}) = Measured(field, x) + SumOf(field, (s \ {c}) \ {x})
        BY <1>6, <4>1 DEF adds
      <4>3. SumOf(field, s \ {x}) = Measured(field, c) + SumOf(field, (s \ {x}) \ {c})
        BY <1>6, <4>1 DEF adds
      <4>4. (s \ {c}) \ {x} = (s \ {x}) \ {c}
        OBVIOUS
      <4>5. (s \ {c}) \ {x} \in SUBSET S /\ Measured(field, x) \in Nat
        OBVIOUS
      <4>6. PICK rest : rest = SumOf(field, (s \ {c}) \ {x})
        OBVIOUS
      <4>7. SumOf(field, s \ {x}) \in Nat
        BY <1>6 DEF adds
      <4>8. rest \in Nat
        <5>1. adds((s \ {c}) \ {x}) \/ rest \in Nat
          <6>1. Cardinality(s \ {c}) = n - 1 /\ Cardinality((s \ {c}) \ {x}) = (n - 1) - 1
            <7>1. IsFiniteSet(s) /\ IsFiniteSet(s \ {c})
              BY <1>0
            <7>2. Cardinality(s \ {c}) = Cardinality(s) - 1
              BY <7>1, FS_RemoveElement
            <7>3. Cardinality((s \ {c}) \ {x}) = Cardinality(s \ {c}) - 1
              BY <4>1, <7>1, FS_RemoveElement
            <7> QED BY <1>5, <7>2, <7>3
          <6>2. n \in Nat /\ (n - 1) - 1 \in Int /\ ~(n <= (n - 1) - 1)
            BY <1>3
          <6>3. Cardinality((s \ {c}) \ {x}) \in Nat
            BY <1>0, <4>5
          <6> QED BY <1>4, <4>5, <6>1, <6>2, <6>3
        <5> QED BY <4>6, <5>1 DEF adds
      <4> HIDE DEF Measured
      <4>9. PICK mc, mx : mc = Measured(field, c) /\ mx = Measured(field, x)
        OBVIOUS
      <4>10. mc \in Nat /\ mx \in Nat
        BY <2>2, <4>5, <4>9
      <4>11. SumOf(field, s) = mc + (mx + rest) /\ SumOf(field, s \ {x}) = mc + rest
        BY <2>1, <4>2, <4>3, <4>4, <4>6, <4>9
      <4>12. mc + (mx + rest) = mx + (mc + rest)
        BY <4>8, <4>10
      <4> QED BY <4>9, <4>11, <4>12
    <3> QED BY <3>1, <3>2
  <2>4. SumOf(field, s) \in Nat
    BY <2>1, <2>2
  <2>5. adds(s)
    BY <2>3, <2>4 DEF adds
  <2> QED BY <1>5, <2>5
<1> QED BY <1>8, <1>9

\* A part and what is left make the whole.
LEMMA SumSplits ==
  ASSUME NEW field \in {"ms", "plays"}, NEW S, IsFiniteSet(S), \A x \in S : Measured(field, x) \in Nat,
         NEW U \in SUBSET S
  PROVE  /\ SumOf(field, S) = SumOf(field, U) + SumOf(field, S \ U)
         /\ Cardinality(S) = Cardinality(U) + Cardinality(S \ U)
<1> DEFINE splits(u) == /\ SumOf(field, S) = SumOf(field, u) + SumOf(field, S \ u)
                        /\ Cardinality(S) = Cardinality(u) + Cardinality(S \ u)
           sizes == {n \in Nat : \E u \in SUBSET S : n = Cardinality(u) /\ ~splits(u)}
<1>0. \A s \in SUBSET S : IsFiniteSet(s) /\ Cardinality(s) \in Nat
  BY FS_Subset, FS_CardinalityType
<1>a. \A s \in SUBSET S : /\ SumOf(field, s) \in Nat
                          /\ \A x \in s : SumOf(field, s) = Measured(field, x) + SumOf(field, s \ {x})
  <2> TAKE s \in SUBSET S
  <2>1. IsFiniteSet(s) /\ \A x \in s : Measured(field, x) \in Nat
    BY <1>0
  <2> QED BY <2>1, SumAny
<1>1. SUFFICES ASSUME ~splits(U) PROVE FALSE
  OBVIOUS
<1> HIDE DEF splits
<1>2. sizes # {}
  BY <1>0, <1>1
<1>3. sizes \subseteq Nat
  OBVIOUS
<1>4. PICK n \in sizes : \A k \in sizes : n <= k
  BY <1>2, <1>3, Smallest
<1>5. PICK u \in SUBSET S : n = Cardinality(u) /\ ~splits(u)
  OBVIOUS
<1>6. CASE u = {}
  <2>1. SumOf(field, {}) = 0 /\ S \ {} = S /\ Cardinality({}) = 0
    BY SumUnfolds, FS_EmptySet
  <2>2. SumOf(field, S) \in Nat /\ Cardinality(S) \in Nat
    BY <1>0, <1>a
  <2>3. splits({})
    BY <2>1, <2>2 DEF splits
  <2> QED BY <1>5, <1>6, <2>3
<1>7. CASE u # {}
  <2>1. PICK c : c \in u
    BY <1>7
  <2>2. u \ {c} \in SUBSET S /\ S \ u \in SUBSET S /\ S \ (u \ {c}) \in SUBSET S
    OBVIOUS
  <2>3. IsFiniteSet(u) /\ IsFiniteSet(S \ (u \ {c})) /\ c \in S \ (u \ {c})
    BY <1>0, <2>1, <2>2
  <2>4. (S \ (u \ {c})) \ {c} = S \ u
    BY <2>1
  <2>5. Cardinality(u \ {c}) = n - 1
    BY <1>5, <2>1, <2>3, FS_RemoveElement
  <2>6. Cardinality(S \ u) = Cardinality(S \ (u \ {c})) - 1
    <3>1. Cardinality((S \ (u \ {c})) \ {c}) = Cardinality(S \ (u \ {c})) - 1
      BY <2>3, FS_RemoveElement
    <3> QED BY <2>4, <3>1
  <2>7. n \in Nat /\ Cardinality(u \ {c}) \in Nat /\ ~(n <= n - 1)
    BY <1>0, <2>2
  <2>8. splits(u \ {c})
    BY <1>4, <2>2, <2>5, <2>7
  <2>9. SumOf(field, u) = Measured(field, c) + SumOf(field, u \ {c})
    BY <1>a, <2>1
  <2>10. SumOf(field, S \ (u \ {c})) = Measured(field, c) + SumOf(field, S \ u)
    BY <1>a, <2>2, <2>3, <2>4
  <2> PICK mc, su, ss, sl : mc = Measured(field, c) /\ su = SumOf(field, u \ {c})
                           /\ ss = SumOf(field, S) /\ sl = SumOf(field, S \ u)
    OBVIOUS
  <2>11. mc \in Nat /\ su \in Nat /\ ss \in Nat /\ sl \in Nat
    BY <1>a, <2>1, <2>2
  <2>12. ss = su + (mc + sl)
    BY <2>8, <2>10 DEF splits
  <2>13. ss = (mc + su) + sl
    BY ONLY <2>11, <2>12
  <2>14. SumOf(field, S) = SumOf(field, u) + SumOf(field, S \ u)
    BY <2>9, <2>13
  <2> PICK ku, ks, kd, kr : ku = Cardinality(u) /\ ks = Cardinality(S)
                           /\ kd = Cardinality(S \ u) /\ kr = Cardinality(S \ (u \ {c}))
    OBVIOUS
  <2>15. ku \in Nat /\ ks \in Nat /\ kd \in Nat /\ kr \in Nat
    BY <1>0, <2>2
  <2>16. ks = (ku - 1) + kr /\ kd = kr - 1
    BY <1>5, <2>5, <2>6, <2>8 DEF splits
  <2>17. ks = ku + kd
    BY ONLY <2>15, <2>16
  <2>18. splits(u)
    BY <2>14, <2>17 DEF splits
  <2> QED BY <1>5, <2>18
<1> QED BY <1>6, <1>7

\* Listens shared out to rows, each of which counts its own: together the rows
\* count all of them.
LEMMA RowsCountAll ==
  ASSUME NEW L, IsFiniteSet(L), \A l \in L : l.ms \in Nat,
         NEW R, IsFiniteSet(R), NEW of \in [L -> R],
         \A r \in R : /\ r.plays = Cardinality({l \in L : of[l] = r})
                      /\ r.ms = Total({l \in L : of[l] = r})
  PROVE  Cardinality(L) = TotalPlays(R) /\ Total(L) = Total(R)
<1> DEFINE part(q) == {l \in L : of[l] \in q}
           own(r) == {l \in L : of[l] = r}
           counted(q) == Cardinality(part(q)) = TotalPlays(q) /\ Total(part(q)) = Total(q)
           sizes == {n \in Nat : \E q \in SUBSET R : n = Cardinality(q) /\ ~counted(q)}
<1>0. \A q \in SUBSET R : IsFiniteSet(q) /\ Cardinality(q) \in Nat
  BY FS_Subset, FS_CardinalityType
<1>a. \A s \in SUBSET L : IsFiniteSet(s) /\ Cardinality(s) \in Nat
  BY FS_Subset, FS_CardinalityType
<1>b. \A s \in SUBSET L : Total(s) \in Nat
  <2> TAKE s \in SUBSET L
  <2>1. IsFiniteSet(s) /\ \A x \in s : Measured("ms", x) \in Nat
    BY <1>a DEF Measured
  <2>2. SumOf("ms", s) \in Nat
    BY <2>1, SumAny
  <2> QED BY <2>2 DEF SumOf
<1>c. \A r \in R : r.plays \in Nat /\ r.ms \in Nat
  <2> TAKE r \in R
  <2>1. own(r) \in SUBSET L
    OBVIOUS
  <2>2. Cardinality(own(r)) \in Nat /\ Total(own(r)) \in Nat
    BY <1>a, <1>b, <2>1
  <2> QED BY <2>2
<1>1. SUFFICES ASSUME ~counted(R) PROVE FALSE
  <2>1. part(R) = L
    OBVIOUS
  <2> QED BY <2>1
<1>2. sizes # {}
  <2> HIDE DEF counted
  <2> QED BY <1>0, <1>1
<1>3. sizes \subseteq Nat
  OBVIOUS
<1>4. PICK n \in sizes : \A k \in sizes : n <= k
  BY <1>2, <1>3, Smallest
<1>5. PICK q \in SUBSET R : n = Cardinality(q) /\ ~counted(q)
  OBVIOUS
<1>6. CASE q = {}
  <2>1. part({}) = {}
    OBVIOUS
  <2>2. TotalPlays({}) = 0
    <3>1. SumOf("plays", {}) = 0
      BY SumUnfolds, FS_EmptySet
    <3> QED BY <3>1 DEF SumOf
  <2>3. Cardinality({}) = 0
    BY FS_EmptySet
  <2>4. counted({})
    BY <2>1, <2>2, <2>3
  <2> QED BY <1>5, <1>6, <2>4
<1>7. CASE q # {}
  <2>1. PICK c : c \in q
    BY <1>7
  <2>2. q \ {c} \in SUBSET R /\ c \in R
    BY <2>1
  <2>3. IsFiniteSet(q) /\ IsFiniteSet(q \ {c})
    BY <1>0, <2>2
  <2>4. Cardinality(q \ {c}) = n - 1
    BY <1>5, <2>1, <2>3, FS_RemoveElement
  <2>5. n \in Nat /\ Cardinality(q \ {c}) \in Nat /\ ~(n <= n - 1)
    BY <1>0, <2>2
  <2>6. counted(q \ {c})
    <3> HIDE DEF counted
    <3> QED BY <1>4, <2>2, <2>4, <2>5
  <2>7. own(c) \in SUBSET part(q) /\ part(q) \in SUBSET L /\ part(q) \ own(c) = part(q \ {c})
    BY <2>1
  <2>8. IsFiniteSet(part(q)) /\ \A x \in part(q) : Measured("ms", x) \in Nat
    BY <1>a, <2>7 DEF Measured
  <2>9. /\ SumOf("ms", part(q)) = SumOf("ms", own(c)) + SumOf("ms", part(q) \ own(c))
        /\ Cardinality(part(q)) = Cardinality(own(c)) + Cardinality(part(q) \ own(c))
    <3> HIDE DEF part, own
    <3> QED BY <2>7, <2>8, SumSplits
  <2>10. Total(part(q)) = Total(own(c)) + Total(part(q \ {c}))
    BY <2>7, <2>9 DEF SumOf
  <2>11. SumOf("ms", q) = Measured("ms", c) + SumOf("ms", q \ {c})
    <3>1. \A x \in q : Measured("ms", x) \in Nat
      BY <1>c DEF Measured
    <3> QED BY <2>1, <2>3, <3>1, SumAny
  <2>12. SumOf("plays", q) = Measured("plays", c) + SumOf("plays", q \ {c})
    <3>1. \A x \in q : Measured("plays", x) \in Nat
      BY <1>c DEF Measured
    <3> QED BY <2>1, <2>3, <3>1, SumAny
  <2>13. Total(q) = c.ms + Total(q \ {c}) /\ TotalPlays(q) = c.plays + TotalPlays(q \ {c})
    BY <2>11, <2>12 DEF SumOf, Measured
  <2>14. c.plays = Cardinality(own(c)) /\ c.ms = Total(own(c))
    BY <2>2
  <2>15. Cardinality(part(q)) = Cardinality(own(c)) + Cardinality(part(q \ {c}))
    BY <2>7, <2>9
  <2>16. counted(q)
    BY <2>6, <2>10, <2>13, <2>14, <2>15
  <2> QED BY <1>5, <2>16
<1> QED BY <1>6, <1>7

---------------------------------------------------------------------------
(* The library: what the rows and the listens say of each other, and what  *)
(* follows for the search and the statistics.                              *)

\* Listens are of known tracks, and no two of one track agree on time and length.
LibListed(heard, known) ==
  /\ IsFiniteSet(heard)
  /\ \A l \in heard : l.key \in known /\ l.ms \in Nat
  /\ \A l, m \in heard : l.key = m.key /\ l.at = m.at /\ l.ms = m.ms => l = m

KnownIn(table) == {k \in Keys : table[k].known}

\* Rows stand under the key of their own track.
Stands(table) ==
  \A k \in KnownIn(table) :
    {"artist", "title"} \subseteq DOMAIN table[k].track /\ TrackKey(table[k].track) = k

LibRecorded(table, heard) == LibListed(heard, KnownIn(table)) /\ Stands(table)

Joined(l) == [track |-> rows[l.key].track, at |-> l.at, ms |-> l.ms, id |-> rows[l.key].id]

Plays == {l \in listens : PlayPredicateSql(l)}

LEMMA PlaysAreJoined ==
  ASSUME LibRecorded(rows, listens)
  PROVE  /\ \A l, m \in listens : Joined(l) = Joined(m) => l = m
         /\ AllListens = {Joined(l) : l \in listens}
         /\ {x \in AllListens : CountsAsPlay(x)} = {Joined(l) : l \in Plays}
         /\ \A l \in listens : GroupKey(Joined(l)) = Grouped(Hit(l.key))
<1>1. AllListens = {Joined(l) : l \in listens}
  BY DEF AllListens, Joined
<1>2. ASSUME NEW l \in listens, NEW m \in listens, Joined(l) = Joined(m) PROVE l = m
  <2>1. rows[l.key].track = rows[m.key].track /\ l.at = m.at /\ l.ms = m.ms
    BY <1>2 DEF Joined
  <2>2. l.key = m.key
    BY <2>1 DEF LibRecorded, LibListed, Stands, KnownIn
  <2> QED BY <2>1, <2>2 DEF LibRecorded, LibListed, Stands, KnownIn
<1>3. ASSUME NEW l \in listens PROVE CountsAsPlay(Joined(l)) <=> PlayPredicateSql(l)
  <2>1. l.ms \in Nat
    BY DEF LibRecorded, LibListed, Stands, KnownIn
  <2>2. 2 * l.ms = l.ms * 2
    BY <2>1
  <2> QED BY <2>2 DEF CountsAsPlay, Counts, PlayPredicateSql, Joined
<1>4. {x \in AllListens : CountsAsPlay(x)} = {Joined(l) : l \in Plays}
  BY <1>1, <1>3 DEF Plays
<1>5. ASSUME NEW l \in listens PROVE GroupKey(Joined(l)) = Grouped(Hit(l.key))
  <2>1. TrackKey(rows[l.key].track) = l.key
    BY DEF LibRecorded, LibListed, Stands, KnownIn
  <2> QED BY <2>1 DEF GroupKey, Grouped, Joined, Hit
<1> QED BY <1>1, <1>2, <1>4, <1>5

\* What the statistics make of a group of plays is what the listens make of it.
LEMMA JoinedAlike ==
  ASSUME LibRecorded(rows, listens), NEW S \in SUBSET listens
  PROVE  /\ IsFiniteSet({Joined(l) : l \in S})
         /\ Cardinality({Joined(l) : l \in S}) = Cardinality(S)
         /\ Total({Joined(l) : l \in S}) = Total(S)
         /\ \A x \in {Joined(l) : l \in S} : x.ms \in Nat
<1> DEFINE image(s) == {Joined(l) : l \in s}
           kept(s) == IsFiniteSet(image(s)) /\ Cardinality(image(s)) = Cardinality(s) /\ Total(image(s)) = Total(s)
           sizes == {n \in Nat : \E s \in SUBSET listens : n = Cardinality(s) /\ ~kept(s)}
<1>0. \A s \in SUBSET listens : IsFiniteSet(s) /\ Cardinality(s) \in Nat
  BY FS_Subset, FS_CardinalityType DEF LibRecorded, LibListed, Stands, KnownIn
<1>a. /\ \A l \in listens : l.ms \in Nat /\ Joined(l).ms = l.ms
      /\ \A l, m \in listens : Joined(l) = Joined(m) => l = m
  BY PlaysAreJoined DEF LibRecorded, LibListed, Stands, KnownIn, Joined
<1> HIDE DEF Joined
<1>b. \A x \in image(S) : x.ms \in Nat
  BY <1>a
<1>1. SUFFICES ASSUME ~kept(S) PROVE FALSE
  BY <1>b
<1>2. sizes # {}
  <2> HIDE DEF kept
  <2> QED BY <1>0, <1>1
<1>3. sizes \subseteq Nat
  OBVIOUS
<1>4. PICK n \in sizes : \A k \in sizes : n <= k
  BY <1>2, <1>3, Smallest
<1>5. PICK s \in SUBSET listens : n = Cardinality(s) /\ ~kept(s)
  OBVIOUS
<1>6. CASE s = {}
  <2>1. image({}) = {}
    OBVIOUS
  <2>2. IsFiniteSet(image({}))
    BY <2>1, FS_EmptySet
  <2>3. kept({})
    BY <2>1, <2>2
  <2> QED BY <1>5, <1>6, <2>3
<1>7. CASE s # {}
  <2>1. PICK c : c \in s
    BY <1>7
  <2>2. s \ {c} \in SUBSET listens
    OBVIOUS
  <2>3. IsFiniteSet(s) /\ IsFiniteSet(s \ {c})
    BY <1>0, <2>2
  <2>4. Cardinality(s \ {c}) = n - 1
    BY <1>5, <2>1, <2>3, FS_RemoveElement
  <2>5. n \in Nat /\ Cardinality(s \ {c}) \in Nat /\ ~(n <= n - 1)
    BY <1>0, <2>2
  <2>6. kept(s \ {c})
    <3> HIDE DEF kept
    <3> QED BY <1>4, <2>2, <2>4, <2>5
  <2>7. image(s \ {c}) = image(s) \ {Joined(c)} /\ Joined(c) \in image(s) /\ image(s) = image(s \ {c}) \cup {Joined(c)}
    BY <1>a, <2>1
  <2>8. IsFiniteSet(image(s))
    <3>1. IsFiniteSet(image(s \ {c}))
      BY <2>6
    <3>2. IsFiniteSet(image(s \ {c}) \cup {Joined(c)})
      BY <3>1, FS_AddElement
    <3> QED BY <2>7, <3>2
  <2>9. Cardinality(image(s) \ {Joined(c)}) = Cardinality(image(s)) - 1
    BY <2>7, <2>8, FS_RemoveElement
  <2>10. Cardinality(image(s)) \in Nat
    BY <2>8, FS_CardinalityType
  <2>11. Cardinality(image(s \ {c})) = Cardinality(s \ {c})
    BY <2>6
  <2>12. Cardinality(image(s \ {c})) = Cardinality(image(s)) - 1
    BY <2>7, <2>9
  <2>13. Cardinality(image(s)) = Cardinality(s)
    <3> PICK a, b, d : a = Cardinality(image(s)) /\ b = Cardinality(s \ {c}) /\ d = Cardinality(s)
      OBVIOUS
    <3>1. a \in Nat /\ b \in Nat /\ d \in Nat /\ b = d - 1 /\ b = a - 1
      BY <1>0, <1>5, <2>2, <2>4, <2>10, <2>11, <2>12
    <3>2. a = d
      BY ONLY <3>1
    <3> QED BY <3>2
  <2>14. \A x \in image(s) : Measured("ms", x) \in Nat
    BY <1>a DEF Measured
  <2>15. SumOf("ms", image(s)) = Measured("ms", Joined(c)) + SumOf("ms", image(s) \ {Joined(c)})
    BY <2>7, <2>8, <2>14, SumAny
  <2>16. SumOf("ms", s) = Measured("ms", c) + SumOf("ms", s \ {c})
    <3>1. \A x \in s : Measured("ms", x) \in Nat
      BY <1>a DEF Measured
    <3> QED BY <2>1, <2>3, <3>1, SumAny
  <2>17. Measured("ms", Joined(c)) = Measured("ms", c)
    BY <1>a, <2>1 DEF Measured
  <2>18. Total(image(s \ {c})) = Total(s \ {c})
    BY <2>6
  <2>19. Total(image(s)) = Total(s)
    BY <2>7, <2>15, <2>16, <2>17, <2>18 DEF SumOf
  <2> QED BY <1>5, <2>8, <2>13, <2>19
<1> QED BY <1>6, <1>7

PlaysOf(g) == {l \in Plays : Grouped(Hit(l.key)) = g}

LEMMA HitsCountPlays ==
  ASSUME LibraryAssumption, LibRecorded(rows, listens), NEW g
  PROVE  Cardinality(PlaysOf(g)) = TotalPlays(HitsOf(g)) /\ Total(PlaysOf(g)) = Total(HitsOf(g))
<1> DEFINE known == {k \in Keys : rows[k].known}
<1>1. IsFiniteSet(HitsOf(g))
  <2>1. IsFiniteSet(known)
    <3>1. IsFiniteSet(Keys) /\ known \in SUBSET Keys
      BY DEF LibraryAssumption
    <3> QED BY <3>1, FS_Subset
  <2>2. [k \in known |-> Hit(k)] \in Surjection(known, Hits)
    BY DEF Surjection, Hits
  <2>3. IsFiniteSet(Hits)
    BY <2>1, <2>2, FS_Surjection
  <2>4. HitsOf(g) \in SUBSET Hits
    BY DEF HitsOf
  <2> QED BY <2>3, <2>4, FS_Subset
<1>2. PlaysOf(g) \in SUBSET listens
  BY DEF PlaysOf, Plays
<1>3. IsFiniteSet(listens) /\ \A l \in listens : l.ms \in Nat
  BY DEF LibRecorded, LibListed, Stands, KnownIn
<1>4. IsFiniteSet(PlaysOf(g)) /\ \A l \in PlaysOf(g) : l.ms \in Nat
  BY <1>2, <1>3, FS_Subset
<1> PICK of : of = [l \in PlaysOf(g) |-> Hit(l.key)]
  OBVIOUS
<1>5. of \in [PlaysOf(g) -> HitsOf(g)]
  <2> SUFFICES ASSUME NEW l \in PlaysOf(g) PROVE Hit(l.key) \in HitsOf(g)
    OBVIOUS
  <2>1. l.key \in known
    BY <1>2 DEF LibRecorded, LibListed, Stands, KnownIn
  <2>2. Hit(l.key) \in Hits
    BY <2>1 DEF Hits
  <2>3. Grouped(Hit(l.key)) = g
    BY DEF PlaysOf
  <2> QED BY <2>2, <2>3 DEF HitsOf
<1>6. ASSUME NEW r \in HitsOf(g)
      PROVE  /\ r.plays = Cardinality({l \in PlaysOf(g) : of[l] = r})
             /\ r.ms = Total({l \in PlaysOf(g) : of[l] = r})
  <2>1. PICK k \in known : r = Hit(k)
    BY DEF HitsOf, Hits
  <2>2. Grouped(Hit(k)) = g
    BY <2>1 DEF HitsOf
  <2>3. \A l \in listens : Hit(l.key) = Hit(k) <=> l.key = k
    BY DEF Hit
  <2>4. {l \in PlaysOf(g) : of[l] = r} = {l \in listens : l.key = k /\ PlayPredicateSql(l)}
    <3>1. \A x : x \in {l \in PlaysOf(g) : of[l] = r} <=> x \in listens /\ PlayPredicateSql(x) /\ x.key = k
      BY <2>1, <2>2, <2>3 DEF PlaysOf, Plays
    <3> QED BY <3>1
  <2>5. r.plays = Cardinality({l \in listens : l.key = k /\ PlayPredicateSql(l)})
    <3> PICK counted : counted = {l \in listens : l.key = k /\ PlayPredicateSql(l)}
      OBVIOUS
    <3>1. r.plays = Cardinality(counted)
      BY <2>1 DEF Hit
    <3> QED BY <3>1
  <2>6. r.ms = Total({l \in listens : l.key = k /\ PlayPredicateSql(l)})
    BY <2>1 DEF Hit
  <2> QED BY <2>4, <2>5, <2>6
<1> QED BY ONLY <1>1, <1>4, <1>5, <1>6, RowsCountAll

\* A list of rows counts every listen once.
LEMMA RowsAddUp ==
  ASSUME NEW L, IsFiniteSet(L), \A l \in L : l.ms \in Nat, NEW group, DOMAIN group = L
  PROVE  Cardinality(L) = TotalPlays(Rows(L, group))
<1> DEFINE row(g) == [group |-> g, plays |-> Cardinality({l \in L : group[l] = g}),
                      ms |-> Total({l \in L : group[l] = g})]
<1> DEFINE told(g) == [group |-> g, plays |-> Cardinality({l \in L : group[l] = g}),
                       ms |-> Total({l \in L : group[l] = g})]
<1>0. \A g : told(g) = row(g)
  OBVIOUS
<1>1. Rows(L, group) = {row(g) : g \in {group[l] : l \in L}}
  <2>1. Rows(L, group) = {told(g) : g \in {group[l] : l \in L}}
    BY DEF Rows
  <2> HIDE DEF told, row
  <2> QED BY <1>0, <2>1
<1> PICK of : of = [l \in L |-> row(group[l])]
  OBVIOUS
<1>2. of \in [L -> Rows(L, group)] /\ of \in Surjection(L, Rows(L, group))
  <2>1. \A l \in L : row(group[l]) \in Rows(L, group)
    <3> TAKE l \in L
    <3>1. group[l] \in {group[m] : m \in L}
      OBVIOUS
    <3>2. row(group[l]) \in {row(g) : g \in {group[m] : m \in L}}
      <4> HIDE DEF row
      <4> QED BY <3>1
    <3> QED BY <1>1, <3>2
  <2>2. ASSUME NEW r \in Rows(L, group) PROVE \E l \in L : of[l] = r
    <3>1. PICK g \in {group[l] : l \in L} : r = row(g)
      BY <1>1
    <3>2. PICK l \in L : g = group[l]
      OBVIOUS
    <3> QED BY <3>1, <3>2
  <2> HIDE DEF row
  <2> QED BY <2>1, <2>2 DEF Surjection
<1>3. IsFiniteSet(Rows(L, group))
  BY <1>2, FS_Surjection
<1>4. ASSUME NEW r \in Rows(L, group)
      PROVE  /\ r.plays = Cardinality({l \in L : of[l] = r})
             /\ r.ms = Total({l \in L : of[l] = r})
  <2>1. PICK g \in {group[l] : l \in L} : r = row(g)
    BY <1>1
  <2>2. \A l \in L : of[l] = r <=> group[l] = g
    <3> TAKE l \in L
    <3>1. of[l].group = group[l] /\ r.group = g
      BY <2>1
    <3>2. group[l] = g => of[l] = r
      BY <2>1
    <3> QED BY <3>1, <3>2
  <2>3. {l \in L : of[l] = r} = {l \in L : group[l] = g}
    BY <2>2
  <2>4. r.plays = Cardinality({l \in L : group[l] = g}) /\ r.ms = Total({l \in L : group[l] = g})
    BY <2>1
  <2> QED BY <2>3, <2>4
<1>5. IsFiniteSet(L) /\ (\A l \in L : l.ms \in Nat) /\ of \in [L -> Rows(L, group)]
  BY <1>2
<1> QED BY ONLY <1>3, <1>4, <1>5, RowsCountAll

LEMMA AgreesWhenRecorded ==
  ASSUME LibraryAssumption, LibRecorded(rows, listens)
  PROVE  SearchAgreesWithStats
<1> DEFINE played == {Joined(l) : l \in Plays}
           joined == {GroupKey(x) : x \in played}
           stats == Compute(AllListens, AllTime, 1)
           of == [x \in played |-> GroupKey(x)]
<1>1. {l \in {l \in AllListens : InScope(l, AllTime)} : CountsAsPlay(l)} = played
  BY PlaysAreJoined DEF InScope
<1>2. /\ stats.tracks = Rows(played, [l \in played |-> GroupKey(l)])
      /\ stats.plays = Cardinality(played)
      /\ stats.byYear = Rows(played, [l \in played |-> YearOf(l)])
  BY <1>1 DEF Compute
<1>3. Plays \in SUBSET listens
  BY DEF Plays
<1>4. IsFiniteSet(played) /\ \A x \in played : x.ms \in Nat
  BY <1>3, JoinedAlike
<1>5. Cardinality(played) = TotalPlays(Rows(played, [l \in played |-> YearOf(l)]))
  BY <1>4, RowsAddUp
<1>6. ASSUME NEW g
      PROVE  /\ {x \in played : of[x] = g} = {Joined(l) : l \in PlaysOf(g)}
             /\ Cardinality({x \in played : of[x] = g}) = TotalPlays(HitsOf(g))
             /\ Total({x \in played : of[x] = g}) = Total(HitsOf(g))
  <2>1. \A l \in Plays : GroupKey(Joined(l)) = Grouped(Hit(l.key))
    BY <1>3, PlaysAreJoined
  <2>2. {x \in played : of[x] = g} = {Joined(l) : l \in PlaysOf(g)}
    <3> HIDE DEF Joined
    <3> QED BY <2>1 DEF PlaysOf
  <2>3. PlaysOf(g) \in SUBSET listens
    BY <1>3 DEF PlaysOf
  <2>4. /\ Cardinality({Joined(l) : l \in PlaysOf(g)}) = Cardinality(PlaysOf(g))
        /\ Total({Joined(l) : l \in PlaysOf(g)}) = Total(PlaysOf(g))
    BY <2>3, JoinedAlike
  <2> QED BY <2>2, <2>4, HitsCountPlays
<1>7. joined = {g \in {Grouped(h) : h \in Hits} : TotalPlays(HitsOf(g)) > 0}
  <2>1. ASSUME NEW g \in joined PROVE g \in {Grouped(h) : h \in Hits} /\ TotalPlays(HitsOf(g)) > 0
    <3>1. PICK l \in Plays : g = GroupKey(Joined(l))
      OBVIOUS
    <3>2. g = Grouped(Hit(l.key))
      BY <1>3, <3>1, PlaysAreJoined
    <3>3. Hit(l.key) \in Hits
      BY <1>3 DEF Hits, LibRecorded, LibListed, Stands, KnownIn
    <3>4. IsFiniteSet(PlaysOf(g)) /\ l \in PlaysOf(g)
      <4>1. IsFiniteSet(listens) /\ PlaysOf(g) \in SUBSET listens
        BY <1>3 DEF LibRecorded, LibListed, Stands, KnownIn, PlaysOf
      <4>2. IsFiniteSet(PlaysOf(g))
        BY <4>1, FS_Subset
      <4> QED BY <3>2, <4>2 DEF PlaysOf
    <3>5. Cardinality(PlaysOf(g)) \in Nat /\ Cardinality(PlaysOf(g)) # 0
      BY <3>4, FS_CardinalityType, FS_EmptySet
    <3>6. TotalPlays(HitsOf(g)) = Cardinality(PlaysOf(g))
      BY HitsCountPlays
    <3> QED BY <3>2, <3>3, <3>5, <3>6
  <2>2. ASSUME NEW g, TotalPlays(HitsOf(g)) > 0 PROVE g \in joined
    <3>1. TotalPlays(HitsOf(g)) = Cardinality(PlaysOf(g))
      BY HitsCountPlays
    <3>2. PlaysOf(g) # {}
      <4>1. Cardinality({}) = 0 /\ ~(0 > 0)
        BY FS_EmptySet
      <4> QED BY <2>2, <3>1, <4>1
    <3>3. PICK l \in Plays : Grouped(Hit(l.key)) = g
      BY <3>2 DEF PlaysOf
    <3>4. GroupKey(Joined(l)) = g
      BY <1>3, <3>3, PlaysAreJoined
    <3> QED BY <3>4
  <2> HIDE DEF joined
  <2> QED BY <2>1, <2>2
<1>8. Rows(played, of) = {[group |-> g, plays |-> TotalPlays(HitsOf(g)), ms |-> Total(HitsOf(g))] : g \in joined}
  <2>1. {of[x] : x \in played} = joined
    OBVIOUS
  <2>2. Rows(played, of) = {[group |-> g, plays |-> Cardinality({x \in played : of[x] = g}),
                             ms |-> Total({x \in played : of[x] = g})] : g \in {of[x] : x \in played}}
    BY DEF Rows
  <2> DEFINE theirs(g) == [group |-> g, plays |-> Cardinality({x \in played : of[x] = g}),
                           ms |-> Total({x \in played : of[x] = g})]
             ours(g) == [group |-> g, plays |-> TotalPlays(HitsOf(g)), ms |-> Total(HitsOf(g))]
  <2>3. \A g : theirs(g) = ours(g)
    BY <1>6
  <2>4. Rows(played, of) = {theirs(g) : g \in joined}
    BY <2>1, <2>2
  <2> HIDE DEF theirs, ours, joined
  <2>5. {theirs(g) : g \in joined} = {ours(g) : g \in joined}
    BY <2>3
  <2> QED BY <2>4, <2>5 DEF ours
<1> HIDE DEF joined, played
<1> QED BY <1>2, <1>5, <1>7, <1>8 DEF SearchAgreesWithStats

---------------------------------------------------------------------------
(* The library: writing keeps it so.                                       *)

LEMMA UpsertStands ==
  ASSUME NEW table, NEW track, Shaped(table), Stands(table), TrackKey(track) \in Keys,
         {"artist", "title"} \subseteq DOMAIN track
  PROVE  Stands(Upsert(table, track))
<1> DEFINE key == TrackKey(track)
           old == table[TrackKey(track)]
           new == IF old.known THEN [old EXCEPT !.track = Completed(old.track, track)]
                  ELSE [NoRow EXCEPT !.known = TRUE, !.track = track]
<1>1. DOMAIN old = {"known", "track", "id", "method"} /\ DOMAIN NoRow = {"known", "track", "id", "method"}
  BY DEF Shaped, NoRow
<1>4. {"artist", "title"} \subseteq DOMAIN new.track /\ TrackKey(new.track) = key
  <2> HIDE DEF new
  <2>1. old.known \/ ~old.known
    OBVIOUS
  <2>2. old.known => {"artist", "title"} \subseteq DOMAIN new.track /\ TrackKey(new.track) = key
    <3> SUFFICES ASSUME old.known PROVE {"artist", "title"} \subseteq DOMAIN new.track /\ TrackKey(new.track) = key
      OBVIOUS
    <3>1. DOMAIN old.track = DOMAIN Completed(old.track, track)
      BY DEF Completed
    <3>2. {"artist", "title"} \subseteq DOMAIN old.track /\ TrackKey(old.track) = key
      BY DEF Stands, KnownIn
    <3>3. /\ Completed(old.track, track).artist = old.track.artist
          /\ Completed(old.track, track).title = old.track.title
      BY <3>2 DEF Completed
    <3>4. new.track = Completed(old.track, track)
      BY <1>1 DEF new
    <3> QED BY <3>1, <3>2, <3>3, <3>4 DEF TrackKey
  <2>3. ~old.known => {"artist", "title"} \subseteq DOMAIN new.track /\ TrackKey(new.track) = key
    BY <1>1 DEF new
  <2> QED BY <2>1, <2>2, <2>3
<1>5. Upsert(table, track) = [table EXCEPT ![key] = new]
  BY DEF Upsert
<1> HIDE DEF new
<1>6. /\ DOMAIN Upsert(table, track) = Keys /\ Upsert(table, track)[key] = new
      /\ \A k \in Keys : k # key => Upsert(table, track)[k] = table[k]
  BY <1>5 DEF Shaped
<1>7. ASSUME NEW k \in KnownIn(Upsert(table, track))
      PROVE  /\ {"artist", "title"} \subseteq DOMAIN Upsert(table, track)[k].track
             /\ TrackKey(Upsert(table, track)[k].track) = k
  <2>1. CASE k = key
    BY <1>4, <1>6, <2>1
  <2>2. CASE k # key
    BY <1>6, <2>2 DEF Stands, KnownIn
  <2> QED BY <2>1, <2>2
<1> QED BY <1>7 DEF Stands

LEMMA WrittenStands ==
  ASSUME NEW table, NEW offered, Shaped(table), Stands(table), OfTracks(offered)
  PROVE  Stands(FoldLeft(Upsert, table, TracksOf(offered)))
<1> PICK n \in Nat : n = Len(offered)
  BY DEF OfTracks
<1> PICK recs : recs = TracksOf(offered)
  OBVIOUS
<1>1. DOMAIN recs = 1..n
  BY DEF TracksOf, OfTracks
<1>2. \A i \in 1..n : TrackKey(recs[i]) \in Keys /\ {"artist", "title"} \subseteq DOMAIN recs[i]
  BY <1>1 DEF TracksOf, OfTracks
<1>3. PICK run : Taking("rows", run, table, recs, n) /\ FoldLeft(Upsert, table, recs) = run[n]
  BY <1>1, FoldsAre
<1> DEFINE good(i) == Shaped(run[i]) /\ Stands(run[i])
           gaps == {i \in 0..n : ~good(i)}
<1>4. good(0)
  BY <1>3 DEF Taking
<1>5. ASSUME NEW i \in 1..n, good(i - 1) PROVE good(i)
  <2>1. run[i] = Upsert(run[i - 1], recs[i])
    BY <1>3 DEF Taking, Taken
  <2> QED BY <1>2, <1>5, <2>1, UpsertIs, UpsertStands
<1> HIDE DEF good
<1>6. gaps = {}
  <2> SUFFICES ASSUME gaps # {} PROVE FALSE
    OBVIOUS
  <2>0. gaps \subseteq Nat
    OBVIOUS
  <2>1. PICK m \in gaps : \A k \in gaps : m <= k
    BY <2>0, Smallest
  <2>2. m # 0
    BY <1>4
  <2>3. m \in 1..n /\ m - 1 \in 0..n /\ ~(m <= m - 1)
    BY <2>2
  <2>4. good(m - 1)
    BY <2>1, <2>3
  <2> QED BY <1>5, <2>3, <2>4
<1>7. good(n)
  <2>1. n \in 0..n
    OBVIOUS
  <2> QED BY <1>6, <2>1
<1> QED BY <1>3, <1>7 DEF good

LEMMA HeardIs ==
  ASSUME NEW heard, NEW known, NEW offered, LibListed(heard, known), OfTracks(offered),
         KeysOf(offered) \subseteq known
  PROVE  LibListed(FoldLeft(InsertListen, heard, offered), known)
<1> PICK n \in Nat : n = Len(offered)
  BY DEF OfTracks
<1>1. DOMAIN offered = 1..n
  BY DEF OfTracks
<1>2. \A i \in 1..n : TrackKey(offered[i].track) \in known /\ offered[i].ms \in Nat
  BY <1>1 DEF KeysOf, OfTracks
<1>3. PICK run : Taking("listens", run, heard, offered, n) /\ FoldLeft(InsertListen, heard, offered) = run[n]
  BY <1>1, FoldsAre
<1> DEFINE good(i) == LibListed(run[i], known)
           gaps == {i \in 0..n : ~good(i)}
<1>4. good(0)
  BY <1>3 DEF Taking
<1>5. ASSUME NEW i \in 1..n, good(i - 1) PROVE good(i)
  <2> PICK old : old = run[i - 1]
    OBVIOUS
  <2> PICK item : item = offered[i]
    OBVIOUS
  <2> DEFINE key == TrackKey(item.track)
             new == [key |-> key, at |-> item.at, ms |-> item.ms, source |-> item.source]
  <2>1. run[i] = InsertListen(old, item) /\ LibListed(old, known) /\ key \in known /\ item.ms \in Nat
    BY <1>2, <1>3, <1>5 DEF Taking, Taken
  <2>2. CASE \E l \in old : l.key = key /\ l.at = item.at /\ l.ms = item.ms
    <3>1. run[i] = old
      BY <2>1, <2>2 DEF InsertListen
    <3> QED BY <2>1, <3>1
  <2>3. CASE ~(\E l \in old : l.key = key /\ l.at = item.at /\ l.ms = item.ms)
    <3>1. run[i] = old \cup {new}
      BY <2>1, <2>3 DEF InsertListen
    <3>2. new.key = key /\ new.at = item.at /\ new.ms = item.ms
      OBVIOUS
    <3>3. IsFiniteSet(old \cup {new})
      <4>1. IsFiniteSet(old)
        BY <2>1 DEF LibListed
      <4> QED BY <4>1, FS_AddElement
    <3> HIDE DEF key, new
    <3>4. \A l \in old \cup {new} : l.key \in known /\ l.ms \in Nat
      BY <2>1, <3>2 DEF LibListed
    <3>5. \A l, m \in old \cup {new} : l.key = m.key /\ l.at = m.at /\ l.ms = m.ms => l = m
      BY <2>1, <2>3, <3>2 DEF LibListed
    <3> QED BY <3>1, <3>3, <3>4, <3>5 DEF LibListed
  <2> QED BY <2>2, <2>3
<1> HIDE DEF good
<1>6. gaps = {}
  <2> SUFFICES ASSUME gaps # {} PROVE FALSE
    OBVIOUS
  <2>0. gaps \subseteq Nat
    OBVIOUS
  <2>1. PICK m \in gaps : \A k \in gaps : m <= k
    BY <2>0, Smallest
  <2>2. m # 0
    BY <1>4
  <2>3. m \in 1..n /\ m - 1 \in 0..n /\ ~(m <= m - 1)
    BY <2>2
  <2>4. good(m - 1)
    BY <2>1, <2>3
  <2> QED BY <1>5, <2>3, <2>4
<1>7. good(n)
  <2>1. n \in 0..n
    OBVIOUS
  <2> QED BY <1>6, <2>1
<1> QED BY <1>3, <1>7 DEF good

LEMMA InsertsRecord ==
  ASSUME LibraryInv, LibRecorded(rows, listens), NEW p \in Procs, NEW next, InsertListens(p, next),
         proc[p].pc = "write"
  PROVE  LibRecorded(rows', listens')
<1> PICK offered : offered = proc[p].offered
  OBVIOUS
<1>1. CASE writes[p]
  BY <1>1 DEF InsertListens
<1>2. CASE ~writes[p]
  <2>1. rows' = FoldLeft(Upsert, rows, TracksOf(offered)) /\ listens' = FoldLeft(InsertListen, listens, offered)
    BY <1>2 DEF InsertListens
  <2>2. OfTracks(offered) /\ Shaped(rows)
    BY OldIs DEF Fits, Imports, LibraryInv
  <2>3. KeepsIds(rows, rows') /\ \A key \in KeysOf(offered) : rows'[key].known
    BY <2>1, <2>2, WrittenIs
  <2>4. Stands(rows')
    BY <2>1, <2>2, WrittenStands DEF LibRecorded
  <2>5. KnownIn(rows) \subseteq KnownIn(rows') /\ KeysOf(offered) \subseteq KnownIn(rows')
    <3>1. KeysOf(offered) \subseteq Keys
      BY <2>2 DEF OfTracks, KeysOf
    <3> QED BY <2>3, <3>1 DEF KnownIn, KeepsIds
  <2>6. LibListed(listens, KnownIn(rows'))
    BY <2>5 DEF LibRecorded, LibListed
  <2>7. LibListed(listens', KnownIn(rows'))
    BY <2>1, <2>2, <2>5, <2>6, HeardIs
  <2> QED BY <2>4, <2>7 DEF LibRecorded
<1> QED BY <1>1, <1>2

LEMMA ResolutionRecords ==
  ASSUME LibraryInv, LibRecorded(rows, listens), NEW p \in Procs, SetResolution(p)
  PROVE  LibRecorded(rows', listens')
<1> PICK key : key = Head(proc[p].todo)
  OBVIOUS
<1> PICK found : found = proc[p].found[key]
  OBVIOUS
<1>1. /\ listens' = listens
      /\ rows' = [rows EXCEPT ![key] = IF @.known THEN [@ EXCEPT !.id = found.id, !.method = found.method] ELSE @]
  BY DEF SetResolution
<1>2. Shaped(rows)
  BY DEF LibraryInv
<1>3. ASSUME NEW k \in Keys PROVE rows'[k].known = rows[k].known /\ rows'[k].track = rows[k].track
  <2>1. DOMAIN rows[k] = {"known", "track", "id", "method"} /\ DOMAIN rows = Keys
    BY <1>2 DEF Shaped, NoRow
  <2>2. CASE k # key
    BY <1>1, <2>1, <2>2
  <2>3. CASE k = key
    <3>1. rows'[k] = IF rows[k].known THEN [rows[k] EXCEPT !.id = found.id, !.method = found.method] ELSE rows[k]
      BY <1>1, <2>1, <2>3
    <3> QED BY <2>1, <3>1
  <2> QED BY <2>2, <2>3
<1>4. KnownIn(rows') = KnownIn(rows)
  BY <1>3 DEF KnownIn
<1>5. Stands(rows')
  <2>1. KnownIn(rows) \subseteq Keys
    BY DEF KnownIn
  <2> QED BY <1>3, <1>4, <2>1 DEF LibRecorded, Stands
<1> QED BY <1>1, <1>4, <1>5 DEF LibRecorded

LEMMA RecordedStep == ASSUME LibraryInv, LibRecorded(rows, listens), [Next]_vars PROVE LibRecorded(rows', listens')
<1>1. CASE UNCHANGED vars
  BY <1>1 DEF vars
<1>2. ASSUME NEW p \in Procs, Step(p) PROVE LibRecorded(rows', listens')
  <2>1. WriteImport(p) \/ WritePlayed(p) => LibRecorded(rows', listens')
    BY InsertsRecord DEF WriteImport, WritePlayed
  <2>2. SetResolution(p) => LibRecorded(rows', listens')
    BY ResolutionRecords
  <2>3. \/ Open(p) \/ Migrate(p) \/ MarkVersion(p) \/ BeginImport(p) \/ ResolveTracks(p) \/ BeginWrite(p)
        \/ FinishImport(p) \/ BeginPlayed(p) \/ Ask(p) \/ End(p) \/ Crash(p)
        => UNCHANGED <<rows, listens>>
    BY DEF Open, Migrate, MarkVersion, BeginImport, ResolveTracks, BeginWrite,
           FinishImport, BeginPlayed, Ask,
           End, Crash
  <2> QED BY <1>2, <2>1, <2>2, <2>3 DEF Step
<1> QED BY <1>1, <1>2 DEF Next

LEMMA RecordedInit == Init => LibRecorded(rows, listens)
<1> SUFFICES ASSUME Init PROVE LibRecorded(rows, listens)
  OBVIOUS
<1>1. listens = {} /\ IsFiniteSet({})
  BY FS_EmptySet DEF Init
<1>2. KnownIn(rows) = {}
  BY DEF Init, KnownIn, NoRow
<1> QED BY <1>1, <1>2 DEF LibRecorded, LibListed, Stands

\* The search and the statistics tell one number: what the hits of an identity
\* count together is what the statistics count for it, whoever imported, played
\* or resolved what, and wherever it stopped (play_predicate_sql and
\* PlayRule::counts, over one join).
THEOREM SearchIsTheStatistics == LibraryAssumption => (Spec => []SearchAgreesWithStats)
<1>1. LibraryInv /\ LibRecorded(rows, listens) => SearchAgreesWithStats
  BY AgreesWhenRecorded DEF LibraryInv
<1>2. LibraryInv /\ LibRecorded(rows, listens) /\ [Next]_vars => (LibraryInv /\ LibRecorded(rows, listens))'
  BY LibraryStep, RecordedStep
<1>3. LibraryAssumption /\ Init => LibraryInv /\ LibRecorded(rows, listens)
  BY LibraryInit, RecordedInit
<1> QED BY <1>1, <1>2, <1>3, PTL DEF Spec
=============================================================================
