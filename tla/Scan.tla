-------------------------------- MODULE Scan --------------------------------
(***************************************************************************)
(* The scan of the local music directories into the persistent catalog:    *)
(* the local provider (provider/local.rs), the catalog half of the library *)
(* (library/mod.rs) and Session's scan_providers and                       *)
(* scan_providers_if_stale (session.rs).                                   *)
(*                                                                         *)
(* Several processes scan the same directories into the same catalog, and  *)
(* the files change under them.  A directory is listed at once; its        *)
(* entries are then looked at one by one, in any order, and a file is      *)
(* first asked for its stamp and then read.  Time is the file system's     *)
(* clock in milliseconds.  A file is a file of its own: of a symbolic link *)
(* the code takes the link's stamp and the target's tags, and no link is   *)
(* modelled.                                                               *)
(***************************************************************************)
EXTENDS Naturals, FiniteSets, FiniteSetsExt

CONSTANTS
  Procs,       \* processes that scan
  Roots,       \* the configured music directories
  DirOf,       \* the directory each file lies in
  ParentOf,    \* the directory each subdirectory lies in
  AudioFiles,  \* those with an audio extension
  Tagged,      \* contents whose tags give a track
  Bare,        \* contents without tags: the file's name gives the track
  Broken,      \* contents that cannot be read
  Remotes,     \* servers registered besides the local provider
  MaxClock,    \* bound of the model: milliseconds
  MaxChanges   \* bound of the model: changes of the disk

ScanAssumption ==
  /\ MaxClock \in Nat /\ MaxChanges \in Nat
  /\ AudioFiles \subseteq DOMAIN DirOf
  /\ DirOf \in [DOMAIN DirOf -> Roots \cup DOMAIN ParentOf]
  /\ DOMAIN DirOf \cap (Roots \cup DOMAIN ParentOf) = {}

Files == DOMAIN DirOf
Dirs == Roots \cup DOMAIN ParentOf
Contents == Tagged \cup Bare \cup Broken
None == "none"
NoFile == [content |-> None, stamp |-> 0]
NoRow == [track |-> None, stamp |-> 0, at |-> 0]

VARIABLES
  disk,      \* each file's content and stamp, or NoFile
  dirTime,   \* each directory's stamp
  closed,    \* the directories that cannot be read
  clock,
  changes,
  catalog,   \* provider_tracks: the row of each file, or NoRow
  scan,      \* what each process is doing
  \* history, read by no action
  quiet,     \* nothing changed since the process's scan began
  unseen,    \* the catalog's newest stamp may be newer than what a scan saw
  edited     \* files changed in place since a scan of everything

world == <<disk, dirTime, closed, clock, changes>>
history == <<quiet, unseen, edited>>
vars == <<world, catalog, scan, history>>

Idle == [pc |-> "idle", last |-> 0, known |-> <<>>, todo |-> {}, seen |-> 0,
         file |-> None, stamp |-> 0, found |-> <<>>]

Init ==
  /\ disk = [f \in Files |-> NoFile] /\ dirTime = [d \in Dirs |-> 0] /\ closed = {}
  /\ clock = 1 /\ changes = 0
  /\ catalog = [f \in Files |-> NoRow]
  /\ scan = [p \in Procs |-> Idle]
  /\ quiet = [p \in Procs |-> FALSE] /\ unseen = FALSE /\ edited = {}

---------------------------------------------------------------------------
(* The catalog.                                                            *)

Rows(cat) == {f \in Files : cat[f] # NoRow}

\* catalog_stamps: the stamp of every row.
CatalogStamps == [f \in Rows(catalog) |-> catalog[f].stamp]

\* MAX(scanned_at); 0 is never.
LastScannedAt == IF Rows(catalog) = {} THEN 0 ELSE Max({catalog[f].at : f \in Rows(catalog)})

\* Slip: the stamp is updated and the tags are not.
ReplaceCatalogSlip(rows, now) ==
  [f \in Files |->
     IF f \notin DOMAIN rows THEN NoRow
     ELSE IF catalog[f] # NoRow THEN [catalog[f] EXCEPT !.stamp = rows[f].stamp, !.at = now]
     ELSE [track |-> rows[f].track, stamp |-> rows[f].stamp, at |-> now]]

\* A row whose stamp is known and the same stays as it is, the time of its scan
\* too; a row that was not found goes.
ReplaceCatalog(rows, now) ==
  [f \in Files |->
     IF f \notin DOMAIN rows THEN NoRow
     ELSE IF /\ catalog[f] # NoRow /\ catalog[f].stamp # 0
             /\ catalog[f].stamp = rows[f].stamp THEN catalog[f]
     ELSE [track |-> rows[f].track, stamp |-> rows[f].stamp, at |-> now]]

---------------------------------------------------------------------------
(* The disk.                                                               *)

\* read_track: the tags, or else the name, or an error.
ReadTrack(content) ==
  CASE content \in Tagged -> content
    [] content \in Bare -> "name"
    [] content \in Broken -> None

Under(d) == {f \in Files : DirOf[f] = d /\ disk[f] # NoFile}
Subdirs(d) == {s \in DOMAIN ParentOf : ParentOf[s] = d}

\* A change of the disk while a scan runs, or in the millisecond of the
\* catalog's newest stamp, may stay behind that stamp.
Changed(d) ==
  /\ changes < MaxChanges /\ changes' = changes + 1
  /\ quiet' = [p \in Procs |-> FALSE]
  /\ unseen' = (unseen \/ clock <= LastScannedAt \/ \E p \in Procs : scan[p].pc # "idle")
  /\ UNCHANGED <<clock, catalog, scan>>

AddFile(f, content) ==
  /\ disk[f] = NoFile /\ disk' = [disk EXCEPT ![f] = [content |-> content, stamp |-> clock]]
  /\ dirTime' = [dirTime EXCEPT ![DirOf[f]] = clock]
  /\ edited' = edited \ {f} /\ Changed(DirOf[f]) /\ UNCHANGED closed

DeleteFile(f) ==
  /\ disk[f] # NoFile /\ disk[f].stamp # clock
  /\ disk' = [disk EXCEPT ![f] = NoFile]
  /\ dirTime' = [dirTime EXCEPT ![DirOf[f]] = clock]
  /\ edited' = edited \ {f} /\ Changed(DirOf[f]) /\ UNCHANGED closed

\* A file is written in place at most once in a millisecond; its directory
\* does not notice.
EditFile(f, content) ==
  /\ disk[f] # NoFile /\ disk[f].stamp # clock /\ content # disk[f].content
  /\ disk' = [disk EXCEPT ![f] = [content |-> content, stamp |-> clock]]
  /\ edited' = edited \cup {f} /\ Changed(DirOf[f]) /\ UNCHANGED <<dirTime, closed>>

\* Permissions are taken or given: no stamp tells.
ToggleDir(d) ==
  /\ closed' = IF d \in closed THEN closed \ {d} ELSE closed \cup {d}
  /\ Changed(d) /\ UNCHANGED <<disk, dirTime, edited>>

Tick ==
  /\ clock < MaxClock /\ clock' = clock + 1
  /\ UNCHANGED <<disk, dirTime, closed, changes, catalog, scan, history>>

Disk ==
  \/ \E f \in Files, c \in Contents : AddFile(f, c) \/ EditFile(f, c)
  \/ \E f \in Files : DeleteFile(f)
  \/ \E d \in Dirs : ToggleDir(d)

---------------------------------------------------------------------------
(* A scan.                                                                 *)

Step(p, new) == scan' = [scan EXCEPT ![p] = new]

\* scan_providers
BeginScan(p) ==
  /\ scan[p].pc = "idle"
  /\ Step(p, [Idle EXCEPT !.pc = "stamps"]) /\ quiet' = [quiet EXCEPT ![p] = TRUE]
  /\ UNCHANGED <<world, catalog, unseen, edited>>

\* scan_providers_if_stale: when was the last scan?
BeginIfStale(p) ==
  /\ scan[p].pc = "idle"
  /\ Step(p, [Idle EXCEPT !.pc = "ask", !.last = LastScannedAt])
  /\ quiet' = [quiet EXCEPT ![p] = TRUE]
  /\ UNCHANGED <<world, catalog, unseen, edited>>

\* What a walk comes to: below every directory that it can read.
Walked(dirs, shut) ==
  LET IsAll(ds) == dirs \subseteq ds /\ \A d \in ds \ shut : Subdirs(d) \subseteq ds
  IN  {d \in Dirs : \A ds \in SUBSET Dirs : IsAll(ds) => d \in ds}

\* Slip: only the roots' own stamps are looked at.
WalkDirStampsSlip(dirs) == {dirTime[d] : d \in dirs}

\* newest_dir_mtime_ms, None when a directory cannot be read.
WalkDirStamps(dirs) == {dirTime[d] : d \in Walked(dirs, closed)}

\* A server's catalog has no rows and no stamp: it was never scanned.
Stale(last) ==
  \/ Remotes # {}
  \/ last = 0
  \/ closed # {}
  \/ \E stamp \in WalkDirStamps(Roots) : stamp > last

\* The directories' stamps are looked at in one step.
Skip(p) ==
  /\ scan[p].pc = "ask" /\ ~Stale(scan[p].last)
  /\ Step(p, Idle) /\ quiet' = [quiet EXCEPT ![p] = FALSE]
  /\ UNCHANGED <<world, catalog, unseen, edited>>

GoOn(p) ==
  /\ scan[p].pc = "ask" /\ Stale(scan[p].last)
  /\ Step(p, [scan[p] EXCEPT !.pc = "stamps"])
  /\ UNCHANGED <<world, catalog, history>>

ReadStamps(p) ==
  /\ scan[p].pc = "stamps"
  /\ Step(p, [scan[p] EXCEPT !.pc = "walk", !.known = CatalogStamps, !.todo = Roots])
  /\ UNCHANGED <<world, catalog, history>>

\* scan_dir_for_catalog on a directory.  When nothing was seen yet the scan
\* fails; later an unreadable directory is skipped.
VisitDir(p, d) ==
  /\ scan[p].pc = "walk" /\ d \in scan[p].todo
  /\ CASE d \notin closed ->
            Step(p, [scan[p] EXCEPT !.todo = (@ \ {d}) \cup Under(d) \cup Subdirs(d)])
            /\ UNCHANGED history
       [] d \in closed /\ scan[p].seen = 0 ->
            Step(p, Idle) /\ quiet' = [quiet EXCEPT ![p] = FALSE] /\ UNCHANGED <<unseen, edited>>
       [] OTHER ->
            Step(p, [scan[p] EXCEPT !.todo = @ \ {d}]) /\ unseen' = TRUE
            /\ UNCHANGED <<quiet, edited>>
  /\ UNCHANGED <<world, catalog>>

\* A row more among those that were found.
With(found, f, row) ==
  [g \in DOMAIN found \cup {f} |-> IF g = f THEN row ELSE found[g]]

Passed(s, f) == [s EXCEPT !.todo = @ \ {f}, !.seen = 1]

\* Slip: a file that is known is not asked for its stamp.
VisitFileSlip(p, f) ==
  LET s == scan[p]
      seen == Passed(s, f)
  IN  /\ s.pc = "walk" /\ f \in s.todo
      /\ Step(p,
           IF f \in DOMAIN s.known
           THEN [seen EXCEPT !.found = With(@, f, [track |-> None, stamp |-> s.known[f]])]
           ELSE [seen EXCEPT !.pc = "read", !.file = f, !.stamp = disk[f].stamp])
      /\ UNCHANGED <<world, catalog, history>>

\* A file on the way: only one with an audio extension is asked for its stamp.
\* One whose stamp is known is not read again; one that is gone has no stamp,
\* and will fail to be read.
VisitFile(p, f) ==
  LET s == scan[p]
      stamp == disk[f].stamp
      seen == Passed(s, f)
  IN  /\ s.pc = "walk" /\ f \in s.todo
      /\ Step(p,
           IF f \notin AudioFiles THEN seen
           ELSE IF stamp # 0 /\ f \in DOMAIN s.known /\ s.known[f] = stamp
           THEN [seen EXCEPT !.found = With(@, f, [track |-> None, stamp |-> stamp])]
           ELSE [seen EXCEPT !.pc = "read", !.file = f, !.stamp = stamp])
      /\ UNCHANGED <<world, catalog, history>>

ReadFile(p) ==
  LET s == scan[p]
      track == IF disk[s.file] = NoFile THEN None ELSE ReadTrack(disk[s.file].content)
  IN  /\ s.pc = "read"
      /\ Step(p, [s EXCEPT !.pc = "walk", !.file = None,
                    !.found = IF track = None THEN @
                              ELSE With(@, s.file, [track |-> track, stamp |-> s.stamp])])
      /\ UNCHANGED <<world, catalog, history>>

\* What was not read again comes from the catalog, as it is by now; a row that
\* is no longer there is left out.
KeepRows(p) ==
  LET s == scan[p]
      kept == {f \in DOMAIN s.found : s.found[f].track # None \/ catalog[f] # NoRow}
  IN  /\ s.pc = "walk" /\ s.todo = {}
      /\ Step(p, [s EXCEPT !.pc = "replace",
                    !.found = [f \in kept |->
                                 IF @[f].track # None THEN @[f]
                                 ELSE [track |-> catalog[f].track, stamp |-> catalog[f].stamp]]])
      /\ UNCHANGED <<world, catalog, history>>

\* A scan of everything, with nothing changed under it and no other that could
\* still write what it found before: whatever escaped the scans is seen by now.
SeesAll(p) ==
  /\ quiet[p] /\ Walked(Roots, closed) \cap closed = {}
  /\ \A q \in Procs \ {p} : scan[q].pc = "idle"

\* One transaction; its time is taken before it begins.
Replace(p) ==
  /\ scan[p].pc = "replace"
  /\ catalog' = ReplaceCatalog(scan[p].found, clock)
  /\ Step(p, Idle)
  /\ quiet' = [q \in Procs |-> FALSE]
  /\ unseen' = (unseen /\ ~SeesAll(p)) /\ edited' = IF SeesAll(p) THEN {} ELSE edited
  /\ UNCHANGED world

\* The process ends, or the database fails: nothing was written.
Fail(p) ==
  /\ scan[p].pc # "idle"
  /\ Step(p, Idle) /\ quiet' = [quiet EXCEPT ![p] = FALSE]
  /\ UNCHANGED <<world, catalog, unseen, edited>>

Scanner(p) ==
  \/ BeginScan(p) \/ BeginIfStale(p) \/ Skip(p) \/ GoOn(p) \/ ReadStamps(p)
  \/ \E d \in Dirs : VisitDir(p, d)
  \/ \E f \in Files : VisitFile(p, f)
  \/ ReadFile(p) \/ KeepRows(p) \/ Replace(p) \/ Fail(p)

Next == Disk \/ Tick \/ \E p \in Procs : Scanner(p)

Spec == Init /\ [][Next]_vars

---------------------------------------------------------------------------
\* What the catalog should hold: the files that can be reached and read.
Reachable == Walked(Roots, closed) \ closed

Mirror == {f \in AudioFiles : /\ disk[f] # NoFile /\ DirOf[f] \in Reachable
                              /\ ReadTrack(disk[f].content) # None}

\* A row whose stamp is the file's has the file's tags, whoever scanned when
\* and whatever was edited meanwhile: skipping by the stamp is right
\* (scan_dir_for_catalog, replace_catalog, scan_inner).
StampsAreHonest ==
  \A f \in Rows(catalog) :
    disk[f] # NoFile /\ catalog[f].stamp = disk[f].stamp
    => catalog[f].track = ReadTrack(disk[f].content)

\* A scan during which nothing changed leaves the catalog a mirror of the
\* disk, though it reads only what has a new stamp (scan_inner).
QuietScanMirrors ==
  [][\A p \in Procs :
       Replace(p) /\ quiet[p] =>
         /\ Rows(catalog') = Mirror
         /\ \A f \in Mirror : catalog'[f].track = ReadTrack(disk[f].content)]_vars

\* A scan that is skipped would have found no file come or gone, if since the
\* last undisturbed scan of everything no change ran into a scan or into the
\* millisecond of its end, and no directory was passed over as unreadable; a
\* file changed in place is the documented exception (scan_providers_if_stale,
\* newest_dir_mtime_ms).
SkipIsJustified ==
  [][\A p \in Procs :
       Skip(p) /\ quiet[p] /\ ~unseen => Rows(catalog) \ edited = Mirror \ edited]_vars

\* "When a file is added/deleted the mtime of its directory changes, so
\* additions and deletions show up here": what newest_dir_mtime_ms says
\* (local.rs:163) of every scan that is skipped, whenever the file came or went.
AdditionsShowUp ==
  [][\A p \in Procs :
       Skip(p) /\ quiet[p] => Rows(catalog) \ edited = Mirror \ edited]_vars
=============================================================================
