------------------------------- MODULE MCScan -------------------------------
(* Processes that scan the music directories into one catalog (Scan).       *)
EXTENDS Naturals, TLC

CONSTANTS Scanners, Roots, DirOf, ParentOf, AudioFiles, Tagged, Bare, BrokenFiles, Remotes,
          MaxClock, MaxChanges

VARIABLES music, dirTime, closed, clock, changes, catalog, scan, quiet, unseen, edited

\* One file in the root; one below it, and a picture that is no audio file.
MCDirOf == [song |-> "root", track |-> "sub", cover |-> "sub"]
MCParentOf == [sub |-> "root"]

\* The processes run the same program.
ScannersAlike == Permutations(Scanners)

Scans == INSTANCE Scan WITH Procs <- Scanners, disk <- music, Broken <- BrokenFiles

ASSUME ScanConstants == Scans!ScanAssumption

ScanSpec == Scans!Spec

(* See Scan: a row with a file's stamp has the tags of that file.           *)
StampsAreHonest == Scans!StampsAreHonest

(* See Scan: a scan nobody disturbs leaves a mirror of the disk.            *)
QuietScanMirrors == Scans!QuietScanMirrors

(* See Scan: a scan that is skipped would have found nothing new.           *)
SkipIsJustified == Scans!SkipIsJustified

(* See Scan: files that come and go show up, whenever they do.              *)
AdditionsShowUp == Scans!AdditionsShowUp
=============================================================================
