------------------------------ MODULE MCLookups ------------------------------
(* The calls of the core thread and the cover worker (Lookups).             *)
EXTENDS Integers

CONSTANTS Threads, CoverThreads, Services, Limited, Interval, MaxLate, Retries, MaxTracks

VARIABLES slot, lookup, left, since

MCServices == {"musicbrainz", "acoustid", "archive"}
MCInterval == [s \in MCServices |-> CASE s = "musicbrainz" -> 3 [] s = "acoustid" -> 1 [] OTHER -> 0]

Net == INSTANCE Lookups WITH thread <- lookup, Workers <- CoverThreads

ASSUME LookupsConstants == Net!LookupsAssumption

LookupsSpec == Net!FairSpec

(* See Lookups: a thread's calls to one service are an interval apart.      *)
OwnCallsAreSpaced == Net!OwnCallsAreSpaced

(* See Lookups: a lookup ends, whatever the services refuse.                *)
LookupsReturn == Net!LookupsReturn
=============================================================================
