---------------------------- MODULE LiveSession ----------------------------
(***************************************************************************)
(* The playing session of the TUI and the desktop, playback/live.rs: the   *)
(* player of module Player, the listens held back while the store cannot   *)
(* be written, and the loop that drives both - commands and ticks one at a *)
(* time on the core thread (the desktop's core_thread.rs, the TUI's run).  *)
(*                                                                         *)
(* The store is the library's listens table: one transaction per write,    *)
(* INSERT OR IGNORE on a unique key, so writing a listen twice keeps one.  *)
(***************************************************************************)
EXTENDS Player

VARIABLES
  pending,     \* listens that could not be written yet
  stored,      \* the listens table
  storeFaults, \* writes that failed so far
  seeded       \* history: listens that had to be in the store after a tick

CONSTANT MaxStoreFaults  \* bound of the model: writes that fail

ASSUME LiveSessionAssumption == MaxStoreFaults \in Nat

vars == <<playerVars, pending, stored, storeFaults, seeded>>

sessionRest == <<pending, stored, storeFaults, seeded>>

Init == /\ PlayerInit
        /\ pending = <<>> /\ stored = {} /\ storeFaults = 0 /\ seeded = {}

-----------------------------------------------------------------------------
(* record_listens: the whole batch or nothing; on failure it is held.      *)
Write(batch) ==
  \/ /\ stored' = stored \cup ToSet(batch)
     /\ pending' = <<>>
     /\ storeFaults' = storeFaults
  \/ /\ batch # <<>>
     /\ storeFaults < MaxStoreFaults
     /\ storeFaults' = storeFaults + 1
     /\ pending' = batch
     /\ stored' = stored

(* Slip: the error is returned before the listens are written.             *)
TickWritesSlip ==
  /\ core.pc = "ticked"
  /\ IF core.failed THEN /\ pending' = pending \o listens
                         /\ UNCHANGED <<stored, storeFaults>>
                    ELSE Write(pending \o listens)
  /\ listens' = <<>>
  /\ core' = Free
  /\ seeded' = IF storeFaults' = storeFaults THEN closed ELSE seeded
  /\ UNCHANGED <<queue, now, prefetched, engine, engines, keys, faults,
                 plays, closed>>

(* Slip: a round in which the player produced nothing does not touch the   *)
(* store, and what is held back is forgotten with it.                      *)
QuietTickSlip ==
  /\ core.pc = "ticked"
  /\ IF listens = <<>> THEN UNCHANGED <<pending, stored, storeFaults, seeded>>
     ELSE /\ Write(pending \o listens)
          /\ seeded' = IF storeFaults' = storeFaults THEN closed ELSE seeded
  /\ listens' = <<>>
  /\ core' = Free
  /\ UNCHANGED <<queue, now, prefetched, engine, engines, keys, faults,
                 plays, closed>>

(* LiveSession::tick after player.tick: the listens are written whether or *)
(* not the player failed, and only then the error is returned.             *)
TickWrites ==
  /\ core.pc = "ticked"
  /\ Write(pending \o listens)
  /\ listens' = <<>>
  /\ core' = Free
  /\ seeded' = IF storeFaults' = storeFaults THEN closed ELSE seeded
  /\ UNCHANGED <<queue, now, prefetched, engine, engines, keys, faults,
                 plays, closed>>

(* commands::play: a new player is built and its first track started while *)
(* the old one plays on; if that succeeds it replaces the old one, whose   *)
(* listens move to `pending`; if it fails nothing changes.                 *)
Search ==
  /\ core.pc = "free" /\ keys < MaxKeys
  /\ keys' = keys + 1
  /\ core' = [Free EXCEPT !.pc = "searching"]
  /\ UNCHANGED <<queue, now, listens, prefetched, engine, engines, faults, plays, closed,
                 sessionRest>>

(* Slip: the old player is dropped with the listens it holds.              *)
HandOverSlip == pending

HandOver == pending \o listens \o FinishedListen(now)

ReplacePlayer ==
  /\ core.pc = "searching"
  /\ engines < MaxEngines
  /\ queue' \in FoundQueues
  /\ pending' = HandOver
  /\ closed' = closed \cup ToSet(FinishedListen(now))
  /\ listens' = <<>>
  /\ engines' = engines + 1
  /\ engine' = NewEngine(Current(queue'))
  /\ now' = FirstOn(Current(queue'))
  /\ prefetched' = None
  /\ core' = Free
  /\ UNCHANGED <<keys, faults, plays, stored, storeFaults, seeded>>

SearchFails ==
  /\ core.pc = "searching"
  /\ core' = Free
  /\ UNCHANGED <<queue, now, listens, prefetched, engine, engines, keys, faults, plays,
                 closed, sessionRest>>

(* shutdown: the player stops, what is left is written once, and the       *)
(* program ends.                                                           *)
Quit ==
  /\ core.pc = "free"
  /\ Write(pending \o listens \o FinishedListen(now))
  /\ closed' = closed \cup ToSet(FinishedListen(now))
  /\ listens' = <<>> /\ now' = None /\ engine' = None
  /\ core' = [Free EXCEPT !.pc = "closed"]
  /\ queue' = EmptyQueue /\ prefetched' = None
  /\ UNCHANGED <<engines, keys, faults, plays, seeded>>

(* The program ends without shutdown: a drawing error of the TUI, or the   *)
(* desktop's process, which does not wait for the core thread.             *)
DropOut ==
  /\ core.pc \notin {"closed", "gone"}
  /\ core' = [Free EXCEPT !.pc = "gone"]
  /\ pending' = <<>> /\ listens' = <<>> /\ now' = None /\ engine' = None
  /\ queue' = EmptyQueue /\ prefetched' = None
  /\ UNCHANGED <<engines, keys, faults, plays, closed, stored, storeFaults, seeded>>

PlayerStep == EngineStep \/ StartStep \/ TickStep \/ UserStep

Next == \/ PlayerStep /\ UNCHANGED sessionRest
        \/ TickWrites \/ Search \/ ReplacePlayer \/ SearchFails \/ Quit \/ DropOut

Spec == Init /\ [][Next]_vars

-----------------------------------------------------------------------------
(* No listen is ever lost inside the session: whatever fails and whatever  *)
(* the user does, each one produced is in the store, held back for the     *)
(* next round, or still in the player.                                     *)
ListensAreKept ==
  core.pc # "gone" => closed = stored \cup ToSet(pending) \cup ToSet(listens)

(* What an end without shutdown takes: nothing that was produced before    *)
(* the last round whose write succeeded - that is in the store, not on its *)
(* way to it.                                                              *)
WrittenEveryRound == seeded \subseteq stored

(* Every listen reaches the store: a failed write, a failed tick or a new  *)
(* search in between only delays it, so as long as the core thread gets    *)
(* back to its loop the store is complete again and again.                 *)
ListensReachStore == []<>(core.pc = "free") => []<>(closed \subseteq stored)
=============================================================================
