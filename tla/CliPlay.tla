------------------------------ MODULE CliPlay ------------------------------
(***************************************************************************)
(* `headshell play`, Session::play in session.rs: the player of module     *)
(* Player driven by a loop of its own - tick, ask for the state, sleep     *)
(* 100 ms - with no keys, no repeat and no second search.  The listens are *)
(* written once, after the loop.                                           *)
(***************************************************************************)
EXTENDS Player

VARIABLES
  phase,   \* where the call stands
  stored   \* the listens table

vars == <<playerVars, phase, stored>>

Init == PlayerInit /\ phase = "searching" /\ stored = {}

(* queue_from_search has answered; play_items starts the first track.      *)
PlayItems ==
  /\ phase = "searching"
  /\ phase' = "looping"
  /\ queue' \in FoundQueues
  /\ core' = [core EXCEPT !.pc = "starting"]
  /\ UNCHANGED <<now, listens, prefetched, engine, engines, keys, faults,
                 plays, closed, stored>>

(* The `?` of play_items and of tick: the player goes out of scope with    *)
(* the listens it holds.                                                   *)
GiveUp ==
  /\ phase' = "failed"
  /\ listens' = <<>> /\ now' = None /\ engine' = None
  /\ core' = [Free EXCEPT !.pc = "closed"]

PlayItemsFails ==
  /\ phase = "looping" /\ core.pc = "starting" /\ core.op = "key"
  /\ faults < MaxFaults
  /\ faults' = faults + 1
  /\ GiveUp
  /\ UNCHANGED <<queue, prefetched, engines, keys,  plays, closed, stored>>

TickFails ==
  /\ core.pc = "ticked" /\ core.failed
  /\ GiveUp
  /\ UNCHANGED <<queue, prefetched, engines, keys, faults, plays, closed,
                 stored>>

(* state() is asked after every tick; Stopped ends the loop: stop(), then  *)
(* record_listens.                                                         *)
LoopGoesOn ==
  /\ core.pc = "ticked" /\ ~core.failed
  /\ State # "stopped"
  /\ core' = Free
  /\ UNCHANGED <<queue, now, listens, prefetched, engine, engines, keys, faults, plays,
                 closed, phase, stored>>

Leave(outcome) ==
  /\ core.pc = "ticked" /\ ~core.failed
  /\ State = "stopped"
  /\ phase' = outcome
  /\ closed' = closed \cup ToSet(FinishedListen(now))
  /\ listens' = <<>> /\ now' = None /\ engine' = None
  /\ core' = [Free EXCEPT !.pc = "closed"]
  /\ UNCHANGED <<queue, prefetched, engines, keys, faults, plays>>

LoopEnds ==
  /\ Leave("done")
  /\ stored' = stored \cup ToSet(listens \o FinishedListen(now))

(* The `?` of record_listens: the batch is rolled back and the call fails. *)
WriteFails ==
  /\ listens \o FinishedListen(now) # <<>>
  /\ Leave("failed")
  /\ stored' = stored

Playing == /\ phase = "looping"
           /\ \/ EngineStep \/ TickStep \/ StartSucceeds
              \/ StartFails /\ core.op = "tick"
           /\ UNCHANGED <<phase, stored>>

Next == PlayItems \/ Playing \/ PlayItemsFails \/ TickFails \/ LoopGoesOn \/ LoopEnds
        \/ WriteFails

Spec == Init /\ [][Next]_vars

-----------------------------------------------------------------------------
(* When the command reports success the history is complete: every track   *)
(* that passed the rule while the player knew it was playing is in the     *)
(* listens table, and nothing else is.                                     *)
DoneMeansWritten ==
  phase = "done" =>
    /\ stored = closed
    /\ \A i \in DOMAIN plays : plays[i].enough = "yes" => ListenOf(plays[i]) \in stored

(* "Waits until playback ends": the command returns.  Whatever the         *)
(* providers refuse, the loop ends or fails: a race of the engine's flags  *)
(* with the tick cannot keep it polling for ever.  Where in the queue it   *)
(* ends is PlaysToTheEnd's question.                                       *)
PlayReturns == <>(phase \in {"done", "failed"})

(* "Run until the queue ends": a loop that has ended has no track left to  *)
(* advance to (session.rs:1271).                                           *)
PlaysToTheEnd == phase = "done" => ~CanAdvance(queue)
=============================================================================
