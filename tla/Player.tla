------------------------------- MODULE Player -------------------------------
(***************************************************************************)
(* The player, playback/player.rs: the queue, the audio engine, the track  *)
(* handed to the engine ahead of time (D-024) and the listens it produces. *)
(*                                                                         *)
(* Everything here runs on the core thread, one call at a time, but the    *)
(* engine plays on while a call waits for a provider (the `.await` of      *)
(* resolve_source), so a call is split there.  The engine is reduced to    *)
(* what the player reads of it - current_seq, finished, queued_len, state, *)
(* played_ms_of - and its own threads are module AudioEngine's.            *)
(*                                                                         *)
(* The module has the player's calls; LiveSession and CliPlay are the two  *)
(* loops that drive them and say what follows a tick.                      *)
(***************************************************************************)
EXTENDS QueueOps, Integers, SequencesExt

CONSTANTS
  None,         \* Rust's None
  Lists,        \* the search results a player may be started with
  MaxEngines,   \* bound of the model: engines opened; later opens hang
  MaxLine,      \* bound of the model: tracks queued on one engine
  MaxKeys,      \* bound of the model: what the user does
  MaxFaults     \* bound of the model: sources that fail to resolve or open, and
                \* tracks a stale idle flag hides

VARIABLES
  queue,
  now,          \* now_playing: the item and its number on the engine, or None
  listens,      \* pending_listens
  prefetched,   \* the item handed to the engine ahead of time, or None
  engine,       \* the audio engine, or None
  core,         \* the call the core thread is in
  engines,      \* engines opened so far
  keys, faults,
  \* history, read by no action
  plays,        \* every track that began to sound
  closed        \* every listen produced

playerVars == <<queue, now, listens, prefetched, engine, core, engines, keys,
                 faults, plays, closed>>

Line == [item : Track, bad : BOOLEAN]

Engine == [id : 1..MaxEngines,
           line : Seq(Line),    \* the tracks queued on it, in order
           heard : 0..MaxLine,  \* the one that sounds: current_seq
           ended : BOOLEAN,     \* nothing left to play: finished()
           stopped : BOOLEAN]   \* the last callback stored Stopped: state()

Numbered == [item : Track, seq : 1..MaxLine]

(* The session looks the tracks up and refuses an empty list.              *)
ASSUME PlayerAssumption ==
  /\ Lists \subseteq Seq(Track) \ {<<>>}
  /\ MaxEngines \in Nat /\ MaxLine \in Nat \ {0} /\ MaxKeys \in Nat /\ MaxFaults \in Nat
  /\ None \notin Engine /\ None \notin Numbered

Listen == [eng : 1..MaxEngines, seq : 1..MaxLine, item : Track]

(* enough: the PlayRule is passed - while the player knew the track to be  *)
(* the playing one ("yes") or at another moment ("unnoticed").             *)
Play == [eng : 1..MaxEngines, seq : 1..MaxLine, item : Track,
         enough : {"no", "yes", "unnoticed"}]

Core == [pc : {"free", "starting", "sampled", "prefetching", "ticked",
               "searching", "closed", "gone"},
         op : {"key", "tick"},          \* who waits for start_current
         failed : BOOLEAN,              \* the tick returns Err
         seq : 0..MaxLine,              \* the samples of a tick
         finished : BOOLEAN]

PlayerTypeOK ==
  /\ queue \in Queue
  /\ now \in Numbered \cup {None}
  /\ listens \in Seq(Listen)
  /\ prefetched \in Numbered \cup {None}
  /\ engine \in Engine \cup {None}
  /\ core \in Core
  /\ engines \in 0..MaxEngines
  /\ keys \in 0..MaxKeys /\ faults \in 0..MaxFaults
  /\ plays \in Seq(Play)
  /\ closed \in SUBSET Listen

Free == [pc |-> "free", op |-> "key", failed |-> FALSE, seq |-> 0, finished |-> FALSE]

(* Player::new.                                                            *)
PlayerInit ==
  /\ queue = EmptyQueue
  /\ now = None /\ listens = <<>> /\ prefetched = None /\ engine = None
  /\ core = Free
  /\ engines = 0 /\ keys = 0 /\ faults = 0
  /\ plays = <<>> /\ closed = {}

(* The queues a search may hand to the player: the shuffle option is set   *)
(* before play_items replaces the list.                                    *)
FoundQueues == UNION {Replace([EmptyQueue EXCEPT !.shuffle = asked[1]], asked[2]) :
                        asked \in BOOLEAN \X Lists}

-----------------------------------------------------------------------------
(* The engine plays on its own.                                            *)

engineRest == <<queue, now, listens, prefetched, core, engines, keys, faults, closed>>

Waiting == engine.heard + 1 \in DOMAIN engine.line

(* The next track begins to sound; current_seq changes, and an engine that *)
(* counted as finished no longer does.                                     *)
EngineHears ==
  /\ engine # None
  /\ Waiting /\ ~engine.line[engine.heard + 1].bad
  /\ engine' = [engine EXCEPT !.heard = @ + 1, !.ended = FALSE, !.stopped = FALSE]
  /\ plays' = Append(plays, [eng |-> engine.id, seq |-> engine.heard + 1,
                             item |-> engine.line[engine.heard + 1].item,
                             enough |-> "no"])
  /\ UNCHANGED engineRest

(* The track that sounds passes the PlayRule.                              *)
EngineProgresses ==
  /\ engine # None /\ ~engine.ended /\ engine.heard > 0
  /\ Last(plays).eng = engine.id /\ Last(plays).enough = "no"
  /\ plays' = [plays EXCEPT ![Len(plays)].enough =
                 IF now # None /\ now.seq = engine.heard THEN "yes" ELSE "unnoticed"]
  /\ UNCHANGED <<engineRest, engine>>

(* A track queued ahead cannot be opened on the decoder's thread.          *)
EngineSkips ==
  /\ engine # None /\ engine.heard > 0
  /\ Waiting /\ ~engine.line[engine.heard + 1].bad
  /\ faults < MaxFaults
  /\ faults' = faults + 1
  /\ engine' = [engine EXCEPT !.line[engine.heard + 1].bad = TRUE]
  /\ UNCHANGED <<queue, now, listens, prefetched, core, engines, keys, closed, plays>>

(* The buffer has drained and no track is left: finished() turns true, and *)
(* the next callback stores Stopped.                                       *)
EngineEnds ==
  /\ engine # None /\ ~engine.ended
  /\ Waiting => engine.line[engine.heard + 1].bad
  /\ engine' = [engine EXCEPT !.ended = TRUE]
  /\ UNCHANGED <<engineRest, plays>>

(* The same with a track left, taken by the decoder but not begun, because *)
(* the idle flag is out of date (AudioEngine's IdleIsStale).               *)
EngineEndsEarly ==
  /\ engine # None /\ ~engine.ended
  /\ Waiting /\ ~engine.line[engine.heard + 1].bad
  /\ faults < MaxFaults
  /\ faults' = faults + 1
  /\ engine' = [engine EXCEPT !.ended = TRUE]
  /\ UNCHANGED <<queue, now, listens, prefetched, core, engines, keys, closed, plays>>

CallbackStores ==
  /\ engine # None /\ engine.stopped # engine.ended
  /\ engine' = [engine EXCEPT !.stopped = engine.ended]
  /\ UNCHANGED <<engineRest, plays>>

EngineStep == EngineHears \/ EngineProgresses \/ EngineSkips \/ EngineEnds
              \/ EngineEndsEarly \/ CallbackStores

State == IF engine = None \/ engine.stopped THEN "stopped" ELSE "active"

-----------------------------------------------------------------------------
(* finish_current_listen: the playing track's own slice is asked how long  *)
(* it was heard; a listen is produced if the rule says it counts.          *)

(* Slip: position_ms, the position in the slice that sounds now, instead   *)
(* of played_ms_of.                                                        *)
PlayedEnoughSlip(np) ==
  engine # None /\ \E i \in DOMAIN plays : /\ plays[i].eng = engine.id
                                           /\ plays[i].seq = engine.heard
                                           /\ plays[i].enough # "no"

PlayedEnough(np) ==
  engine # None /\ \E i \in DOMAIN plays : /\ plays[i].eng = engine.id
                                           /\ plays[i].seq = np.seq
                                           /\ plays[i].enough # "no"

FinishedListen(np) ==
  IF np # None /\ PlayedEnough(np)
    THEN <<[eng |-> engine.id, seq |-> np.seq, item |-> np.item]>>
    ELSE <<>>

Produce(finished) ==
  /\ listens' = listens \o finished
  /\ closed' = closed \cup ToSet(finished)

(* start_current up to its await: the playing track's listen is closed     *)
(* before anything is known of the new one.                                *)
BeginStart(op) ==
  /\ now' = None
  /\ Produce(FinishedListen(now))
  /\ core' = [core EXCEPT !.pc = "starting", !.op = op]
  /\ UNCHANGED <<prefetched, engine>>

Returned(op, err) ==
  IF op = "tick" THEN [Free EXCEPT !.pc = "ticked", !.failed = err] ELSE Free

NewEngine(item) == [id |-> engines + 1, line |-> <<[item |-> item, bad |-> FALSE]>>,
                    heard |-> 0, ended |-> FALSE, stopped |-> FALSE]

FirstOn(item) == [item |-> item, seq |-> 1]

(* The source resolved and opened: a new engine, the old one is dropped.   *)
StartSucceeds ==
  /\ core.pc = "starting"
  /\ engines < MaxEngines
  /\ engines' = engines + 1
  /\ engine' = NewEngine(Current(queue))
  /\ now' = FirstOn(Current(queue))
  /\ prefetched' = None
  /\ core' = Returned(core.op, FALSE)
  /\ UNCHANGED <<queue, listens, keys, faults, plays, closed>>

(* No provider, no source, or it cannot be opened: the error returns and   *)
(* the old engine, if there is one, is left as it is.                      *)
StartFails ==
  /\ core.pc = "starting"
  /\ faults < MaxFaults
  /\ faults' = faults + 1
  /\ core' = Returned(core.op, TRUE)
  /\ UNCHANGED <<queue, now, listens, prefetched, engine, engines, keys,
                  plays, closed>>

-----------------------------------------------------------------------------
(* The user's commands.                                                    *)

Press == /\ core.pc = "free" /\ keys < MaxKeys
         /\ keys' = keys + 1
         /\ UNCHANGED <<engines,  faults, plays>>

(* stop(): the listen is closed and the engine dropped; `prefetched` stays.*)
StopPlaying ==
  /\ Produce(FinishedListen(now))
  /\ now' = None /\ engine' = None
  /\ UNCHANGED <<queue, prefetched, core>>

Stop == Press /\ StopPlaying

NextKey ==
  /\ Press
  /\ IF CanNext(queue)
       THEN queue' \in NextItem(queue) /\ BeginStart("key")
       ELSE StopPlaying

PreviousKey ==
  /\ Press
  /\ CanPrevious(queue)
  /\ queue' = PreviousItem(queue) /\ BeginStart("key")

JumpKey ==
  /\ Press
  /\ \E p \in DOMAIN queue.order : queue' = JumpTo(queue, p)
  /\ BeginStart("key")

(* The shuffle and repeat switches write the queue through queue_mut and   *)
(* tell the player nothing.                                                *)
Switch ==
  /\ core.pc = "free" /\ keys < MaxKeys
  /\ keys' = keys + 1
  /\ \/ queue' \in SetShuffle(queue, ~queue.shuffle)
     \/ \E mode \in RepeatMode \ {queue.repeat} : queue' = SetRepeat(queue, mode)
  /\ UNCHANGED <<now, listens, prefetched, engine, core, engines, faults, plays, closed>>

UserStep == Stop \/ NextKey \/ PreviousKey \/ JumpKey \/ Switch

-----------------------------------------------------------------------------
(* tick(): every 200 ms, and whenever the loop gets round to it.           *)

tickRest == <<engines, keys, faults, plays>>

(* The two reads, current_seq and finished, are adjacent in the code: the  *)
(* model takes it that no whole track plays between them.                  *)
TickSamples ==
  /\ core.pc = "free"
  /\ core' = IF engine = None
               THEN Returned("tick", FALSE)
               ELSE [Free EXCEPT !.pc = "sampled", !.op = "tick",
                       !.seq = engine.heard, !.finished = engine.ended]
  /\ UNCHANGED <<queue, now, listens, prefetched, engine, closed, tickRest>>

(* 1. Was the transition heard?                                            *)
Heard == prefetched # None /\ core.seq = prefetched.seq

NowAfterTransition == IF Heard THEN prefetched ELSE now

PrefetchedAfterTransition == IF Heard THEN None ELSE prefetched

Advanced(q) == IF CanAdvance(q) THEN AdvanceAfterFinish(q) ELSE {q}

QueuesAfterTransition == IF Heard THEN Advanced(queue) ELSE {queue}

(* 2. Nothing is left to play: the next track is started with a gap, or    *)
(* the player stops.                                                       *)
TickFinds ==
  /\ core.pc = "sampled" /\ core.finished
  /\ Produce(FinishedListen(now) \o (IF Heard THEN FinishedListen(prefetched) ELSE <<>>))
  /\ now' = None
  /\ \E q \in QueuesAfterTransition :
       \/ /\ CanAdvance(q)
          /\ queue' \in AdvanceAfterFinish(q)
          /\ core' = [core EXCEPT !.pc = "starting"]
          /\ prefetched' = PrefetchedAfterTransition
          /\ engine' = engine
       \/ /\ ~CanAdvance(q)
          /\ queue' = q
          /\ core' = Returned("tick", FALSE)
          /\ prefetched' = None
          /\ engine' = None
  /\ UNCHANGED tickRest

(* 3. Otherwise the next track is handed to the engine ahead of time, if   *)
(* none is, the engine has no job waiting and the queue says what follows. *)
MayPrefetch(q) == PrefetchedAfterTransition = None /\ PeekAfterFinish(q) # NoTrack

TickAdvances ==
  /\ core.pc = "sampled" /\ ~core.finished
  /\ Produce(IF Heard THEN FinishedListen(now) ELSE <<>>)
  /\ now' = NowAfterTransition
  /\ prefetched' = PrefetchedAfterTransition
  /\ queue' \in QueuesAfterTransition
  /\ \/ core' = [core EXCEPT !.pc = "prefetching"] /\ MayPrefetch(queue')
     \/ core' = Returned("tick", FALSE) /\ (~MayPrefetch(queue') \/ Waiting)
  /\ UNCHANGED <<engine, tickRest>>

PrefetchSucceeds ==
  /\ core.pc = "prefetching"
  /\ Len(engine.line) < MaxLine
  /\ LET item == PeekAfterFinish(queue)
     IN  /\ engine' = [engine EXCEPT !.line = Append(@, [item |-> item, bad |-> FALSE]),
                                     !.ended = FALSE]
         /\ prefetched' = [item |-> item, seq |-> Len(engine.line) + 1]
  /\ core' = Returned("tick", FALSE)
  /\ UNCHANGED <<queue, now, listens, closed, tickRest>>

(* Only a warning: the next tick tries again.                              *)
PrefetchFails ==
  /\ core.pc = "prefetching"
  /\ faults < MaxFaults
  /\ faults' = faults + 1
  /\ core' = Returned("tick", FALSE)
  /\ UNCHANGED <<queue, now, listens, prefetched, engine, closed, engines, keys,
                  plays>>

TickStep == TickSamples \/ TickFinds \/ TickAdvances \/ PrefetchSucceeds
            \/ PrefetchFails

StartStep == StartSucceeds \/ StartFails

-----------------------------------------------------------------------------
ListenOf(p) == [eng |-> p.eng, seq |-> p.seq, item |-> p.item]

IsNow(p) == now # None /\ engine # None /\ engine.id = p.eng /\ now.seq = p.seq

(* A listen is the truth: it names the track that sounded under that       *)
(* number, and that track passed the rule - never the track the cursor was *)
(* on, or the one that sounded when the listen was closed.                 *)
ListensAreTrue ==
  \A l \in closed : \E i \in DOMAIN plays :
    ListenOf(plays[i]) = l /\ plays[i].enough # "no"

(* "When a track ends or is abandoned, a Listen is produced if it passed": *)
(* a track that passed the rule while it was the player's playing track    *)
(* stays the playing track until its listen is produced - by a key, a      *)
(* transition, the end of the queue or a stop, whichever comes first.      *)
NoticedPlayBecomesListen ==
  core.pc # "gone" => \A i \in DOMAIN plays :
    plays[i].enough = "yes" => ListenOf(plays[i]) \in closed \/ IsNow(plays[i])
=============================================================================
