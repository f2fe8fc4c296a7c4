------------------------------ MODULE Desktop ------------------------------
(***************************************************************************)
(* The desktop shell: the page (ui/app.js), the commands it calls          *)
(* (commands.rs), the thread that owns the core (state.rs, core_thread.rs) *)
(* and what LiveSession (playback/live.rs) hands to the cover worker.      *)
(*                                                                         *)
(* Commands and ticks run one at a time on the core thread, but each       *)
(* command is a task of its own on its way there and its answer one on its *)
(* way back: answers come in any order, and events, which keep theirs, may *)
(* overtake an answer or be overtaken.  A handler of the page runs up to   *)
(* its next `await` in one step.                                           *)
(*                                                                         *)
(* The player is reduced to the queue view and to whether a track plays    *)
(* (Player and AudioEngine have the rest), its order is the list's.  The   *)
(* anchor is left out, with the calls and the events that carry nothing    *)
(* else: it only moves the progress bar and the buttons.                   *)
(***************************************************************************)
EXTENDS Naturals, FiniteSets, SequencesExt

CONSTANTS
  Track,        \* a track, and the key of its cover
  None,         \* Rust's None
  Lists,        \* what a search may find
  MaxMoves,     \* bound of the model: what the user does, tracks played out, failures
  MaxCalls,     \* bound of the model: calls under way at one time
  MaxEvents     \* bound of the model: events under way at one time

VARIABLES
  core,       \* what the core thread owns: the player, the registry
  providers,  \* the version of the servers and plugins on disk
  worker,     \* the queue and the registry the cover worker was handed
  cover,      \* what is known of each track's cover
  ready,      \* covers whose answer no tick has announced yet
  calls,      \* calls of the page under way
  events,     \* events on their way to the page, in order
  page,       \* what the page knows and shows
  moves       \* what was done of MaxMoves

coreVars == <<core, worker, cover, ready>>
vars == <<coreVars, providers, calls, events, page, moves>>

Versions == 0..MaxMoves

(* QueueView and a row of the cover report.                                *)
View == [items : Seq(Track), pos : Nat]
Row == [track : Track, status : {"pending", "found"}]

NoView == [items |-> <<>>, pos |-> 0]

ASSUME DesktopAssumption == None \notin View /\ Lists \subseteq Seq(Track)

(* The commands of the page that matter here; `change` stands for those    *)
(* that change a server or a plugin and refresh the registry.              *)
Command == {"stop", "next", "previous", "jump_to", "queue", "play", "change",
            "artwork_queue", "artwork_images"}

(* A call: the command, its argument, the part of the handler that follows *)
(* its answer, and the answer.                                             *)
Ask(cmd, arg, then) == [cmd |-> cmd, arg |-> arg, then |-> then]
NoAnswer == [ok |-> TRUE, view |-> NoView, rows |-> <<>>, keys |-> {}]
Failure == [NoAnswer EXCEPT !.ok = FALSE]

TypeOK ==
  /\ core.items \in Seq(Track) /\ core.pos \in 0..Len(core.items)
  /\ {core.now, core.engine, core.ended} \subseteq BOOLEAN
  /\ {core.registry, core.own, providers, worker.registry} \subseteq Versions
  /\ core.seen \in View \cup {None}
  /\ cover \in [Track -> {"unasked", "pending", "found"}] /\ ready \in SUBSET Track
  /\ \A c \in calls : c.id \in 1..MaxCalls /\ c.cmd \in Command /\ c.answered \in BOOLEAN
  /\ events \in Seq([moved : BOOLEAN, covers : BOOLEAN])
  /\ page.queue \in View /\ page.report \in Seq(Row)
  /\ {page.thumbs, page.labels} \subseteq SUBSET Track
  /\ {page.coversBusy, page.coversAgain} \subseteq BOOLEAN

Init ==
  /\ core = [items |-> <<>>, pos |-> 0, now |-> FALSE, engine |-> FALSE, ended |-> FALSE,
             registry |-> 0, own |-> 0, seen |-> None]
  /\ providers = 0
  /\ worker = [items |-> <<>>, registry |-> 0]
  /\ cover = [t \in Track |-> "unasked"] /\ ready = {}
  /\ calls = {} /\ events = <<>>
  /\ page = [queue |-> NoView, coversBusy |-> FALSE, coversAgain |-> FALSE,
             report |-> <<>>, thumbs |-> {}, labels |-> {}, shown |-> <<>>, label |-> None]
  /\ moves = 0

-----------------------------------------------------------------------------
(* The cover worker.                                                       *)

ViewOf(c) == [items |-> c.items, pos |-> c.pos]

(* sync_artwork: the queue goes to the worker if its stamp - the items and *)
(* the position - is not the one handed over last.                         *)
WorkerAfter(c) == IF c.seen = ViewOf(c) THEN worker
                  ELSE [items |-> c.items, registry |-> c.own]

CoverAfter(w) == [t \in Track |-> IF t \in ToSet(w.items) /\ cover[t] = "unasked"
                                    THEN "pending" ELSE cover[t]]

SyncArtwork(c) ==
  /\ core' = [c EXCEPT !.seen = ViewOf(c)]
  /\ worker' = WorkerAfter(c)
  /\ cover' = CoverAfter(worker')

(* ArtworkWorker::report: one row for each item of the worker's queue.     *)
Rows(w) == [i \in DOMAIN w.items |-> [track |-> w.items[i],
                                      status |-> CoverAfter(w)[w.items[i]]]]

(* The worker finds a cover, on a thread of its own.                       *)
CoverArrives(t) ==
  /\ cover[t] = "pending"
  /\ cover' = [cover EXCEPT ![t] = "found"]
  /\ ready' = ready \cup {t}
  /\ UNCHANGED <<core, providers, worker, calls, events, page, moves>>

-----------------------------------------------------------------------------
(* The player, as far as it shows.  A start closes what plays; if it fails *)
(* the old engine, if there is one, plays on without a track.              *)

Started(c, pos) ==
  [c EXCEPT !.pos = pos, !.now = TRUE, !.engine = TRUE, !.ended = FALSE]
NotStarted(c, pos) == [c EXCEPT !.pos = pos, !.now = FALSE]
StoppedAt(c) == [c EXCEPT !.now = FALSE, !.engine = FALSE, !.ended = FALSE]

EngineEnds ==
  /\ core.engine /\ ~core.ended
  /\ moves < MaxMoves
  /\ moves' = moves + 1
  /\ core' = [core EXCEPT !.ended = TRUE]
  /\ UNCHANGED <<providers, worker, cover, ready, calls, events, page>>

(* The position a transport key asks for; 0 when the queue has none.       *)
Target(call) ==
  CASE call.cmd = "next" /\ core.pos < Len(core.items) -> core.pos + 1
    [] call.cmd = "previous" /\ core.pos > 1 -> core.pos - 1
    [] call.cmd = "jump_to" /\ call.arg <= Len(core.items) -> call.arg
    [] OTHER -> 0

-----------------------------------------------------------------------------
(* run_on_core: a task sends the job, the core thread does it, and the     *)
(* answer goes back.  A long command holds the thread to its end.          *)

Answered(call, answer) ==
  (calls \ {call}) \cup {[call EXCEPT !.answered = TRUE, !.answer = answer]}

Fails(call) ==
  /\ moves < MaxMoves
  /\ moves' = moves + 1
  /\ calls' = Answered(call, Failure)

Stop(call) ==
  /\ call.cmd = "stop"
  /\ core' = StoppedAt(core)
  /\ calls' = Answered(call, NoAnswer)
  /\ UNCHANGED <<providers, worker, cover, ready, moves>>

(* next, previous, jump_to: next past the end stops, previous before the   *)
(* start and a position out of range do nothing.                           *)
Transport(call) ==
  /\ call.cmd \in {"next", "previous", "jump_to"}
  /\ \/ /\ Target(call) = 0
        /\ core' = IF call.cmd = "next" THEN StoppedAt(core) ELSE core
        /\ calls' = Answered(call, [NoAnswer EXCEPT !.view = ViewOf(core')])
        /\ moves' = moves
     \/ /\ Target(call) # 0
        /\ core' = Started(core, Target(call))
        /\ calls' = Answered(call, [NoAnswer EXCEPT !.view = ViewOf(core')])
        /\ moves' = moves
     \/ /\ Target(call) # 0
        /\ core' = NotStarted(core, Target(call))
        /\ Fails(call)
  /\ UNCHANGED <<providers, worker, cover, ready>>

ReadQueue(call) ==
  /\ call.cmd = "queue"
  /\ calls' = Answered(call, [NoAnswer EXCEPT !.view = ViewOf(core)])
  /\ UNCHANGED <<coreVars, providers, moves>>

(* It fails only where it always will: no cover worker was started, or one *)
(* panicked with the lock in its hand.  Neither is modelled.               *)
ArtworkQueue(call) ==
  /\ call.cmd = "artwork_queue"
  /\ SyncArtwork(core)
  /\ calls' = Answered(call, [NoAnswer EXCEPT !.rows = Rows(WorkerAfter(core))])
  /\ UNCHANGED <<providers, ready, moves>>

(* The images of the covers asked for; the call fails if the cache cannot  *)
(* be read.                                                                *)
ArtworkImages(call) ==
  /\ call.cmd = "artwork_images"
  /\ \/ calls' = Answered(call, [NoAnswer EXCEPT !.keys = call.arg]) /\ moves' = moves
     \/ Fails(call)
  /\ UNCHANGED <<coreVars, providers>>

(* LiveSession::replace_player: the new player has the registry of now,    *)
(* and its queue is handed to the cover worker again.                      *)
ReplacePlayer(list) ==
  [Started([core EXCEPT !.items = list], 1) EXCEPT !.own = core.registry, !.seen = None]

Play(call) ==
  /\ call.cmd = "play"
  /\ \/ /\ \E list \in Lists : core' = ReplacePlayer(list)
        /\ calls' = Answered(call, [NoAnswer EXCEPT !.view = ViewOf(core')])
        /\ moves' = moves
     \/ core' = core /\ Fails(call)
  /\ UNCHANGED <<providers, worker, cover, ready>>

(* The change is on disk before the registry is read again; an error       *)
(* before that leaves the registry as it was.                              *)
Change(call) ==
  /\ call.cmd = "change"
  /\ \/ /\ providers' = providers + 1
        /\ core' = [core EXCEPT !.registry = providers']
        /\ calls' = Answered(call, NoAnswer)
        /\ moves' = moves
     \/ /\ providers' \in {providers, providers + 1}
        /\ core' = core
        /\ Fails(call)
  /\ UNCHANGED <<worker, cover, ready>>

CommandStep == \E call \in calls :
  /\ ~call.answered
  /\ \/ Stop(call) \/ Transport(call) \/ ReadQueue(call) \/ ArtworkQueue(call)
     \/ ArtworkImages(call) \/ Play(call) \/ Change(call)
  /\ UNCHANGED <<events, page>>

-----------------------------------------------------------------------------
(* run_tick: LiveSession::tick, and an event if it is worth one.           *)

Finished(c) == ~c.now /\ (c.engine => c.ended)

Moved(c) == c.pos # core.pos \/ c.now # core.now \/ Finished(c)

WorthSending(c) == Moved(c) \/ ready # {}

Ticked(c) ==
  /\ SyncArtwork(c)
  /\ events' = IF WorthSending(c)
                 THEN Append(events, [moved |-> Moved(c), covers |-> ready # {}])
                 ELSE events
  /\ ready' = {}

(* The player moves on, or stops at the end of the list...                 *)
Tick ==
  /\ Len(events) < MaxEvents
  /\ Ticked(IF ~core.ended THEN core
            ELSE IF core.pos < Len(core.items) THEN Started(core, core.pos + 1)
            ELSE StoppedAt(core))
  /\ UNCHANGED <<providers, calls, page, moves>>

(* ...or the next track cannot be played: the error is sent, and nothing   *)
(* is said of the queue, which has moved on all the same.                  *)
TickFails ==
  /\ core.ended /\ core.pos < Len(core.items)
  /\ moves < MaxMoves
  /\ moves' = moves + 1
  /\ core' = NotStarted(core, core.pos + 1)
  /\ UNCHANGED <<providers, worker, cover, ready, calls, events, page>>

-----------------------------------------------------------------------------
(* The page's drawing.                                                     *)

(* Slip: the row is taken for the queue's row of the same number.          *)
CoverItemAtSlip(p, i) ==
  IF i \in DOMAIN p.report /\ i \in DOMAIN p.queue.items THEN p.report[i] ELSE None

(* coverItemAt: the report's row, only if it is still the same track.      *)
CoverItemAt(p, i) ==
  IF i \in DOMAIN p.report /\ i \in DOMAIN p.queue.items
     /\ p.report[i].track = p.queue.items[i]
    THEN p.report[i] ELSE None

IsFound(item) == item # None /\ item.status = "found"

CoverIn(item, images) == IF IsFound(item) /\ item.track \in images THEN item.track ELSE None

PaintLabel(p) == [p EXCEPT !.label = CoverIn(CoverItemAt(p, p.queue.pos), p.labels)]

PaintCovers(p) ==
  PaintLabel([p EXCEPT !.shown =
    [i \in DOMAIN p.queue.items |-> CoverIn(CoverItemAt(p, i), p.thumbs)]])

(* A step of the page: what it becomes, and the calls it makes.            *)
Does(p, asks) == [page |-> p, asks |-> asks]

AskForReport(p) == Does([p EXCEPT !.coversBusy = TRUE, !.coversAgain = FALSE],
                        <<Ask("artwork_queue", None, "report")>>)

(* Slip: a call that comes while one is under way is dropped.              *)
RefreshCoversSlip(p) == IF p.coversBusy THEN Does(p, <<>>) ELSE AskForReport(p)

RefreshCovers(p) ==
  IF p.coversBusy THEN Does([p EXCEPT !.coversAgain = TRUE], <<>>) ELSE AskForReport(p)

RenderQueue(p, view) == RefreshCovers(PaintCovers([p EXCEPT !.queue = view]))

(* The tail of the refresh: everything is painted, and if somebody asked   *)
(* meanwhile it starts over.                                               *)
Painted(p) ==
  IF p.coversAgain THEN AskForReport(PaintCovers(p))
  ELSE Does([PaintCovers(p) EXCEPT !.coversBusy = FALSE], <<>>)

FetchLabel(p) ==
  LET item == CoverItemAt(p, p.queue.pos)
  IN  IF IsFound(item) /\ item.track \notin p.labels
        THEN Does(p, <<Ask("artwork_images", {item.track}, "labels")>>)
        ELSE Painted(p)

(* Only the covers of the report are kept, and only new ones are fetched.  *)
Reported(p, rows) ==
  LET found == {r.track : r \in {r \in ToSet(rows) : r.status = "found"}}
      kept == [p EXCEPT !.report = rows, !.thumbs = @ \cap found, !.labels = @ \cap found]
      new == found \ kept.thumbs
  IN  IF new = {} THEN FetchLabel(kept)
      ELSE Does(kept, <<Ask("artwork_images", new, "thumbs")>>)

(* What follows an answer.  A failed call is shown and its result skipped. *)
Continue(p, call) ==
  CASE call.then = "render" ->
         IF call.answer.ok THEN RenderQueue(p, call.answer.view) ELSE Does(p, <<>>)
    [] call.then = "queue" -> Does(p, <<Ask("queue", None, "render")>>)
    [] call.then = "report" -> Reported(p, call.answer.rows)
    [] call.then = "thumbs" -> FetchLabel([p EXCEPT !.thumbs = @ \cup call.answer.keys])
    [] call.then = "labels" -> Painted([p EXCEPT !.labels = @ \cup call.answer.keys])
    [] call.then = "nothing" -> Does(p, <<>>)

-----------------------------------------------------------------------------
(* The page's steps.                                                       *)

FreeIds(under) == SetToSortSeq(1..MaxCalls \ {c.id : c \in under}, <)

(* invoke: each call is on its way at once.                                *)
Performs(does, under) ==
  /\ Len(does.asks) <= Len(FreeIds(under))
  /\ page' = does.page
  /\ calls' = under \cup
       {[id |-> FreeIds(under)[i], cmd |-> does.asks[i].cmd, arg |-> does.asks[i].arg,
         then |-> does.asks[i].then, answered |-> FALSE, answer |-> NoAnswer] :
           i \in DOMAIN does.asks}

AnswerComes == \E call \in calls :
  /\ call.answered
  /\ Performs(Continue(page, call), calls \ {call})
  /\ UNCHANGED <<coreVars, providers, events, moves>>

(* The tick's listener.                                                    *)
OnTick(event) == IF event.moved THEN Does(page, <<Ask("queue", None, "render")>>)
                 ELSE RefreshCovers(page)

EventComes ==
  /\ events # <<>>
  /\ events' = Tail(events)
  /\ Performs(OnTick(Head(events)), calls)
  /\ UNCHANGED <<coreVars, providers, moves>>

(* The buttons, the keys, the rows and the forms.                          *)
Gestures ==
  {Ask("next", None, "render"), Ask("previous", None, "render"),
   Ask("stop", None, "queue"), Ask("play", None, "render"), Ask("change", None, "nothing")}
  \cup {Ask("jump_to", i, "render") : i \in DOMAIN page.queue.items}

Gesture ==
  /\ moves < MaxMoves
  /\ moves' = moves + 1
  /\ \E ask \in Gestures : Performs(Does(page, <<ask>>), calls)
  /\ UNCHANGED <<coreVars, providers, events>>

Next == \/ Gesture \/ AnswerComes \/ EventComes \/ CommandStep
        \/ Tick \/ TickFails \/ EngineEnds
        \/ \E t \in Track : CoverArrives(t)

Spec == Init /\ [][Next]_vars

-----------------------------------------------------------------------------
(* "A report from before the last queue change is not painted on new       *)
(* rows": whatever order the answers come in, a row shows its own track's  *)
(* cover or none, and the record's label that of the current row.          *)
PaintedIsQueued ==
  /\ DOMAIN page.shown = DOMAIN page.queue.items
  /\ \A i \in DOMAIN page.shown : page.shown[i] \in {None, page.queue.items[i]}
  /\ page.label # None => page.label = page.queue.items[page.queue.pos]

(* "A call that comes while one is under way asks again when it ends, so   *)
(* the last answer is always the newest": once nothing is under way and    *)
(* every cover was announced, the page has the report the core would give, *)
(* although only ticks and its own drawing make it ask.  And the report is *)
(* of what the player has: a search made again after a server was added    *)
(* reaches the cover worker even when it finds the same queue.             *)
CoversCatchUp ==
  (calls = {} /\ events = <<>> /\ ready = {} /\ core.seen = ViewOf(core)) =>
    /\ page.report = Rows(worker)
    /\ worker.items = core.items /\ worker.registry = core.own
=============================================================================
