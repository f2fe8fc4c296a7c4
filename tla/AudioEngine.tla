---------------------------- MODULE AudioEngine ----------------------------
(***************************************************************************)
(* The gapless audio engine, playback/engine.rs: three threads over one    *)
(* block of shared state.  The core thread (the caller) queues tracks and  *)
(* presses the transport keys, the decoder thread writes frames into the   *)
(* ring buffer, the device callback takes them out.  One action is one     *)
(* access to shared state (an atomic load or store, or a critical section  *)
(* of a mutex), so every interleaving of the accesses is a behaviour.      *)
(*                                                                         *)
(* A sample is abstracted to the number of the track it belongs to, and    *)
(* the ring counts whole frames: its capacity and the device's buffers are *)
(* multiples of the channel count.  How many frames a track has, where it  *)
(* stops decoding and which source cannot be opened are left open.  The    *)
(* device itself does not fail here: what its error callback records, and  *)
(* that a stream that cannot start is an error of open, are left out.      *)
(***************************************************************************)
EXTENDS Integers, Sequences, FiniteSets

CONSTANTS
  Capacity,   \* frames the ring buffer holds (two seconds in the code)
  MaxPacket,  \* frames one decoded packet may have
  MaxOut,     \* frames the device may ask for in one callback
  MaxFrames,  \* bound of the model: frames of one track
  MaxJobs,    \* bound of the model: tracks queued on one engine
  MaxPauses,  \* bound of the model: how often the user pauses
  None        \* Rust's None

ASSUME AudioEngineAssumption ==
  /\ Capacity \in Nat /\ MaxPacket \in Nat /\ MaxOut \in Nat /\ MaxFrames \in Nat /\ MaxPauses \in Nat
  /\ MaxJobs \in Nat \ {0}
  /\ None \notin Nat

VARIABLES
  \* Shared
  ring,       \* the ring buffer: the track number of each frame
  played,     \* frames_played
  queued,     \* frames_queued
  state,      \* the PlayState atomic
  stop,
  idle,
  pending,    \* jobs waiting for the decoder
  spans,      \* the slices of the output, in the order they were declared
  error,      \* the error slot: the track the error waiting there is of, or None
  \* the threads
  nextSeq,    \* AudioEngine::next_seq
  dec,        \* the decoder thread
  cb,         \* the device callback
  caller,     \* the thread that owns the AudioEngine
  \* history, read by no action
  heard,      \* frames of each track the device was given
  told,       \* the tracks whose error the player took
  stale,      \* finished() read an idle flag that no longer held
  byUser,     \* the engine is dropped because the user stops or skips
  userPaused, \* the last transport call that returned is pause()
  pauses      \* pause() calls so far

shared == <<ring, played, queued, state, stop, idle, pending, spans, error>>
history == <<told, stale, byUser>>
vars == <<shared, nextSeq, dec, cb, caller, heard, userPaused, pauses, history>>

Seqs == 0..(MaxJobs - 1)

PlayState == {"stopped", "playing", "paused", "buffering"}

Job == [seq : Seqs, lazy : BOOLEAN]

Span == [seq : Seqs, start : Nat \cup {None}, frames : Nat \cup {None}]

Decoder == [pc : {"loop", "take", "park", "open", "claim", "begin", "packet",
                  "write", "push", "count", "close", "exited"},
            seq : Seqs \cup {None},  \* the job at hand
            read : Nat,              \* frames decoded from it so far
            left : Nat,              \* frames of the packet still to write
            written : Nat]           \* frames the last push took

Callback == [pc : {"waiting", "pop", "count", "settle", "store", "closed"},
             given : Nat, result : PlayState]

Caller == [pc : {"opening", "prepared", "busy", "buffer", "send", "ready",
                 "queueing", "pausing", "resuming", "polledIdle", "polledRing",
                 "finished", "taken", "failed", "clearing", "closing", "joining", "dropped"},
           seq : Seqs \cup {None}]

TypeOK ==
  /\ ring \in Seq(Seqs) /\ Len(ring) <= Capacity
  /\ played \in Nat /\ queued \in Nat
  /\ state \in PlayState
  /\ stop \in BOOLEAN /\ idle \in BOOLEAN /\ error \in Seqs \cup {None}
  /\ pending \in Seq(Job)
  /\ spans \in Seq(Span)
  /\ nextSeq \in 0..MaxJobs
  /\ dec \in Decoder /\ cb \in Callback /\ caller \in Caller
  /\ heard \in [Seqs -> Nat]
  /\ userPaused \in BOOLEAN /\ pauses \in 0..MaxPauses
  /\ told \in SUBSET Seqs /\ stale \in BOOLEAN /\ byUser \in BOOLEAN

(* AudioEngine::open has started the decoder and the stream; the caller is  *)
(* about to open the first source (Player::start_source).                   *)
Init ==
  /\ ring = <<>>
  /\ played = 0 /\ queued = 0
  /\ state = "buffering"
  /\ stop = FALSE /\ idle = TRUE /\ error = None
  /\ pending = <<>> /\ spans = <<>>
  /\ nextSeq = 0
  /\ dec = [pc |-> "loop", seq |-> None, read |-> 0, left |-> 0, written |-> 0]
  /\ cb = [pc |-> "waiting", given |-> 0, result |-> "stopped"]
  /\ caller = [pc |-> "opening", seq |-> None]
  /\ heard = [s \in Seqs |-> 0]
  /\ userPaused = FALSE /\ pauses = 0
  /\ told = {} /\ stale = FALSE /\ byUser = FALSE

-----------------------------------------------------------------------------
(* Slices                                                                  *)

Started(i) == spans[i].start # None

(* Slip: the output is not asked.                                          *)
StartedSlip(i) == Started(i)

Reached(i) == Started(i) /\ spans[i].start <= played

(* The last slice whose first frame the output has reached, by its place   *)
(* in spans; None if there is none.                                        *)
CurrentSpan ==
  LET reached == {i \in DOMAIN spans : Reached(i)}
  IN  IF reached = {} THEN None
                      ELSE CHOOSE i \in reached : \A j \in reached : j <= i

CurrentSeq == IF CurrentSpan = None THEN None ELSE spans[CurrentSpan].seq

(* played_ms_of, in frames.                                                *)
PlayedOf(i) ==
  IF ~Started(i) THEN 0
  ELSE LET offset == IF played > spans[i].start THEN played - spans[i].start ELSE 0
       IN  IF spans[i].frames = None \/ offset <= spans[i].frames
             THEN offset ELSE spans[i].frames

Declared(s) == \E i \in DOMAIN spans : spans[i].seq = s

Declare(s) == IF Declared(s)
                THEN spans
                ELSE Append(spans, [seq |-> s, start |-> None, frames |-> None])

PlaceOf(list, s) == CHOOSE i \in DOMAIN list : list[i].seq = s

(* Slip: the slice begins where the output is, not where the decoder is.   *)
BeginSpanSlip(s) ==
  LET list == Declare(s) IN [list EXCEPT ![PlaceOf(list, s)].start = played]

BeginSpan(s) ==
  LET list == Declare(s) IN [list EXCEPT ![PlaceOf(list, s)].start = queued]

CloseSpan(s) ==
  LET i == PlaceOf(spans, s)
  IN  [spans EXCEPT ![i].frames = queued - spans[i].start]

-----------------------------------------------------------------------------
(* The caller: Player on the core thread.                                  *)

callerRest == <<played, queued, error, dec, cb, heard, history>>

(* play_source: the source is opened first; if that fails the engine is    *)
(* dropped.  Then play_prepared: number and slice, idle, state, queue.     *)
OpenSource ==
  /\ caller.pc = "opening"
  /\ \/ caller' = [pc |-> "prepared", seq |-> nextSeq]
     \/ caller' = [caller EXCEPT !.pc = "failed"]
  /\ UNCHANGED <<shared, nextSeq, dec, cb, heard, userPaused, pauses, history>>

PlayPrepared ==
  /\ caller.pc = "prepared"
  /\ nextSeq' = nextSeq + 1
  /\ spans' = Declare(caller.seq)
  /\ caller' = [caller EXCEPT !.pc = "busy"]
  /\ UNCHANGED <<callerRest, ring, state, stop, idle, pending, userPaused, pauses>>

MarkBusy ==
  /\ caller.pc = "busy"
  /\ idle' = FALSE
  /\ caller' = [caller EXCEPT !.pc = "buffer"]
  /\ UNCHANGED <<callerRest, ring, state, stop, pending, spans, nextSeq, userPaused, pauses>>

MarkBuffering ==
  /\ caller.pc = "buffer"
  /\ state' = "buffering"
  /\ caller' = [caller EXCEPT !.pc = "send"]
  /\ UNCHANGED <<callerRest, ring, stop, idle, pending, spans, nextSeq, userPaused, pauses>>

Send(lazy) ==
  /\ pending' = Append(pending, [seq |-> caller.seq, lazy |-> lazy])
  /\ caller' = [pc |-> "ready", seq |-> None]
  /\ UNCHANGED <<callerRest, ring, state, stop, idle, spans, nextSeq, userPaused, pauses>>

SendPrepared == caller.pc = "send" /\ Send(FALSE)

(* enqueue: Player::prefetch_next calls it when the last track it queued   *)
(* is the one being heard and no job waits.                                *)
Enqueue ==
  /\ caller.pc = "ready"
  /\ pending = <<>> /\ CurrentSeq = nextSeq - 1
  /\ nextSeq < MaxJobs
  /\ nextSeq' = nextSeq + 1
  /\ idle' = FALSE
  /\ caller' = [pc |-> "queueing", seq |-> nextSeq]
  /\ UNCHANGED <<callerRest, ring, state, stop, pending, spans, userPaused, pauses>>

SendLazy == caller.pc = "queueing" /\ Send(TRUE)

(* Player::toggle_pause looks at the state, then pause() is one store and  *)
(* resume() another load and a store.                                      *)
PauseLoad ==
  /\ caller.pc = "ready"
  /\ state \in {"playing", "buffering"}
  /\ pauses < MaxPauses
  /\ caller' = [caller EXCEPT !.pc = "pausing"]
  /\ pauses' = pauses + 1
  /\ UNCHANGED <<shared, nextSeq, dec, cb, heard, userPaused, history>>

PauseStore ==
  /\ caller.pc = "pausing"
  /\ state' = "paused"
  /\ userPaused' = TRUE
  /\ caller' = [caller EXCEPT !.pc = "ready"]
  /\ UNCHANGED <<callerRest, ring, stop, idle, pending, spans, nextSeq, pauses>>

ResumeLoad ==
  /\ caller.pc = "ready"
  /\ state = "paused"
  /\ caller' = [caller EXCEPT !.pc = "resuming"]
  /\ UNCHANGED <<shared, nextSeq, dec, cb, heard, userPaused, pauses, history>>

ResumeStore ==
  /\ caller.pc = "resuming"
  /\ state' = "playing"
  /\ userPaused' = FALSE
  /\ caller' = [caller EXCEPT !.pc = "ready"]
  /\ UNCHANGED <<callerRest, ring, stop, idle, pending, spans, nextSeq, pauses>>

(* The decoder stored "idle" after the caller had said the opposite, and a  *)
(* job is waiting or in its hands.                                         *)
IdleIsStale == idle /\ (pending # <<>> \/ dec.seq # None)

(* finished(): three reads, each of which may end it.                      *)
Poll(from, condition, to, missed) ==
  /\ caller.pc = from
  /\ caller' = [caller EXCEPT !.pc = IF condition THEN to ELSE "ready"]
  /\ stale' = (condition /\ missed)
  /\ UNCHANGED <<shared, nextSeq, dec, cb, heard, userPaused, pauses, told, byUser>>

PollIdle == Poll("ready", idle, "polledIdle", IdleIsStale)
PollRing == Poll("polledIdle", ring = <<>>, "polledRing", stale)
PollQueue == Poll("polledRing", pending = <<>>, "finished", stale)

(* Player::tick found the engine finished: it takes the error and starts    *)
(* the next track on a new engine, or ends.  If that track cannot be        *)
(* started the engine stays, and the next tick asks again.                  *)
TakeError ==
  /\ caller.pc = "finished"
  /\ error' = None
  /\ told' = told \cup ({error} \ {None})
  /\ caller' = [caller EXCEPT !.pc = "taken"]
  /\ UNCHANGED <<ring, played, queued, state, stop, idle, pending, spans, nextSeq,
                 dec, cb, heard, userPaused, pauses, stale, byUser>>

KeepEngine ==
  /\ caller.pc = "taken"
  /\ caller' = [caller EXCEPT !.pc = "ready"]
  /\ stale' = FALSE
  /\ UNCHANGED <<shared, nextSeq, dec, cb, heard, userPaused, pauses, told, byUser>>

(* Drop: after finished, or because the user stops or skips; the stop      *)
(* flag, the ring, the stream, then the decoder is joined.                 *)
Drop ==
  /\ caller.pc \in {"ready", "taken", "failed"}
  /\ stop' = TRUE
  /\ byUser' = (caller.pc # "taken")
  /\ caller' = [caller EXCEPT !.pc = "clearing"]
  /\ UNCHANGED <<played, queued, error, dec, cb, heard, told, stale, ring, state, idle,
                 pending, spans, nextSeq, userPaused, pauses>>

ClearRing ==
  /\ caller.pc = "clearing"
  /\ ring' = <<>>
  /\ caller' = [caller EXCEPT !.pc = "closing"]
  /\ UNCHANGED <<callerRest, state, stop, idle, pending, spans, nextSeq, userPaused, pauses>>

(* Dropping the stream waits for a callback that is running.               *)
CloseStream ==
  /\ caller.pc = "closing"
  /\ cb.pc = "waiting"
  /\ cb' = [cb EXCEPT !.pc = "closed"]
  /\ caller' = [caller EXCEPT !.pc = "joining"]
  /\ UNCHANGED <<shared, nextSeq, dec, heard, userPaused, pauses, history>>

JoinDecoder ==
  /\ caller.pc = "joining"
  /\ dec.pc = "exited"
  /\ caller' = [caller EXCEPT !.pc = "dropped"]
  /\ UNCHANGED <<shared, nextSeq, dec, cb, heard, userPaused, pauses, history>>

CallerPlay == OpenSource \/ PlayPrepared \/ MarkBusy \/ MarkBuffering
              \/ SendPrepared \/ SendLazy \/ PauseStore \/ ResumeStore \/ TakeError
CallerPoll == PollIdle \/ PollRing \/ PollQueue
CallerDrop == ClearRing \/ CloseStream \/ JoinDecoder
CallerStep == CallerPlay \/ CallerPoll \/ CallerDrop
              \/ Enqueue \/ PauseLoad \/ ResumeLoad \/ KeepEngine \/ Drop

-----------------------------------------------------------------------------
(* The decoder thread.                                                     *)

decRest == <<played, state, stop, nextSeq, cb, caller, heard, userPaused, pauses, history>>

(* record_error: the first error stays, the others are dropped.            *)
Recorded == IF error = None THEN dec.seq ELSE error

DecoderLoop ==
  /\ dec.pc = "loop"
  /\ dec' = [dec EXCEPT !.pc = IF stop THEN "exited" ELSE "take"]
  /\ UNCHANGED <<decRest, ring, queued, idle, pending, spans, error>>

TakeJob ==
  /\ dec.pc = "take"
  /\ IF pending = <<>>
       THEN /\ dec' = [dec EXCEPT !.pc = "park"]
            /\ pending' = pending
       ELSE /\ dec' = [dec EXCEPT !.pc = IF Head(pending).lazy THEN "open" ELSE "claim",
                                  !.seq = Head(pending).seq, !.read = 0]
            /\ pending' = Tail(pending)
  /\ UNCHANGED <<decRest, ring, queued, idle, spans, error>>

Park ==
  /\ dec.pc = "park"
  /\ idle' = TRUE
  /\ dec' = [dec EXCEPT !.pc = "loop"]
  /\ UNCHANGED <<decRest, ring, queued, pending, spans, error>>

(* Slip: a source that cannot be opened is skipped silently.               *)
OpenLazySlip ==
  /\ dec.pc = "open"
  /\ \/ dec' = [dec EXCEPT !.pc = "claim"]
     \/ dec' = [dec EXCEPT !.pc = "loop", !.seq = None]
  /\ UNCHANGED <<decRest, ring, queued, idle, pending, spans, error>>

(* A read-ahead source is opened here; if that fails the error is recorded *)
(* and the decoder goes on to the next job.                                *)
OpenLazy ==
  /\ dec.pc = "open"
  /\ \/ dec' = [dec EXCEPT !.pc = "claim"] /\ error' = error
     \/ dec' = [dec EXCEPT !.pc = "loop", !.seq = None] /\ error' = Recorded
  /\ UNCHANGED <<decRest, ring, queued, idle, pending, spans>>

Claim ==
  /\ dec.pc = "claim"
  /\ idle' = FALSE
  /\ dec' = [dec EXCEPT !.pc = "begin"]
  /\ UNCHANGED <<decRest, ring, queued, pending, spans, error>>

BeginTrack ==
  /\ dec.pc = "begin"
  /\ spans' = BeginSpan(dec.seq)
  /\ dec' = [dec EXCEPT !.pc = "packet"]
  /\ UNCHANGED <<decRest, ring, queued, idle, pending, error>>

(* The stop flag, the fill level (seven eighths of the ring), the packet:  *)
(* the end of the track, an unreadable packet, or frames to write.         *)
Full == Len(ring) >= Capacity - Capacity \div 8

NextPacket ==
  /\ dec.pc = "packet"
  /\ UNCHANGED <<decRest, ring, queued, idle, pending, spans>>
  /\ \/ /\ stop \/ ~Full
        /\ dec' = [dec EXCEPT !.pc = "close"] /\ error' = error
     \/ /\ ~stop /\ ~Full
        /\ dec' = [dec EXCEPT !.pc = "close"] /\ error' = Recorded
     \/ /\ ~stop /\ ~Full
        /\ \E n \in 1..MaxPacket :
             /\ dec.read + n <= MaxFrames
             /\ dec' = [dec EXCEPT !.pc = "write", !.read = @ + n, !.left = n]
        /\ error' = error

(* write_all: the stop flag, the push, the count; whatever did not fit is  *)
(* tried again after a pause.                                              *)
Write ==
  /\ dec.pc = "write"
  /\ dec' = IF stop THEN [dec EXCEPT !.pc = "packet", !.left = 0]
                    ELSE [dec EXCEPT !.pc = "push"]
  /\ UNCHANGED <<decRest, ring, queued, idle, pending, spans, error>>

FreeSpace == Capacity - Len(ring)

Push ==
  /\ dec.pc = "push"
  /\ LET take == IF FreeSpace < dec.left THEN FreeSpace ELSE dec.left
     IN  /\ ring' = ring \o [i \in 1..take |-> dec.seq]
         /\ dec' = [dec EXCEPT !.pc = "count", !.written = take]
  /\ UNCHANGED <<decRest, queued, idle, pending, spans, error>>

CountQueued ==
  /\ dec.pc = "count"
  /\ queued' = queued + dec.written
  /\ dec' = [dec EXCEPT !.pc = IF dec.left = dec.written THEN "packet" ELSE "write",
                        !.left = @ - dec.written, !.written = 0]
  /\ UNCHANGED <<decRest, ring, idle, pending, spans, error>>

CloseTrack ==
  /\ dec.pc = "close"
  /\ spans' = CloseSpan(dec.seq)
  /\ dec' = [dec EXCEPT !.pc = "loop", !.seq = None]
  /\ UNCHANGED <<decRest, ring, queued, idle, pending, error>>

DecoderStep == DecoderLoop \/ TakeJob \/ Park \/ OpenLazy \/ Claim \/ BeginTrack
               \/ NextPacket \/ Write \/ Push \/ CountQueued \/ CloseTrack

-----------------------------------------------------------------------------
(* The device callback.                                                    *)

cbRest == <<queued, stop, idle, pending, spans, error, nextSeq, dec, caller,
            userPaused, pauses, history>>

(* Paused: silence, and nothing else happens.                              *)
CallbackRuns ==
  /\ cb.pc = "waiting"
  /\ state # "paused"
  /\ cb' = [cb EXCEPT !.pc = "pop"]
  /\ UNCHANGED <<cbRest, ring, played, state, heard>>

Pop ==
  /\ cb.pc = "pop"
  /\ \E out \in 1..MaxOut :
       LET take == IF Len(ring) < out THEN Len(ring) ELSE out
       IN  /\ cb' = [cb EXCEPT !.pc = "count", !.given = take]
           /\ ring' = SubSeq(ring, take + 1, Len(ring))
           /\ heard' = [s \in Seqs |->
                          heard[s] + Cardinality({i \in 1..take : ring[i] = s})]
  /\ UNCHANGED <<cbRest, played, state>>

CountPlayed ==
  /\ cb.pc = "count"
  /\ played' = played + cb.given
  /\ cb' = [cb EXCEPT !.pc = "settle"]
  /\ UNCHANGED <<cbRest, ring, state, heard>>

Settle ==
  /\ cb.pc = "settle"
  /\ cb' = [cb EXCEPT !.pc = "store",
                      !.result = IF cb.given > 0 THEN "playing"
                                 ELSE IF idle THEN "stopped" ELSE "buffering"]
  /\ UNCHANGED <<cbRest, ring, played, state, heard>>

StoreState ==
  /\ cb.pc = "store"
  /\ state' = cb.result
  /\ cb' = [cb EXCEPT !.pc = "waiting", !.given = 0]
  /\ UNCHANGED <<cbRest, ring, played, heard>>

CallbackStep == CallbackRuns \/ Pop \/ CountPlayed \/ Settle \/ StoreState

-----------------------------------------------------------------------------
Next == CallerStep \/ DecoderStep \/ CallbackStep

Spec == Init /\ [][Next]_vars

(* The threads are scheduled: the decoder and the device keep running, and *)
(* a call the core thread has begun ends.  The stream's callbacks leave    *)
(* gaps, in one of which dropping it gets through.  No fairness makes the  *)
(* user press a key or the player queue a track.                           *)
FairSpec == /\ Spec
            /\ WF_vars(DecoderStep)
            /\ WF_vars(CallbackStep)
            /\ WF_vars(CallerPlay)
            /\ WF_vars(ClearRing) /\ SF_vars(CloseStream) /\ WF_vars(JoinDecoder)

-----------------------------------------------------------------------------
(* What the engine promises.  The frames of a track between Pop and         *)
(* CountPlayed are in the device's hands and not in the counter yet; once   *)
(* Drop has begun, nobody is left who could ask.                            *)

Settled == cb.pc # "count" /\ ~stop

(* The scrobble's arithmetic (played_ms_of): the played time the counters   *)
(* give for a slice is exactly the number of its frames the device was      *)
(* given, for the playing track and for every track before it, however the  *)
(* tracks share the ring and wherever they end.                             *)
PlayedOfIsHeard ==
  Settled => \A i \in DOMAIN spans : PlayedOf(i) = heard[spans[i].seq]

(* The position bar and the title: the frame the output plays next belongs  *)
(* to the track current_seq names.                                          *)
NextFrameIsCurrent ==
  (Settled /\ ring # <<>>) => CurrentSeq = Head(ring)

(* A transition is never announced early: when current_seq names a track,   *)
(* every track begun before it has been decoded to its end and heard to its *)
(* last frame.                                                              *)
TransitionNotEarly ==
  ~stop => \A i \in DOMAIN spans :
    (CurrentSpan # None /\ Started(i) /\ i < CurrentSpan) =>
      spans[i].frames # None /\ heard[spans[i].seq] = spans[i].frames

(* The player takes a change of current_seq for a transition, closes the    *)
(* listen of the track before and advances the queue: the change comes with *)
(* the first frame of the new track, neither late nor early.                *)
TransitionOnTime == NextFrameIsCurrent /\ TransitionNotEarly

(* "Pauses. The buffer is kept, the position freezes": once pause() has     *)
(* returned and the callback that was running has ended, the engine is      *)
(* paused until resume().                                                   *)
PauseHolds == (userPaused /\ cb.pc = "waiting" /\ caller.pc = "ready") => state = "paused"

-----------------------------------------------------------------------------
(* The whole track was given to the device.                                *)
HeardOut(s) == \E i \in DOMAIN spans : /\ spans[i].seq = s
                                       /\ spans[i].frames # None
                                       /\ heard[s] = spans[i].frames

(* The track was taken from the queue and could not be opened.             *)
Unopened(s) == /\ s < nextSeq
               /\ ~Declared(s) /\ dec.seq # s /\ caller.seq # s
               /\ \A i \in DOMAIN pending : pending[i].seq # s

(* The slot has the track's error, or that of a track before it, which      *)
(* keeps it out; or the player has taken one of these.                     *)
SomethingIsTold(s) == \E t \in (told \cup {error}) \ {None} : t <= s

(* Every track that reaches the queue is played to its last frame, or it    *)
(* could not be opened and the slot says so - of it, or of a track that     *)
(* failed before it, whose error record_error keeps.  Excepted are an       *)
(* engine left paused, one the user drops, and the last track of an engine  *)
(* that finished() counted as done because the decoder stored `idle` over   *)
(* the caller's with the job already in the queue (:560-563): `finished`    *)
(* then drops the engine with the track in it, whatever the doc says        *)
(* (:680); one that was queued ahead the player plays on the next engine.   *)
(* No interleaving loses any other job, and a full ring, a late start or    *)
(* an engine kept after finished() only delays it (take_job, decode_track,  *)
(* write_all, finished).                                                    *)
EveryTrackIsHeard ==
  []<>(state # "paused") =>
    \A s \in Seqs : []<>(s < nextSeq => \/ HeardOut(s)
                                        \/ (Unopened(s) /\ SomethingIsTold(s))
                                        \/ (stop /\ byUser)
                                        \/ (stop /\ stale /\ s = nextSeq - 1))

=============================================================================
