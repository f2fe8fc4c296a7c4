----------------------------- MODULE PlayQueue -----------------------------
(***************************************************************************)
(* The play queue as a state machine: every method of `Queue` in           *)
(* playback/queue.rs is called by somebody, in any order - the transport   *)
(* keys, the shuffle and repeat switches, the player when a track ends,    *)
(* and whoever loads or extends the list.  The list is at most MaxLen      *)
(* long: that bound is the model's, the code has none.                     *)
(***************************************************************************)
EXTENDS QueueOps

CONSTANT MaxLen

MaxLenAssumption == MaxLen \in Nat \ {0}

VARIABLE queue

Lists == UNION {[1..n -> Track] : n \in 0..MaxLen}

Init == queue = EmptyQueue

Load == \E new \in Lists : queue' \in Replace(queue, new)

Extend == /\ Len(queue.items) < MaxLen
          /\ \E t \in Track : queue' = AppendItem(queue, t)

Empty == queue' = Clear(queue)

ChooseRepeat(mode) == queue' = SetRepeat(queue, mode)

SwitchShuffle(on) == queue' \in SetShuffle(queue, on)

UserNext == CanNext(queue) /\ queue' \in NextItem(queue)

UserPrevious == CanPrevious(queue) /\ queue' = PreviousItem(queue)

UserJump == \E p \in 1..MaxLen : CanJump(queue, p) /\ queue' = JumpTo(queue, p)

TrackFinished == CanAdvance(queue) /\ queue' \in AdvanceAfterFinish(queue)

Next == \/ Load \/ Extend \/ Empty
        \/ \E mode \in RepeatMode : ChooseRepeat(mode)
        \/ \E on \in BOOLEAN : SwitchShuffle(on)
        \/ UserNext \/ UserPrevious \/ UserJump \/ TrackFinished

Spec == Init /\ [][Next]_queue

-----------------------------------------------------------------------------
(* The queue is well formed: the play order lists every index of the       *)
(* user's list exactly once and the position is in it - shuffling, wrapping *)
(* and appending never lose, repeat or invent an item, so `order[position]` *)
(* and `items[index]` always hit (the code falls back to None if not).     *)
TypeOK == WellFormed(queue)

(* "Turning shuffle off does not lose the user's list": whenever shuffle   *)
(* is off the play order is the user's order, whatever was appended,       *)
(* skipped or wrapped while it was on.                                     *)
PlainOrderWhenNotShuffled ==
  ~queue.shuffle => queue.order = InOrder(Len(queue.items))

(* The read-ahead contract (D-024): what peek_after_finish promises is     *)
(* what advance_after_finish then plays, in every mode and whatever the    *)
(* shuffle draws; and a promise of nothing means that it really ends or    *)
(* wraps.                                                                  *)
PeekAgreesWithAdvance ==
  /\ PeekAfterFinish(queue) # NoTrack =>
       /\ CanAdvance(queue)
       /\ \A after \in AdvanceAfterFinish(queue) :
            Current(after) = PeekAfterFinish(queue)
  /\ PeekAfterFinish(queue) = NoTrack =>
       \/ ~CanAdvance(queue)
       \/ \A after \in AdvanceAfterFinish(queue) : after.position = 1

(* Wrapping a shuffled round never plays the item that just ended again,   *)
(* although the shuffle is redrawn at that moment: only a queue of one     *)
(* item repeats itself without repeat-one.                                 *)
NoImmediateRepeat ==
  (Len(queue.items) > 1 /\ queue.repeat # "one" /\ CanAdvance(queue)) =>
     \A after \in AdvanceAfterFinish(queue) :
        CurrentIndex(after) # CurrentIndex(queue)

(* The switches and `append` never pull the playing track out from under   *)
(* the user: the item at the cursor is the same item of the user's list    *)
(* before and after, though its position in the play order may move.       *)
SettingsKeepCurrent ==
  [][(/\ queue.items # <<>>
      /\ \/ Extend
         \/ \E on \in BOOLEAN : SwitchShuffle(on)
         \/ \E mode \in RepeatMode : ChooseRepeat(mode)) =>
       CurrentIndex(queue') = CurrentIndex(queue)]_queue

-----------------------------------------------------------------------------
(* The tracks only end by themselves, and keep ending.                     *)
OnlyListening ==
  /\ <>[][TrackFinished]_queue
  /\ []<><<TrackFinished>>_queue
  /\ <>[](queue.repeat = "all")

(* Repeat-all starves nobody: when from some moment on the tracks only end *)
(* by themselves, every item of the list is played again and again,        *)
(* although each wrap may redraw the order (Queue::next).                  *)
RepeatAllPlaysEveryItem ==
  \A i \in 1..MaxLen :
    (OnlyListening /\ <>[](i \in DOMAIN queue.items)) =>
       []<>(i \in DOMAIN queue.items /\ CurrentIndex(queue) = i)
=============================================================================
