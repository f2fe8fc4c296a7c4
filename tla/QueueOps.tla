------------------------------ MODULE QueueOps ------------------------------
(***************************************************************************)
(* The play queue of headshell-core, playback/queue.rs, as a value.        *)
(*                                                                         *)
(* A queue is a record: the user's list `items`, the play order `order`    *)
(* (a permutation of the indices of `items`), the playing `position` in    *)
(* that order, and the two modes.  Indices and positions count from 1      *)
(* here and from 0 in the code.  Each operation of `Queue` is an operator  *)
(* from queues to queues or, where the code draws random numbers, to the   *)
(* set of the queues it may return: the state of the generator is left     *)
(* out, so every shuffle is possible.                                      *)
(***************************************************************************)
EXTENDS Naturals, Sequences

CONSTANTS Track,    \* what a queue item names: the provider's track id
          NoTrack   \* Rust's None, where a method returns Option<&QueueItem>

ASSUME NoTrackAssumption == NoTrack \notin Track

RepeatMode == {"off", "all", "one"}

Queue == [items : Seq(Track), order : Seq(Nat), position : Nat,
          repeat : RepeatMode, shuffle : BOOLEAN]

InOrder(n) == [i \in 1..n |-> i]

EmptyQueue == [items |-> <<>>, order |-> <<>>, position |-> 1,
               repeat |-> "off", shuffle |-> FALSE]

Current(q) == IF q.position \in DOMAIN q.order
                THEN q.items[q.order[q.position]]
                ELSE NoTrack

CurrentIndex(q) == q.order[q.position]

-----------------------------------------------------------------------------
(* Fisher-Yates leaves every arrangement of the other items possible; the  *)
(* item at the current position comes first.                               *)

Shuffles(n) == {p \in [1..n -> 1..n] : \A i \in 1..n : \E k \in 1..n : p[k] = i}

Reshuffle(q) ==
  {[q EXCEPT !.order = p, !.position = 1] :
     p \in {p \in Shuffles(Len(q.items)) :
              q.position \in DOMAIN q.order => p[1] = q.order[q.position]}}

Replace(q, new) ==
  LET fresh == [q EXCEPT !.items = new,
                         !.order = InOrder(Len(new)),
                         !.position = 1]
  IN  IF q.shuffle THEN Reshuffle(fresh) ELSE {fresh}

AppendItem(q, t) ==
  [q EXCEPT !.items = Append(@, t), !.order = Append(@, Len(q.items) + 1)]

Clear(q) == [q EXCEPT !.items = <<>>, !.order = <<>>, !.position = 1]

SetRepeat(q, mode) == [q EXCEPT !.repeat = mode]

(* Slip: the position stays where it is.                                   *)
FollowCurrentSlip(q, old) == q

(* The position follows the playing item to its place in the new order.    *)
FollowCurrent(q, old) ==
  IF /\ old.position \in DOMAIN old.order
     /\ \E p \in DOMAIN q.order : q.order[p] = old.order[old.position]
  THEN [q EXCEPT !.position =
          CHOOSE p \in DOMAIN q.order : q.order[p] = old.order[old.position]]
  ELSE q

SetShuffle(q, on) ==
  LET flagged == [q EXCEPT !.shuffle = on]
  IN  IF on = q.shuffle
        THEN {q}
        ELSE {FollowCurrent(r, q) :
                r \in IF on THEN Reshuffle(flagged)
                            ELSE {[flagged EXCEPT !.order = InOrder(Len(q.items))]}}

-----------------------------------------------------------------------------
(* Moving the cursor.  The code returns false or None and changes nothing  *)
(* when a move is refused: the Can... operators say when it is not.        *)

CanJump(q, p) == p \in DOMAIN q.order

JumpTo(q, p) == [q EXCEPT !.position = p]

(* Slip: an off-by-one, the last track counts as the end.                  *)
AtEndSlip(q) == ~(q.position + 1 < Len(q.order))

AtEnd(q) == ~(q.position + 1 <= Len(q.order))

(* Slip: the repeat mode is not asked at the end of the queue.             *)
CanNextSlip(q) == q.order # <<>>

CanNext(q) == q.order # <<>> /\ (AtEnd(q) => q.repeat = "all")

NextItem(q) ==
  LET first == [q EXCEPT !.position = 1]
  IN  IF ~AtEnd(q) THEN {[q EXCEPT !.position = @ + 1]}
      ELSE IF q.shuffle THEN Reshuffle(first) ELSE {first}

CanPrevious(q) == q.order # <<>> /\ (q.position = 1 => q.repeat = "all")

PreviousItem(q) ==
  [q EXCEPT !.position = IF @ > 1 THEN @ - 1 ELSE Len(q.order)]

(* What follows when the playing track ends by itself.                     *)

(* Slip: the repeat mode is not asked.                                     *)
PeekAfterFinishSlip(q) ==
  IF AtEnd(q) THEN NoTrack ELSE q.items[q.order[q.position + 1]]

PeekAfterFinish(q) ==
  IF q.repeat = "one" THEN Current(q)
  ELSE IF AtEnd(q) THEN NoTrack
  ELSE q.items[q.order[q.position + 1]]

CanAdvance(q) == IF q.repeat = "one" THEN Current(q) # NoTrack ELSE CanNext(q)

AdvanceAfterFinish(q) == IF q.repeat = "one" THEN {q} ELSE NextItem(q)
-----------------------------------------------------------------------------
(* A well-formed queue: the play order lists every index of the user's     *)
(* list exactly once and the position is in it.                            *)
OrderIsPermutation(q) == q.order \in Shuffles(Len(q.items))

PositionInRange(q) == IF q.items = <<>> THEN q.position = 1
                                        ELSE q.position \in 1..Len(q.items)

WellFormed(q) == /\ q \in Queue
                 /\ OrderIsPermutation(q)
                 /\ PositionInRange(q)
=============================================================================
