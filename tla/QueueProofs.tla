---------------------------- MODULE QueueProofs ----------------------------
(***************************************************************************)
(* The queue: lemmas about its operations, one for each, and what the      *)
(* queue guarantees as a machine of its own (PlayQueue), for every set of  *)
(* tracks and every bound on the list.                                     *)
(*                                                                         *)
(* A lemma says that an operation keeps the queue's shape and the plain    *)
(* order when shuffle is off, and what it does to the playing item.        *)
(* Whoever drives a queue proves from these: the machine below, and the    *)
(* player (ShellsProofs).  The machine is an instance (MCPlayQueue) with a *)
(* queue of its own, so that those proofs can extend this; SameOperations  *)
(* says that its operations are those of the lemmas.                       *)
(***************************************************************************)
EXTENDS MCPlayQueue, FiniteSetTheorems, SequenceTheorems, TLAPS

PlainOrder(q) == ~q.shuffle => q.order = InOrder(Len(q.items))

QInv(q) == WellFormed(q) /\ PlainOrder(q)

USE NoTrackAssumption

(* The plain order is one of the shuffles.                                 *)
LEMMA InOrderIsShuffle ==
  ASSUME NEW n \in Nat
  PROVE  /\ InOrder(n) \in Shuffles(n)
         /\ DOMAIN InOrder(n) = 1..n
         /\ Len(InOrder(n)) = n
BY DEF InOrder, Shuffles

(* A shuffle of n items is a sequence of length n in which no item occurs  *)
(* twice: it is onto, and a map of a finite set onto itself is one-to-one. *)
LEMMA ShuffleIsInjective ==
  ASSUME NEW n \in Nat, NEW p \in Shuffles(n)
  PROVE  \A i, j \in 1..n : p[i] = p[j] => i = j
<1>1. p \in Surjection(1..n, 1..n)
  BY DEF Shuffles, Surjection
<1>2. IsFiniteSet(1..n)
  BY FS_Interval
<1>3. p \in Injection(1..n, 1..n)
  BY <1>1, <1>2, FS_SurjSameCardinalityImpliesInj
<1> QED
  BY <1>3 DEF Injection, IsInjective

(* A shuffle is a sequence of indices, as long as the list.                *)
LEMMA ShuffleIsSeq ==
  ASSUME NEW n \in Nat, NEW p \in Shuffles(n)
  PROVE  p \in Seq(Nat) /\ Len(p) = n /\ DOMAIN p = 1..n
<1>1. p \in [1..n -> 1..n]
  BY DEF Shuffles
<1>2. p \in [1..n -> Nat]
  BY <1>1
<1> QED
  BY <1>2

(* What one may use of a well-formed queue.                                *)
LEMMA Shape ==
  ASSUME NEW q, WellFormed(q)
  PROVE  /\ Len(q.items) \in Nat
         /\ q.order \in [1..Len(q.items) -> 1..Len(q.items)]
         /\ DOMAIN q.order = 1..Len(q.items)
         /\ DOMAIN q.items = 1..Len(q.items)
         /\ Len(q.order) = Len(q.items)
         /\ (q.items = <<>>) <=> (Len(q.items) = 0)
         /\ (q.order = <<>>) <=> (Len(q.items) = 0)
         /\ q.position \in Nat
<1>1. /\ Len(q.items) \in Nat
      /\ q.items \in Seq(Track)
      /\ q.order \in Shuffles(Len(q.items))
      /\ q.position \in Nat
  BY DEF WellFormed, Queue, OrderIsPermutation
<1>2. q.order \in Seq(Nat) /\ Len(q.order) = Len(q.items)
  BY <1>1, ShuffleIsSeq
<1> QED
  BY <1>1, <1>2 DEF Shuffles

-----------------------------------------------------------------------------
(* Each operation keeps the invariant.                                     *)

(* Queue::reshuffle keeps the list and the modes, puts the item at the     *)
(* cursor first and the cursor on it, and the order stays a permutation.   *)
LEMMA ReshuffleKeeps ==
  ASSUME NEW q, q \in Queue, q.shuffle,
         q.items # <<>> => q.position \in DOMAIN q.order,
         NEW r \in Reshuffle(q)
  PROVE  QInv(r) /\ r.items = q.items /\ r.position = 1
<1>1. PICK p \in Shuffles(Len(q.items)) :
         r = [q EXCEPT !.order = p, !.position = 1]
  BY DEF Reshuffle
<1>2. /\ q.items \in Seq(Track) /\ Len(q.items) \in Nat
      /\ q.repeat \in RepeatMode /\ q.shuffle \in BOOLEAN
  BY DEF Queue
<1>3. p \in Seq(Nat)
  BY <1>2, ShuffleIsSeq
<1>4. /\ r.items = q.items /\ r.order = p /\ r.position = 1
      /\ r.shuffle = q.shuffle /\ r \in Queue
  BY <1>1, <1>2, <1>3 DEF Queue
<1>5. PositionInRange(r)
  BY <1>2, <1>4 DEF PositionInRange
<1> QED
  BY <1>1, <1>4, <1>5 DEF QInv, WellFormed, OrderIsPermutation, PlainOrder

(* Queue::replace gives a well-formed queue of the new list, shuffled or   *)
(* not.                                                                    *)
LEMMA ReplaceKeeps ==
  ASSUME NEW q, QInv(q), NEW new \in Seq(Track), NEW r \in Replace(q, new)
  PROVE  QInv(r) /\ r.items = new
<1> DEFINE fresh == [q EXCEPT !.items = new, !.order = InOrder(Len(new)),
                              !.position = 1]
<1>1. Len(new) \in Nat
  OBVIOUS
<1>2. /\ InOrder(Len(new)) \in Shuffles(Len(new))
      /\ InOrder(Len(new)) \in Seq(Nat)
      /\ DOMAIN InOrder(Len(new)) = 1..Len(new)
  BY <1>1, InOrderIsShuffle, ShuffleIsSeq
<1>3. q.repeat \in RepeatMode /\ q.shuffle \in BOOLEAN /\ q \in Queue
  BY DEF QInv, WellFormed, Queue
<1>4. /\ fresh \in Queue /\ fresh.items = new
      /\ fresh.order = InOrder(Len(new)) /\ fresh.position = 1
      /\ fresh.shuffle = q.shuffle
  BY <1>2, <1>3 DEF Queue
<1>5. QInv(fresh)
  BY <1>1, <1>2, <1>4
  DEF QInv, WellFormed, OrderIsPermutation, PositionInRange, PlainOrder
<1>6. fresh.items # <<>> => fresh.position \in DOMAIN fresh.order
  BY <1>1, <1>2, <1>4
<1>7. CASE q.shuffle
  <2>1. r \in Reshuffle(fresh)
    BY <1>7 DEF Replace
  <2> QED
    BY <2>1, <1>4, <1>6, <1>7, ReshuffleKeeps
<1>8. CASE ~q.shuffle
  <2>1. r = fresh
    BY <1>8 DEF Replace
  <2> QED
    BY <2>1, <1>4, <1>5
<1> QED
  BY <1>7, <1>8

(* Queue::append keeps a well-formed queue well formed: the new index is   *)
(* the one the order lacks.                                                *)
LEMMA AppendKeeps ==
  ASSUME NEW q, QInv(q), NEW t \in Track
  PROVE  /\ QInv(AppendItem(q, t))
         /\ q.items # <<>> =>
              CurrentIndex(AppendItem(q, t)) = CurrentIndex(q)
<1> DEFINE n == Len(q.items)
           r == AppendItem(q, t)
<1>1. /\ q \in Queue /\ q.items \in Seq(Track) /\ n \in Nat
      /\ q.order \in [1..n -> 1..n] /\ Len(q.order) = n
      /\ q.order \in Seq(Nat) /\ q.order \in Shuffles(n)
      /\ q.repeat \in RepeatMode /\ q.shuffle \in BOOLEAN
      /\ (q.items = <<>>) <=> (n = 0)
  BY Shape DEF QInv, WellFormed, Queue, OrderIsPermutation
<1>2. /\ r.items = Append(q.items, t) /\ r.order = Append(q.order, n + 1)
      /\ r.position = q.position /\ r.repeat = q.repeat
      /\ r.shuffle = q.shuffle
  BY <1>1 DEF AppendItem, Queue
<1>3. /\ Len(r.items) = n + 1 /\ r.items \in Seq(Track) /\ r.items # <<>>
      /\ r.order \in Seq(Nat) /\ Len(r.order) = n + 1
      /\ r.order[n + 1] = n + 1
      /\ \A i \in 1..n : r.order[i] = q.order[i]
  <2>1. n + 1 \in Nat
    BY <1>1
  <2>2. /\ Append(q.items, t) \in Seq(Track)
        /\ Len(Append(q.items, t)) = n + 1
    BY <1>1, AppendProperties
  <2>3. /\ Append(q.order, n + 1) \in Seq(Nat)
        /\ Len(Append(q.order, n + 1)) = n + 1
        /\ Append(q.order, n + 1)[n + 1] = n + 1
        /\ \A i \in 1..n : Append(q.order, n + 1)[i] = q.order[i]
    BY <1>1, <2>1, AppendProperties
  <2>4. r.items # <<>>
    BY <1>1, <1>2, AppendProperties
  <2> QED
    BY <1>2, <2>2, <2>3, <2>4
<1> HIDE DEF n, r
<1>4. r \in Queue
  BY <1>1, <1>2, <1>3 DEF AppendItem, Queue, r
<1>5. r.order \in Shuffles(n + 1)
  <2>1. /\ n + 1 \in 1..(n + 1)
        /\ \A i \in 1..(n + 1) : i = n + 1 \/ i \in 1..n
        /\ \A i \in 1..n : i \in 1..(n + 1)
    BY <1>1
  <2>2. \A i \in 1..n : q.order[i] \in 1..n
    BY <1>1
  <2>3. DOMAIN r.order = 1..(n + 1)
    BY <1>1, <1>3
  <2>4. \A i \in 1..(n + 1) : r.order[i] \in 1..(n + 1)
    BY <1>3, <2>1, <2>2
  <2>5. r.order = [i \in DOMAIN r.order |-> r.order[i]]
    BY <1>3
  <2>6. r.order \in [1..(n + 1) -> 1..(n + 1)]
    BY <2>3, <2>4, <2>5
  <2>7. \A i \in 1..n : \E k \in 1..n : q.order[k] = i
    BY <1>1 DEF Shuffles
  <2>8. \A i \in 1..(n + 1) : \E k \in 1..(n + 1) : r.order[k] = i
    BY <2>1, <2>7, <1>3
  <2> QED
    BY <2>6, <2>8 DEF Shuffles
<1>6. PositionInRange(r)
  BY <1>1, <1>2, <1>3 DEF QInv, WellFormed, PositionInRange, n
<1>7. PlainOrder(r)
  <2>1. SUFFICES ASSUME ~q.shuffle
                 PROVE  r.order = InOrder(n + 1)
    BY <1>2, <1>3 DEF PlainOrder
  <2>2. q.order = InOrder(n)
    BY <2>1 DEF QInv, PlainOrder, n
  <2>3. r.order \in [1..(n + 1) -> 1..(n + 1)]
    BY <1>5 DEF Shuffles
  <2>4. \A i \in 1..(n + 1) : r.order[i] = i
    BY <2>2, <1>1, <1>3 DEF InOrder
  <2> QED
    BY <2>3, <2>4 DEF InOrder
<1>8. q.items # <<>> => r.order[r.position] = q.order[q.position]
  BY <1>1, <1>2, <1>3 DEF QInv, WellFormed, PositionInRange, n
<1> QED
  BY <1>3, <1>4, <1>5, <1>6, <1>7, <1>8
  DEF QInv, WellFormed, OrderIsPermutation, CurrentIndex, r

(* Queue::clear leaves a well-formed queue.                                *)
LEMMA ClearKeeps ==
  ASSUME NEW q, QInv(q)
  PROVE  QInv(Clear(q))
<1>1. /\ Clear(q) \in Queue
      /\ Clear(q).items = <<>> /\ Clear(q).order = <<>>
      /\ Clear(q).position = 1
  <2>1. <<>> \in Seq(Track) /\ <<>> \in Seq(Nat) /\ 1 \in Nat
    OBVIOUS
  <2>2. q \in Queue
    BY DEF QInv, WellFormed
  <2> QED
    BY <2>1, <2>2 DEF Queue, Clear
<1>2. <<>> = InOrder(0) /\ Len(<<>>) = 0
  BY DEF InOrder
<1> QED
  BY <1>1, <1>2, InOrderIsShuffle
  DEF QInv, WellFormed, OrderIsPermutation, PositionInRange, PlainOrder

(* Queue::set_repeat touches neither the list, the order nor the cursor.   *)
LEMMA SetRepeatKeeps ==
  ASSUME NEW q, QInv(q), NEW mode \in RepeatMode
  PROVE  /\ QInv(SetRepeat(q, mode))
         /\ CurrentIndex(SetRepeat(q, mode)) = CurrentIndex(q)
<1>1. /\ q \in Queue /\ SetRepeat(q, mode).items = q.items
      /\ SetRepeat(q, mode).order = q.order
      /\ SetRepeat(q, mode).position = q.position
      /\ SetRepeat(q, mode).shuffle = q.shuffle
      /\ SetRepeat(q, mode) \in Queue
  BY DEF SetRepeat, QInv, WellFormed, Queue
<1> QED
  BY <1>1 DEF QInv, WellFormed, OrderIsPermutation, PositionInRange,
              PlainOrder, CurrentIndex

(* Putting the cursor elsewhere in the list changes nothing else.          *)
LEMMA MoveKeeps ==
  ASSUME NEW q, QInv(q), NEW p \in 1..Len(q.items)
  PROVE  /\ QInv([q EXCEPT !.position = p])
         /\ [q EXCEPT !.position = p].order = q.order
         /\ [q EXCEPT !.position = p].position = p
         /\ [q EXCEPT !.position = p].items = q.items
<1> DEFINE r == [q EXCEPT !.position = p]
<1>1. q \in Queue /\ Len(q.items) \in Nat
  BY Shape DEF QInv, WellFormed
<1>2. /\ r.items = q.items /\ r.order = q.order /\ r.position = p
      /\ r.shuffle = q.shuffle /\ r \in Queue
  <2>1. p \in Nat
    BY <1>1
  <2> QED
    BY <1>1, <2>1 DEF Queue
<1>3. q.items # <<>>
  BY <1>1
<1> QED
  BY <1>2, <1>3 DEF QInv, WellFormed, OrderIsPermutation, PositionInRange,
                    PlainOrder

(* Following the playing item: the cursor ends on the same item of the     *)
(* user's list, wherever the new order has put it.                         *)
LEMMA FollowKeeps ==
  ASSUME NEW q, WellFormed(q), NEW r, QInv(r), r.items = q.items
  PROVE  /\ QInv(FollowCurrent(r, q))
         /\ FollowCurrent(r, q).items = q.items
         /\ q.items # <<>> => CurrentIndex(FollowCurrent(r, q)) = CurrentIndex(q)
<1> DEFINE n == Len(q.items)
<1>1. /\ n \in Nat /\ (q.items = <<>> <=> n = 0)
      /\ DOMAIN q.order = 1..n /\ DOMAIN r.order = 1..n
      /\ q.order \in [1..n -> 1..n] /\ r.order \in Shuffles(n)
  BY Shape DEF QInv, WellFormed, OrderIsPermutation
<1>2. CASE q.items = <<>>
  <2>1. FollowCurrent(r, q) = r
    BY <1>1, <1>2 DEF FollowCurrent, WellFormed, PositionInRange
  <2> QED
    BY <2>1, <1>2
<1>3. CASE q.items # <<>>
  <2>1. q.position \in 1..n
    BY <1>1, <1>3 DEF WellFormed, PositionInRange
  <2>2. q.order[q.position] \in 1..n
    BY <2>1, <1>1
  <2>3. \E p \in 1..n : r.order[p] = q.order[q.position]
    BY <2>2, <1>1 DEF Shuffles
  <2> DEFINE p == CHOOSE k \in DOMAIN r.order : r.order[k] = q.order[q.position]
  <2>4. p \in 1..n /\ r.order[p] = q.order[q.position]
    BY <2>3, <1>1
  <2>5. FollowCurrent(r, q) = [r EXCEPT !.position = p]
    BY <2>1, <2>3, <1>1 DEF FollowCurrent
  <2> HIDE DEF p
  <2> QED
    BY <2>4, <2>5, MoveKeeps DEF CurrentIndex
<1> QED
  BY <1>2, <1>3

(* Queue::set_shuffle, in both directions: the queue stays well formed,    *)
(* plain when off, and the cursor stays on its item.                       *)
LEMMA SetShuffleKeeps ==
  ASSUME NEW q, QInv(q), NEW on \in BOOLEAN, NEW s \in SetShuffle(q, on)
  PROVE  /\ QInv(s) /\ s.items = q.items
         /\ q.items # <<>> => CurrentIndex(s) = CurrentIndex(q)
<1> DEFINE flagged == [q EXCEPT !.shuffle = on]
           plain == [flagged EXCEPT !.order = InOrder(Len(q.items))]
<1>1. CASE on = q.shuffle
  BY <1>1 DEF SetShuffle
<1>2. CASE on # q.shuffle
  <2>1. /\ q \in Queue /\ Len(q.items) \in Nat
        /\ DOMAIN q.order = 1..Len(q.items)
        /\ (q.items = <<>> <=> Len(q.items) = 0)
        /\ PositionInRange(q)
    BY Shape DEF QInv, WellFormed
  <2>2. /\ flagged \in Queue /\ flagged.items = q.items
        /\ flagged.order = q.order /\ flagged.position = q.position
        /\ flagged.shuffle = on
    BY <2>1 DEF Queue
  <2>3. PICK r \in IF on THEN Reshuffle(flagged) ELSE {plain} :
           s = FollowCurrent(r, q)
    BY <1>2 DEF SetShuffle
  <2>4. QInv(r) /\ r.items = q.items
    <3>1. CASE on
      <4>1. flagged.items # <<>> => flagged.position \in DOMAIN flagged.order
        BY <2>1, <2>2 DEF PositionInRange
      <4>2. r \in Reshuffle(flagged)
        BY <2>3, <3>1
      <4> HIDE DEF flagged
      <4> QED
        BY <4>1, <4>2, <2>2, <3>1, ReshuffleKeeps
    <3>2. CASE ~on
      <4>1. /\ InOrder(Len(q.items)) \in Shuffles(Len(q.items))
            /\ InOrder(Len(q.items)) \in Seq(Nat)
        BY <2>1, InOrderIsShuffle, ShuffleIsSeq
      <4>2. r = plain
        BY <2>3, <3>2
      <4>3. /\ r \in Queue /\ r.items = q.items /\ r.position = q.position
            /\ r.order = InOrder(Len(q.items))
        BY <4>1, <4>2, <2>1 DEF Queue
      <4> QED
        BY <4>1, <4>3, <2>1
        DEF QInv, WellFormed, OrderIsPermutation, PositionInRange, PlainOrder
    <3> QED
      BY <3>1, <3>2
  <2> QED
    BY <2>3, <2>4, FollowKeeps DEF QInv
<1> QED
  BY <1>1, <1>2

(* The next item: the one after the cursor, or a new round.                *)
LEMMA NextKeeps ==
  ASSUME NEW q, QInv(q), q.items # <<>>, NEW r \in NextItem(q)
  PROVE  /\ QInv(r) /\ r.items = q.items
         /\ Len(q.items) > 1 => CurrentIndex(r) # CurrentIndex(q)
         /\ ~AtEnd(q) => r = [q EXCEPT !.position = q.position + 1]
         /\ AtEnd(q) => r.position = 1
<1> DEFINE n == Len(q.items)
           first == [q EXCEPT !.position = 1]
<1>1. /\ n \in Nat /\ n > 0 /\ Len(q.order) = n /\ DOMAIN q.order = 1..n
      /\ q.position \in 1..n /\ q.order \in Shuffles(n)
      /\ q.repeat \in RepeatMode
  BY Shape DEF QInv, WellFormed, PositionInRange, OrderIsPermutation, Queue
<1>2. \A i, j \in 1..n : q.order[i] = q.order[j] => i = j
  BY <1>1, ShuffleIsInjective
<1>3. CASE ~AtEnd(q)
  <2>1. q.position + 1 \in 1..n /\ q.position + 1 # q.position
    BY <1>1, <1>3 DEF AtEnd
  <2>2. r = [q EXCEPT !.position = q.position + 1]
    BY <1>3 DEF NextItem
  <2>3. /\ QInv(r) /\ r.items = q.items /\ r.order = q.order
        /\ r.position = q.position + 1
    BY <2>1, <2>2, MoveKeeps
  <2> QED
    BY <2>1, <2>2, <2>3, <1>1, <1>2, <1>3 DEF CurrentIndex
<1>4. CASE AtEnd(q)
  <2>1. q.position = n /\ 1 \in 1..n
    BY <1>1, <1>4 DEF AtEnd
  <2>2. /\ QInv(first) /\ first.items = q.items /\ first.order = q.order
        /\ first.position = 1
    BY <2>1, MoveKeeps
  <2>3. first.shuffle = q.shuffle
    BY DEF QInv, WellFormed, Queue
  <2> HIDE DEF first
  <2>4. /\ QInv(r) /\ r.items = q.items /\ r.position = 1
        /\ r.order[1] = q.order[1]
    <3>1. CASE q.shuffle
      <4>1. r \in Reshuffle(first)
        BY <1>4, <3>1 DEF NextItem, first
      <4>2. first \in Queue /\ first.position \in DOMAIN first.order
        BY <2>1, <2>2, <1>1 DEF QInv, WellFormed
      <4>3. QInv(r) /\ r.items = q.items /\ r.position = 1
        BY <4>1, <4>2, <2>2, <2>3, <3>1, ReshuffleKeeps
      <4>4. r.order[1] = first.order[1]
        BY <4>1, <4>2, <2>2 DEF Reshuffle, Queue
      <4> QED
        BY <4>3, <4>4, <2>2
    <3>2. CASE ~q.shuffle
      <4>1. r = first
        BY <1>4, <3>2 DEF NextItem, first
      <4> QED
        BY <4>1, <2>2
    <3> QED
      BY <3>1, <3>2
  <2>5. n > 1 => q.order[1] # q.order[q.position]
    BY <2>1, <1>1, <1>2
  <2> QED
    BY <2>4, <2>5, <1>4 DEF CurrentIndex
<1> QED
  BY <1>3, <1>4

(* Queue::previous moves the cursor inside the list.                       *)
LEMMA PreviousKeeps ==
  ASSUME NEW q, QInv(q), CanPrevious(q)
  PROVE  QInv(PreviousItem(q)) /\ PreviousItem(q).items = q.items /\ q.items # <<>>
<1> DEFINE n == Len(q.items)
           p == IF q.position > 1 THEN q.position - 1 ELSE Len(q.order)
<1>1. /\ n \in Nat /\ n > 0 /\ Len(q.order) = n /\ q.position \in 1..n
  BY Shape DEF QInv, WellFormed, PositionInRange, CanPrevious
<1>2. p \in 1..n
  BY <1>1
<1>4. q.items # <<>>
  BY <1>1
<1>3. PreviousItem(q) = [q EXCEPT !.position = p]
  BY DEF PreviousItem
<1> QED
  BY <1>2, <1>3, <1>4, MoveKeeps

(* Queue::advance_after_finish: the same item, or Queue::next.             *)
LEMMA AdvanceKeeps ==
  ASSUME NEW q, QInv(q), CanAdvance(q), NEW r \in AdvanceAfterFinish(q)
  PROVE  QInv(r) /\ r.items = q.items /\ q.items # <<>>
<1>1. CASE q.repeat = "one"
  <2>1. r = q
    BY <1>1 DEF AdvanceAfterFinish
  <2>2. q.position \in DOMAIN q.order
    BY <1>1 DEF CanAdvance, Current
  <2>3. q.items # <<>>
    BY <2>2, Shape DEF QInv
  <2> QED
    BY <2>1, <2>3
<1>2. CASE q.repeat # "one"
  <2>1. CanNext(q) /\ r \in NextItem(q)
    BY <1>2 DEF CanAdvance, AdvanceAfterFinish
  <2>2. q.items # <<>>
    BY <2>1, Shape DEF QInv, WellFormed, CanNext
  <2> QED
    BY <2>1, <2>2, NextKeeps
<1> QED
  BY <1>1, <1>2

(* Queue::new: the empty queue, whatever its switches say.                 *)
LEMMA EmptyKeeps ==
  ASSUME NEW on \in BOOLEAN
  PROVE  QInv(EmptyQueue) /\ QInv([EmptyQueue EXCEPT !.shuffle = on])
<1>1. <<>> \in Seq(Track) /\ <<>> \in Seq(Nat) /\ 1 \in Nat
  OBVIOUS
<1>2. <<>> = InOrder(0) /\ Len(<<>>) = 0
  BY DEF InOrder
<1> DEFINE empty(b) == [items |-> <<>>, order |-> <<>>, position |-> 1,
                        repeat |-> "off", shuffle |-> b]
<1>3. ASSUME NEW b \in BOOLEAN PROVE QInv(empty(b))
  <2>1. empty(b) \in Queue
    BY <1>1 DEF Queue, RepeatMode
  <2>2. empty(b).items = <<>> /\ empty(b).order = <<>> /\ empty(b).position = 1
    OBVIOUS
  <2> QED
    BY <2>1, <2>2, <1>2, InOrderIsShuffle
    DEF QInv, WellFormed, OrderIsPermutation, PositionInRange, PlainOrder
<1>4. EmptyQueue = empty(FALSE) /\ [EmptyQueue EXCEPT !.shuffle = on] = empty(on)
  BY DEF EmptyQueue
<1> QED
  BY <1>3, <1>4

(* Queue::current and Queue::peek_after_finish name a track of the list.   *)
LEMMA NamesTrack ==
  ASSUME NEW q, QInv(q)
  PROVE  /\ q.items # <<>> => Current(q) \in Track
         /\ PeekAfterFinish(q) \in Track \cup {NoTrack}
<1>1. /\ q.items \in Seq(Track) /\ Len(q.items) \in Nat /\ DOMAIN q.items = 1..Len(q.items)
      /\ q.order \in [1..Len(q.items) -> 1..Len(q.items)] /\ Len(q.order) = Len(q.items)
      /\ q.position \in Nat
      /\ q.items # <<>> => q.position \in 1..Len(q.items)
      /\ q.items = <<>> => q.position = 1 /\ Len(q.items) = 0
  BY Shape DEF QInv, WellFormed, Queue, PositionInRange
<1>2. \A k \in 1..Len(q.items) : q.items[q.order[k]] \in Track
  BY <1>1
<1>3. Current(q) \in Track \cup {NoTrack} /\ (q.items # <<>> => Current(q) \in Track)
  BY <1>1, <1>2 DEF Current
<1>4. ~AtEnd(q) => q.items[q.order[q.position + 1]] \in Track
  <2> SUFFICES ASSUME ~AtEnd(q) PROVE q.position + 1 \in 1..Len(q.items)
    BY <1>2
  <2> QED
    BY <1>1 DEF AtEnd
<1> QED
  BY <1>3, <1>4 DEF PeekAfterFinish

-----------------------------------------------------------------------------
(* The machine.  Its inductive invariant is the queue's shape together     *)
(* with the plain order when shuffle is off.                               *)
(* The machine's operations are those of QueueOps.                         *)
LEMMA SameOperations ==
  ASSUME NEW q
  PROVE  /\ \A new : Machine!Replace(q, new) = Replace(q, new)
         /\ \A t : Machine!AppendItem(q, t) = AppendItem(q, t)
         /\ Machine!Clear(q) = Clear(q)
         /\ \A mode : Machine!SetRepeat(q, mode) = SetRepeat(q, mode)
         /\ \A on : Machine!SetShuffle(q, on) = SetShuffle(q, on)
         /\ Machine!CanNext(q) = CanNext(q) /\ Machine!NextItem(q) = NextItem(q)
         /\ Machine!CanPrevious(q) = CanPrevious(q) /\ Machine!PreviousItem(q) = PreviousItem(q)
         /\ \A p : Machine!CanJump(q, p) = CanJump(q, p) /\ Machine!JumpTo(q, p) = JumpTo(q, p)
         /\ Machine!CanAdvance(q) = CanAdvance(q)
         /\ Machine!AdvanceAfterFinish(q) = AdvanceAfterFinish(q)
         /\ Machine!PeekAfterFinish(q) = PeekAfterFinish(q)
         /\ Machine!Current(q) = Current(q) /\ Machine!CurrentIndex(q) = CurrentIndex(q)
         /\ Machine!WellFormed(q) = WellFormed(q)
<1>1. Machine!Queue = Queue /\ Machine!RepeatMode = RepeatMode
  BY DEF Machine!Queue, Queue, Machine!RepeatMode, RepeatMode
<1>2. \A n : Machine!InOrder(n) = InOrder(n) /\ Machine!Shuffles(n) = Shuffles(n)
  BY DEF Machine!InOrder, InOrder, Machine!Shuffles, Shuffles
<1>3. \A r : Machine!Reshuffle(r) = Reshuffle(r)
  BY <1>2 DEF Machine!Reshuffle, Reshuffle
<1>4. \A r : Machine!AtEnd(r) = AtEnd(r)
  BY DEF Machine!AtEnd, AtEnd
<1>5. Machine!Current(q) = Current(q) /\ Machine!CurrentIndex(q) = CurrentIndex(q)
  BY DEF Machine!Current, Current, Machine!CurrentIndex, CurrentIndex
<1>6. Machine!CanNext(q) = CanNext(q) /\ Machine!NextItem(q) = NextItem(q)
  BY <1>3, <1>4 DEF Machine!CanNext, CanNext, Machine!NextItem, NextItem
<1>7. /\ Machine!CanAdvance(q) = CanAdvance(q)
      /\ Machine!AdvanceAfterFinish(q) = AdvanceAfterFinish(q)
      /\ Machine!PeekAfterFinish(q) = PeekAfterFinish(q)
  BY <1>4, <1>5, <1>6 DEF Machine!CanAdvance, CanAdvance, Machine!AdvanceAfterFinish, AdvanceAfterFinish,
                          Machine!PeekAfterFinish, PeekAfterFinish
<1>8. \A new : Machine!Replace(q, new) = Replace(q, new)
  BY <1>2, <1>3 DEF Machine!Replace, Replace
<1>9. \A r : Machine!FollowCurrent(r, q) = FollowCurrent(r, q)
  BY DEF Machine!FollowCurrent, FollowCurrent
<1>10. \A on : Machine!SetShuffle(q, on) = SetShuffle(q, on)
  BY <1>2, <1>3, <1>9 DEF Machine!SetShuffle, SetShuffle
<1>11. Machine!WellFormed(q) = WellFormed(q)
  BY <1>1, <1>2 DEF Machine!WellFormed, WellFormed, Machine!OrderIsPermutation, OrderIsPermutation,
                    Machine!PositionInRange, PositionInRange
<1>12. /\ \A t : Machine!AppendItem(q, t) = AppendItem(q, t)
       /\ Machine!Clear(q) = Clear(q)
       /\ \A mode : Machine!SetRepeat(q, mode) = SetRepeat(q, mode)
       /\ Machine!CanPrevious(q) = CanPrevious(q) /\ Machine!PreviousItem(q) = PreviousItem(q)
       /\ \A p : Machine!CanJump(q, p) = CanJump(q, p) /\ Machine!JumpTo(q, p) = JumpTo(q, p)
  BY DEF Machine!AppendItem, AppendItem, Machine!Clear, Clear, Machine!SetRepeat, SetRepeat, Machine!CanPrevious,
         CanPrevious, Machine!PreviousItem, PreviousItem, Machine!CanJump, CanJump, Machine!JumpTo, JumpTo
<1> QED BY <1>5, <1>6, <1>7, <1>8, <1>10, <1>11, <1>12

\* The machine's inductive invariant.
MachineInv == QInv(playQueue)

(* The empty queue of Queue::new satisfies the invariant.                  *)
LEMMA MachineInit == Machine!Init => MachineInv
BY EmptyKeeps DEF Machine!Init, Machine!EmptyQueue, EmptyQueue, MachineInv

(* No call of the queue breaks the invariant: one case per action.         *)
LEMMA MachineStep == MachineInv /\ [Machine!Next]_playQueue => MachineInv'
<1> SUFFICES ASSUME MachineInv, [Machine!Next]_playQueue PROVE MachineInv'
  OBVIOUS
<1> USE DEF MachineInv
<1>1. CASE Machine!Load
  <2>1. PICK new \in Machine!Lists : playQueue' \in Replace(playQueue, new)
    BY <1>1, SameOperations DEF Machine!Load
  <2>2. new \in Seq(Track)
    BY <2>1 DEF Machine!Lists
  <2> QED
    BY <2>1, <2>2, ReplaceKeeps
<1>2. CASE Machine!Extend
  BY <1>2, SameOperations, AppendKeeps DEF Machine!Extend
<1>3. CASE Machine!Empty
  BY <1>3, SameOperations, ClearKeeps DEF Machine!Empty
<1>4. ASSUME NEW mode \in RepeatMode, Machine!ChooseRepeat(mode) PROVE MachineInv'
  BY <1>4, SameOperations, SetRepeatKeeps DEF Machine!ChooseRepeat
<1>5. ASSUME NEW on \in BOOLEAN, Machine!SwitchShuffle(on) PROVE MachineInv'
  BY <1>5, SameOperations, SetShuffleKeeps DEF Machine!SwitchShuffle
<1>6. CASE Machine!UserNext
  <2>1. playQueue.items # <<>>
    BY <1>6, SameOperations, Shape DEF Machine!UserNext, CanNext, QInv, WellFormed
  <2> QED
    BY <1>6, <2>1, SameOperations, NextKeeps DEF Machine!UserNext
<1>7. CASE Machine!UserPrevious
  BY <1>7, SameOperations, PreviousKeeps DEF Machine!UserPrevious
<1>8. CASE Machine!UserJump
  BY <1>8, Shape, MoveKeeps DEF Machine!UserJump, Machine!CanJump, Machine!JumpTo, QInv, WellFormed
<1>9. CASE Machine!TrackFinished
  BY <1>9, SameOperations, AdvanceKeeps DEF Machine!TrackFinished
<1>10. CASE UNCHANGED playQueue
  BY <1>10
<1> QED
  BY <1>1, <1>2, <1>3, <1>4, <1>5, <1>6, <1>7, <1>8, <1>9, <1>10 DEF Machine!Next, Machine!RepeatMode, RepeatMode

(* The inductive invariant holds in every state any sequence of calls can  *)
(* reach, for every set of tracks and every bound on the list.             *)
THEOREM InvariantHolds == Machine!Spec => []MachineInv
BY MachineInit, MachineStep, PTL DEF Machine!Spec

(* Whatever the callers do, the play order stays a permutation of the      *)
(* user's list and the position stays in it.                               *)
THEOREM QueueWellFormed == Machine!Spec => []Machine!TypeOK
<1>1. MachineInv => Machine!TypeOK
  BY SameOperations DEF MachineInv, QInv, Machine!TypeOK
<1> QED
  BY <1>1, InvariantHolds, PTL

(* With shuffle off the play order is the user's list.                     *)
THEOREM PlainOrderHolds == Machine!Spec => []Machine!PlainOrderWhenNotShuffled
<1>1. MachineInv => Machine!PlainOrderWhenNotShuffled
  BY DEF MachineInv, QInv, PlainOrder, InOrder, Machine!InOrder, Machine!PlainOrderWhenNotShuffled
<1> QED
  BY <1>1, InvariantHolds, PTL

(* The read-ahead contract of peek_after_finish.                           *)
THEOREM PeekAgreesHolds == Machine!Spec => []PeekAgreesWithAdvance
<1> DEFINE Agrees ==
      /\ PeekAfterFinish(playQueue) # NoTrack =>
           /\ CanAdvance(playQueue)
           /\ \A after \in AdvanceAfterFinish(playQueue) : Current(after) = PeekAfterFinish(playQueue)
      /\ PeekAfterFinish(playQueue) = NoTrack =>
           \/ ~CanAdvance(playQueue)
           \/ \A after \in AdvanceAfterFinish(playQueue) : after.position = 1
<1>1. ASSUME MachineInv PROVE Agrees
  <2>1. /\ QInv(playQueue) /\ WellFormed(playQueue) /\ PositionInRange(playQueue)
    BY <1>1 DEF MachineInv, QInv, WellFormed
  <2>2. CASE playQueue.repeat = "one"
    BY <2>2 DEF PeekAfterFinish, CanAdvance, AdvanceAfterFinish
  <2>3. CASE playQueue.repeat # "one" /\ AtEnd(playQueue)
    <3>1. PeekAfterFinish(playQueue) = NoTrack
      BY <2>3 DEF PeekAfterFinish
    <3>2. ASSUME CanAdvance(playQueue), NEW r \in AdvanceAfterFinish(playQueue)
          PROVE  r.position = 1
      <4>1. playQueue.items # <<>> /\ r \in NextItem(playQueue)
        BY <3>2, <2>1, <2>3, Shape DEF CanAdvance, CanNext, AdvanceAfterFinish
      <4> QED
        BY <4>1, <2>1, <2>3, NextKeeps
    <3> QED
      BY <3>1, <3>2
  <2>4. CASE playQueue.repeat # "one" /\ ~AtEnd(playQueue)
    <3> DEFINE n == Len(playQueue.items)
               p == playQueue.position + 1
    <3>1. /\ n \in Nat /\ DOMAIN playQueue.order = 1..n /\ DOMAIN playQueue.items = 1..n
          /\ playQueue.order \in [1..n -> 1..n] /\ p \in 1..n
          /\ playQueue.items # <<>> /\ playQueue.order # <<>>
      BY <2>1, <2>4, Shape DEF AtEnd, PositionInRange
    <3>2. CanAdvance(playQueue)
      BY <2>4, <3>1 DEF CanAdvance, CanNext
    <3>3. PeekAfterFinish(playQueue) = playQueue.items[playQueue.order[p]]
      BY <2>4 DEF PeekAfterFinish
    <3>4. PeekAfterFinish(playQueue) # NoTrack
      <4>1. playQueue.items \in Seq(Track) /\ playQueue.order[p] \in 1..n
        BY <2>1, <3>1 DEF WellFormed, Queue
      <4> QED
        BY <4>1, <3>1, <3>3
    <3>5. ASSUME NEW r \in AdvanceAfterFinish(playQueue)
          PROVE  Current(r) = PeekAfterFinish(playQueue)
      <4>1. r = [playQueue EXCEPT !.position = p]
        BY <2>1, <2>4, <3>1, NextKeeps DEF AdvanceAfterFinish
      <4>2. /\ r.items = playQueue.items /\ r.order = playQueue.order
            /\ r.position = p
        BY <4>1, <3>1, <2>1, MoveKeeps
      <4> QED
        BY <4>2, <3>1, <3>3 DEF Current
    <3> QED
      BY <3>2, <3>4, <3>5
  <2> QED
    BY <2>2, <2>3, <2>4
<1>2. Agrees => PeekAgreesWithAdvance
  BY SameOperations DEF PeekAgreesWithAdvance, Machine!PeekAgreesWithAdvance
<1> QED
  BY <1>1, <1>2, InvariantHolds, PTL

(* A natural transition never plays the same item of the list twice in a   *)
(* row, wrapped shuffles included.                                         *)
THEOREM NoImmediateRepeatHolds == Machine!Spec => []Machine!NoImmediateRepeat
<1>1. ASSUME MachineInv PROVE Machine!NoImmediateRepeat
  <2>1. SUFFICES ASSUME Len(playQueue.items) > 1, playQueue.repeat # "one",
                        CanAdvance(playQueue),
                        NEW r \in AdvanceAfterFinish(playQueue)
                 PROVE  CurrentIndex(r) # CurrentIndex(playQueue)
    BY SameOperations DEF Machine!NoImmediateRepeat
  <2>2. QInv(playQueue) /\ playQueue.items # <<>>
    BY <1>1, <2>1, Shape DEF MachineInv, QInv, WellFormed
  <2>3. r \in NextItem(playQueue)
    BY <2>1 DEF AdvanceAfterFinish
  <2> QED
    BY <2>1, <2>2, <2>3, NextKeeps
<1> QED
  BY <1>1, InvariantHolds, PTL

(* The switches and appending leave the playing item where it is.          *)
THEOREM SettingsKeepCurrentHolds == Machine!Spec => SettingsKeepCurrent
<1> DEFINE Switches == /\ playQueue.items # <<>>
                       /\ \/ Machine!Extend
                          \/ \E on \in BOOLEAN : Machine!SwitchShuffle(on)
                          \/ \E mode \in Machine!RepeatMode : Machine!ChooseRepeat(mode)
<1>1. ASSUME MachineInv, Switches
      PROVE  CurrentIndex(playQueue') = CurrentIndex(playQueue)
  <2>1. QInv(playQueue)
    BY <1>1 DEF MachineInv
  <2>2. CASE Machine!Extend
    BY <1>1, <2>1, <2>2, SameOperations, AppendKeeps DEF Machine!Extend
  <2>3. ASSUME NEW on \in BOOLEAN, Machine!SwitchShuffle(on)
        PROVE  CurrentIndex(playQueue') = CurrentIndex(playQueue)
    BY <1>1, <2>1, <2>3, SameOperations, SetShuffleKeeps DEF Machine!SwitchShuffle
  <2>4. ASSUME NEW mode \in Machine!RepeatMode, Machine!ChooseRepeat(mode)
        PROVE  CurrentIndex(playQueue') = CurrentIndex(playQueue)
    BY <2>1, <2>4, SameOperations, SetRepeatKeeps DEF Machine!ChooseRepeat, Machine!RepeatMode, RepeatMode
  <2> QED
    BY <1>1, <2>2, <2>3, <2>4
<1>2. Machine!CurrentIndex(playQueue') = CurrentIndex(playQueue') /\ Machine!CurrentIndex(playQueue) = CurrentIndex(playQueue)
  BY DEF Machine!CurrentIndex, CurrentIndex
<1>3. MachineInv => [Switches => Machine!CurrentIndex(playQueue') = Machine!CurrentIndex(playQueue)]_playQueue
  BY <1>1, <1>2
<1> QED
  BY <1>3, InvariantHolds, PTL DEF SettingsKeepCurrent, Machine!SettingsKeepCurrent
=============================================================================
