-------------------------- MODULE AudioEngineProofs -------------------------
(***************************************************************************)
(* What the gapless engine promises about the frames it counts, proved for *)
(* every capacity of the ring, packet and buffer size and number of tracks.*)
(*                                                                         *)
(* The two counters are updated after the accesses they count, so neither  *)
(* is right at every moment.  The invariant counts what they will show:    *)
(* Pushed, the frames written with those the decoder has not counted yet,  *)
(* and Popped, the frames given to the device with those the callback has  *)
(* not counted yet.  Place p of the output is the p-th frame ever written; *)
(* a slice is an interval of places, and the ring holds the places from    *)
(* Popped to Pushed.  The core of the invariant is that each of them has   *)
(* the track number of the slice its place lies in (Frames), and that what *)
(* was heard of a track is the part of its slice below Popped (Heard); for *)
(* this a track number is queued, taken, begun and closed at most once     *)
(* (Jobs, First) and the slices follow one another (Slices).  Once the     *)
(* stop flag is set the ring is thrown away and nothing of this is claimed.*)
(***************************************************************************)
EXTENDS AudioEngine, FiniteSetTheorems, WellFoundedInduction, TLAPS

(* Frames the callback has taken and not counted.                          *)
Held == IF cb.pc = "count" THEN cb.given ELSE 0

\* Frames the device was given, and frames the decoder wrote, since the start.
Popped == played + Held
Pushed == queued + IF dec.pc = "count" THEN dec.written ELSE 0

\* The decoder works on a track; it is in its slice.
Decoding == dec.pc \in {"packet", "write", "push", "count", "close"}
Holding == dec.pc \in {"open", "claim", "begin"}

\* The caller has a job in its hands.
Calling == caller.pc \in {"busy", "buffer", "send", "queueing"}

Types ==
  /\ ring \in Seq(Seqs) /\ Len(ring) <= Capacity
  /\ played \in Nat /\ queued \in Nat
  /\ pending \in Seq(Job) /\ spans \in Seq(Span)
  /\ nextSeq \in 0..MaxJobs
  /\ dec \in Decoder /\ cb \in Callback /\ caller \in Caller
  /\ heard \in [Seqs -> Nat]

\* Where a slice ends: what was decoded of it, or will have been.
End(i) == IF spans[i].frames = None THEN Pushed ELSE spans[i].start + spans[i].frames

\* Every job is sent once, and taken once.
Jobs ==
  /\ Calling => caller.seq \in Seqs /\ caller.seq < nextSeq
  /\ dec.pc \notin {"loop", "take", "park", "exited"} => dec.seq \in Seqs /\ dec.seq < nextSeq
  /\ \A i \in DOMAIN pending :
       /\ pending[i].seq < nextSeq
       /\ Calling => pending[i].seq # caller.seq
       /\ Decoding \/ Holding => pending[i].seq # dec.seq
       /\ \A j \in DOMAIN pending : pending[i].seq = pending[j].seq => i = j
       /\ \A j \in DOMAIN spans : Started(j) => spans[j].seq # pending[i].seq
  /\ Calling /\ (Decoding \/ Holding) => caller.seq # dec.seq
  /\ \A j \in DOMAIN spans :
       /\ spans[j].seq < nextSeq
       /\ Calling /\ Started(j) => spans[j].seq # caller.seq
       /\ Holding /\ Started(j) => spans[j].seq # dec.seq
       /\ \A i \in DOMAIN spans : spans[i].seq = spans[j].seq => i = j

\* Nothing is begun before the first track, and its slice is the first.
First ==
  /\ caller.pc \notin {"clearing", "closing", "joining", "dropped"}
  /\ caller.pc \in {"opening", "prepared", "failed"} =>
       /\ spans = <<>> /\ pending = <<>> /\ nextSeq = 0 /\ ~Decoding /\ ~Holding
       /\ caller.pc = "prepared" => caller.seq = 0
  /\ spans = <<>> => caller.pc \in {"opening", "prepared", "failed"}
  /\ \A i \in DOMAIN spans : ~Started(i) =>
       /\ Len(spans) = 1 /\ ~Decoding /\ spans[1].frames = None
       /\ \/ caller.pc \in {"busy", "buffer", "send"} /\ caller.seq = spans[1].seq /\ pending = <<>>
             /\ ~Holding
          \/ pending # <<>> /\ pending[1] = [seq |-> spans[1].seq, lazy |-> FALSE] /\ ~Holding
          \/ dec.pc \in {"claim", "begin"} /\ dec.seq = spans[1].seq

\* One slice follows the other, and only the last can be open.
Slices ==
  /\ \A i, j \in DOMAIN spans :
       i < j => spans[i].frames # None /\ spans[i].start + spans[i].frames <= spans[j].start
  /\ \A i \in DOMAIN spans : Started(i) => spans[i].start <= queued /\ End(i) <= Pushed
  /\ \A i \in DOMAIN spans : Started(i) /\ spans[i].frames = None => Decoding
  /\ Decoding => spans # <<>> /\ Started(Len(spans)) /\ spans[Len(spans)].seq = dec.seq
                 /\ spans[Len(spans)].frames = None

\* Every frame in the ring is of the slice its place lies in.
Frames ==
  /\ Pushed = Popped + Len(ring)
  /\ \A k \in DOMAIN ring : \E i \in DOMAIN spans :
       /\ Started(i) /\ ring[k] = spans[i].seq
       /\ spans[i].start <= Popped + k - 1 /\ Popped + k - 1 < End(i)
  /\ dec.pc = "count" => dec.written <= dec.left

\* What was heard of a track is what of its slice has left the ring.
Heard ==
  /\ \A i \in DOMAIN spans : Started(i) =>
       heard[spans[i].seq] = IF Popped <= spans[i].start THEN 0
                             ELSE IF Popped <= End(i) THEN Popped - spans[i].start
                             ELSE End(i) - spans[i].start
  /\ \A s \in Seqs : (\A i \in DOMAIN spans : Started(i) => spans[i].seq # s) => heard[s] = 0

Good == Types /\ Jobs /\ First /\ Slices /\ Frames /\ Heard

EngineInv == ~stop => Good

-----------------------------------------------------------------------------
(* Sequences and numbers.                                                  *)

LEMMA SeqFacts ==
  ASSUME NEW S, NEW q \in Seq(S)
  PROVE  /\ Len(q) \in Nat /\ DOMAIN q = 1..Len(q) /\ \A k \in 1..Len(q) : q[k] \in S
OBVIOUS

LEMMA SeqExcept ==
  ASSUME NEW S, NEW q \in Seq(S), NEW n \in DOMAIN q, NEW e \in S
  PROVE  /\ [q EXCEPT ![n] = e] \in Seq(S) /\ Len([q EXCEPT ![n] = e]) = Len(q)
         /\ [q EXCEPT ![n] = e][n] = e
         /\ \A k \in DOMAIN q : k # n => [q EXCEPT ![n] = e][k] = q[k]
OBVIOUS

LEMMA SeqDrop ==
  ASSUME NEW S, NEW q \in Seq(S), NEW n \in Nat, n <= Len(q)
  PROVE  /\ SubSeq(q, n + 1, Len(q)) \in Seq(S) /\ Len(SubSeq(q, n + 1, Len(q))) = Len(q) - n
         /\ \A k \in 1..(Len(q) - n) : SubSeq(q, n + 1, Len(q))[k] = q[k + n]
OBVIOUS

\* A set of numbers that is not empty has a least.
\* current_span is the last slice reached.
LEMMA Smallest ==
  ASSUME NEW T, T \subseteq Nat, T # {}
  PROVE  \E x \in T : \A y \in T : x <= y
<1>1. PICK x \in T : \A y \in T : ~(<<y, x>> \in OpToRel(<, Nat))
  BY NatLessThanWellFounded, WFMin
<1>2. \A y \in T : ~(y < x)
  BY <1>1 DEF OpToRel
<1> QED BY <1>2

\* A bounded set of numbers that is not empty has a greatest.
LEMMA Largest ==
  ASSUME NEW S \in SUBSET Nat, S # {}, NEW n \in Nat, \A m \in S : m <= n
  PROVE  \E k \in S : \A m \in S : m <= k
<1> DEFINE gaps == {n - m : m \in S}
<1>1. gaps \subseteq Nat /\ gaps # {}
  <2>1. \A m \in S : n - m \in Nat
    OBVIOUS
  <2> QED BY <2>1
<1>2. PICK g \in gaps : \A h \in gaps : g <= h
  BY <1>1, Smallest
<1>3. PICK k \in S : g = n - k
  BY <1>2
<1>4. \A m \in S : m <= k
  BY <1>2, <1>3
<1> QED BY <1>4

\* The frames of a slice that have left the ring, before a callback takes some and after.
LEMMA HeardMore ==
  ASSUME NEW start \in Nat, NEW end \in Nat, NEW p \in Nat, NEW take \in Nat, start <= end,
         NEW a, a = IF start <= p THEN 1 ELSE start - p + 1,
         NEW b, b = IF end - p < take THEN end - p ELSE take
  PROVE  (IF p + take <= start THEN 0 ELSE IF p + take <= end THEN p + take - start ELSE end - start)
         = (IF p <= start THEN 0 ELSE IF p <= end THEN p - start ELSE end - start)
           + (IF a > b THEN 0 ELSE b - a + 1)
OBVIOUS

-----------------------------------------------------------------------------
(* The invariant at the start; two facts about slices.                     *)

LEMMA InitHolds == Init => EngineInv
<1> SUFFICES ASSUME Init PROVE Good
  BY DEF EngineInv
<1> USE AudioEngineAssumption DEF Init, Started
<1>1. Types
  BY DEF Types, Decoder, Callback, Caller, PlayState, Seqs
<1>2. Jobs /\ First /\ Slices
  BY DEF Jobs, First, Slices, Calling, Holding, Decoding
<1>3. Frames /\ Heard
  BY DEF Frames, Heard, Popped, Pushed, Held
<1> QED BY <1>1, <1>2, <1>3 DEF Good

\* What a started slice is made of.
LEMMA StartedSpan ==
  ASSUME Good, NEW i \in DOMAIN spans, Started(i)
  PROVE  /\ spans[i].seq \in Seqs /\ spans[i].start \in Nat /\ spans[i].frames \in Nat \cup {None}
         /\ Pushed \in Nat /\ Popped \in Nat /\ End(i) \in Nat
         /\ spans[i].start <= End(i) /\ End(i) <= Pushed
<1>1. spans[i] \in Span
  BY DEF Good, Types
<1>2. spans[i].seq \in Seqs /\ spans[i].start \in Nat /\ spans[i].frames \in Nat \cup {None}
  BY <1>1 DEF Span, Started
<1>3. Pushed \in Nat /\ Popped \in Nat /\ queued \in Nat /\ queued <= Pushed
  BY DEF Good, Types, Pushed, Popped, Held, Decoder, Callback
<1>4. spans[i].start <= queued /\ End(i) <= Pushed
  BY DEF Good, Slices
<1>5. spans[i].start <= End(i) /\ End(i) \in Nat
  BY <1>2, <1>3, <1>4 DEF End
<1> QED BY <1>2, <1>3, <1>4, <1>5

\* Two slices do not share a place of the output.
LEMMA SlicesApart ==
  ASSUME Good, NEW i \in DOMAIN spans, NEW j \in DOMAIN spans, Started(i), Started(j), NEW p \in Nat,
         spans[i].start <= p, p < End(i), spans[j].start <= p, p < End(j)
  PROVE  i = j
<1>1. ASSUME NEW a \in DOMAIN spans, NEW b \in DOMAIN spans, Started(a), Started(b), a < b,
             p < End(a), spans[b].start <= p
      PROVE  FALSE
  <2>1. spans[a].frames # None /\ spans[a].start + spans[a].frames <= spans[b].start
    BY <1>1 DEF Good, Slices
  <2>2. End(a) <= spans[b].start
    BY <2>1 DEF End
  <2>3. End(a) \in Nat /\ spans[b].start \in Nat
    BY <1>1, StartedSpan
  <2> QED BY <1>1, <2>2, <2>3
<1>2. i \in Nat /\ j \in Nat
  BY DEF Good, Types
<1> QED BY <1>1, <1>2

-----------------------------------------------------------------------------
(* Steps that leave what the invariant counts alone.                       *)

\* The invariant names these only.
core == <<ring, played, queued, pending, spans, nextSeq, heard>>

\* A step of the decoder from one place to another that counts the same.
LEMMA DecoderMoves ==
  ASSUME Good, UNCHANGED <<core, cb, caller>>, dec' \in Decoder,
         dec.pc # "count", dec'.pc # "count",
         dec'.pc = "exited" => FALSE,
         \/ ~Decoding /\ ~Holding /\ ~Decoding' /\ ~Holding'
         \/ Decoding /\ Decoding' /\ dec'.seq = dec.seq
         \/ Holding /\ Holding' /\ dec'.seq = dec.seq /\ (dec.pc # "open" => dec'.pc # "open")
  PROVE  Good'
<1> USE DEF core, Started
<1>1. Types'
  BY DEF Good, Types
<1>2. Jobs'
  <2>1. dec'.pc \notin {"loop", "take", "park", "exited"} => dec'.seq \in Seqs /\ dec'.seq < nextSeq
    BY DEF Good, Jobs, Decoding, Holding, Decoder
  <2> QED BY <2>1 DEF Good, Jobs, Calling, Decoding, Holding
<1>3. First'
  BY DEF Good, First, Calling, Decoding, Holding
<1>4. Popped' = Popped /\ Pushed' = Pushed /\ \A i : End(i)' = End(i)
  BY DEF Popped, Held, Pushed, End
<1>5. Slices'
  BY <1>4 DEF Good, Slices, Decoding, Holding
<1>6. Frames' /\ Heard'
  BY <1>4 DEF Good, Frames, Heard
<1> QED BY <1>1, <1>2, <1>3, <1>5, <1>6 DEF Good

LEMMA CallerMoves ==
  ASSUME Good, UNCHANGED <<core, cb, dec>>, caller' \in Caller,
         caller'.pc \notin {"clearing", "closing", "joining", "dropped"},
         \/ ~Calling /\ ~Calling' /\ caller.pc \notin {"opening", "prepared", "failed"}
            /\ caller'.pc \notin {"opening", "prepared", "failed"}
         \/ caller.pc \in {"busy", "buffer", "send"} /\ caller'.pc \in {"busy", "buffer", "send"}
            /\ caller'.seq = caller.seq
         \/ caller.pc = "opening" /\ caller'.pc = "failed"
         \/ caller.pc = "opening" /\ caller'.pc = "prepared" /\ caller'.seq = nextSeq
  PROVE  Good'
<1> USE DEF core, Started
<1>1. Types'
  BY DEF Good, Types
<1>2. Jobs'
  BY DEF Good, Jobs, Calling, Decoding, Holding
<1>3. First'
  BY DEF Good, First, Calling, Decoding, Holding
<1>4. Popped' = Popped /\ Pushed' = Pushed /\ \A i : End(i)' = End(i)
  BY DEF Popped, Held, Pushed, End
<1>5. Slices'
  BY <1>4 DEF Good, Slices, Decoding, Holding
<1>6. Frames' /\ Heard'
  BY <1>4 DEF Good, Frames, Heard
<1> QED BY <1>1, <1>2, <1>3, <1>5, <1>6 DEF Good

LEMMA CallbackMoves ==
  ASSUME Good, UNCHANGED <<ring, queued, pending, spans, nextSeq, heard, dec, caller>>, cb' \in Callback,
         played' \in Nat, Popped' = Popped
  PROVE  Good'
<1> USE DEF Started
<1>1. Types'
  BY DEF Good, Types
<1>2. Jobs' /\ First'
  BY DEF Good, Jobs, First, Calling, Decoding, Holding
<1>4. Pushed' = Pushed /\ \A i : End(i)' = End(i)
  BY DEF Pushed, End
<1>5. Slices'
  BY <1>4 DEF Good, Slices, Decoding, Holding
<1>6. Frames' /\ Heard'
  BY <1>4 DEF Good, Frames, Heard
<1> QED BY <1>1, <1>2, <1>5, <1>6 DEF Good

-----------------------------------------------------------------------------
(* The caller.                                                             *)

LEMMA PlayPreparedStep == ASSUME Good, PlayPrepared PROVE Good'
<1> USE AudioEngineAssumption
<1>0. /\ spans = <<>> /\ pending = <<>> /\ nextSeq = 0 /\ ~Decoding /\ ~Holding /\ caller.seq = 0
      /\ caller.pc = "prepared" /\ 0 \in Seqs
  BY DEF PlayPrepared, Good, First, Seqs
<1>1. /\ spans' = <<[seq |-> 0, start |-> None, frames |-> None]>> /\ nextSeq' = 1
      /\ caller' = [caller EXCEPT !.pc = "busy"]
      /\ UNCHANGED <<ring, played, queued, pending, heard, dec, cb>>
  BY <1>0 DEF PlayPrepared, Declare, Declared, callerRest
<1>2. caller'.pc = "busy" /\ caller'.seq = 0 /\ caller' \in Caller
  BY <1>0, <1>1 DEF Good, Types, Caller
<1>3. ~Started(1)' /\ DOMAIN spans' = {1} /\ spans'[1].seq = 0 /\ spans'[1].frames = None /\ Len(spans') = 1
  BY <1>1 DEF Started
<1>4. Types'
  BY <1>0, <1>1, <1>2 DEF Good, Types, Span
<1>5. Jobs'
  BY <1>0, <1>1, <1>2, <1>3 DEF Good, Jobs, Calling, Decoding, Holding, Decoder, Types
<1>6. First'
  BY <1>0, <1>1, <1>2, <1>3 DEF Good, First, Calling, Decoding, Holding
<1>7. Slices'
  BY <1>0, <1>1, <1>3 DEF Good, Slices, Decoding
<1>8. ring = <<>>
  <2>1. \A k \in DOMAIN ring : FALSE
    BY <1>0 DEF Good, Frames
  <2>2. ring \in Seq(Seqs)
    BY DEF Good, Types
  <2>3. Len(ring) \in Nat /\ DOMAIN ring = 1..Len(ring)
    BY <2>2
  <2>4. ~(1 <= Len(ring))
    BY <2>1, <2>3
  <2>5. Len(ring) = 0
    BY <2>3, <2>4
  <2> QED BY <2>2, <2>5
<1>9. Frames' /\ Heard'
  BY <1>0, <1>1, <1>3, <1>8 DEF Good, Frames, Heard, Popped, Held, Pushed, Types
<1> QED BY <1>4, <1>5, <1>6, <1>7, <1>9 DEF Good

LEMMA EnqueueStep == ASSUME Good, Enqueue PROVE Good'
<1> USE AudioEngineAssumption DEF Started
<1>1. /\ caller.pc = "ready" /\ pending = <<>> /\ nextSeq < MaxJobs /\ nextSeq' = nextSeq + 1
      /\ caller' = [pc |-> "queueing", seq |-> nextSeq]
      /\ UNCHANGED <<ring, played, queued, pending, spans, heard, dec, cb>>
  BY DEF Enqueue, callerRest
<1>2. nextSeq \in Seqs /\ caller' \in Caller /\ nextSeq' \in 0..MaxJobs
  BY <1>1 DEF Good, Types, Seqs, Caller
<1>3. Types'
  BY <1>1, <1>2 DEF Good, Types
<1>a. nextSeq \in Nat /\ caller'.seq = nextSeq /\ caller'.pc = "queueing" /\ DOMAIN pending = {}
  BY <1>1, <1>2 DEF Seqs
<1>4. Jobs'
  <2>1. Calling' => caller'.seq \in Seqs /\ caller'.seq < nextSeq'
    BY <1>1, <1>2, <1>a
  <2>2. dec.pc \notin {"loop", "take", "park", "exited"} => dec.seq \in Seqs /\ dec.seq < nextSeq'
        /\ dec.seq # nextSeq
    BY <1>1, <1>2, <1>a DEF Good, Jobs, Seqs
  <2>3. \A j \in DOMAIN spans : spans[j].seq < nextSeq' /\ spans[j].seq # nextSeq
    <3> TAKE j \in DOMAIN spans
    <3>1. spans[j].seq < nextSeq
      BY DEF Good, Jobs
    <3>2. spans[j] \in Span
      BY DEF Good, Types
    <3>3. spans[j].seq \in Nat
      BY <3>2 DEF Span, Seqs
    <3> QED BY <3>1, <3>3, <1>1, <1>a
  <2>4. Calling' /\ (Decoding \/ Holding)' => caller'.seq # dec'.seq
    BY <2>2, <1>1, <1>a DEF Decoding, Holding
  <2> QED BY <1>1, <1>a, <2>1, <2>2, <2>3, <2>4 DEF Good, Jobs, Decoding, Holding
<1>5. First'
  BY <1>1, <1>a DEF Good, First, Calling, Decoding, Holding
<1>6. Popped' = Popped /\ Pushed' = Pushed /\ \A i : End(i)' = End(i)
  BY <1>1 DEF Popped, Held, Pushed, End
<1>7. Slices' /\ Frames' /\ Heard'
  BY <1>1, <1>6 DEF Good, Slices, Frames, Heard, Decoding, Holding
<1> QED BY <1>3, <1>4, <1>5, <1>7 DEF Good

LEMMA SendStep == ASSUME Good, SendPrepared \/ SendLazy PROVE Good'
<1> USE AudioEngineAssumption DEF Started
<1>1. PICK lazy \in BOOLEAN :
      /\ pending' = Append(pending, [seq |-> caller.seq, lazy |-> lazy])
      /\ caller.pc \in {"send", "queueing"} /\ caller' = [pc |-> "ready", seq |-> None]
      /\ caller.pc = "send" => ~lazy
      /\ UNCHANGED <<ring, played, queued, spans, nextSeq, heard, dec, cb>>
  BY DEF SendPrepared, SendLazy, Send, callerRest
<1>2. caller.seq \in Seqs /\ caller.seq < nextSeq /\ Calling /\ ~Calling'
  BY <1>1 DEF Good, Jobs, Calling
<1> DEFINE job == [seq |-> caller.seq, lazy |-> lazy]
<1>3. job \in Job /\ pending \in Seq(Job)
  BY <1>2 DEF Job, Good, Types
<1>4. /\ pending' \in Seq(Job) /\ Len(pending') = Len(pending) + 1 /\ pending'[Len(pending) + 1] = job
      /\ \A i \in DOMAIN pending : pending'[i] = pending[i]
      /\ DOMAIN pending' = DOMAIN pending \cup {Len(pending) + 1}
  BY <1>1, <1>3
<1>5. Types'
  BY <1>1, <1>4 DEF Good, Types, Caller
<1>6. Jobs'
  BY <1>1, <1>2, <1>3, <1>4 DEF Good, Jobs, Calling, Decoding, Holding
<1>7. First'
  <2>1. spans # <<>> /\ caller'.pc = "ready" /\ pending' # <<>>
    BY <1>1, <1>4 DEF Good, First
  <2>2. ASSUME NEW i \in DOMAIN spans, ~Started(i)
        PROVE  /\ Len(spans) = 1 /\ ~Decoding /\ spans[1].frames = None
               /\ \/ pending'[1] = [seq |-> spans[1].seq, lazy |-> FALSE] /\ ~Holding
                  \/ dec.pc \in {"claim", "begin"} /\ dec.seq = spans[1].seq
    <3>0. /\ Len(spans) = 1 /\ ~Decoding /\ spans[1].frames = None
          /\ \/ caller.pc = "send" /\ caller.seq = spans[1].seq /\ pending = <<>> /\ ~Holding
             \/ pending # <<>> /\ pending[1] = [seq |-> spans[1].seq, lazy |-> FALSE] /\ ~Holding
             \/ dec.pc \in {"claim", "begin"} /\ dec.seq = spans[1].seq
      BY <2>2, <1>1 DEF Good, First
    <3>1. CASE caller.pc = "send" /\ caller.seq = spans[1].seq /\ pending = <<>> /\ ~Holding
      <4>1. lazy = FALSE
        BY <3>1, <1>1
      <4>2. pending'[1] = [seq |-> caller.seq, lazy |-> lazy]
        BY <3>1, <1>4
      <4> QED BY <3>0, <3>1, <4>1, <4>2
    <3>2. CASE pending # <<>> /\ pending[1] = [seq |-> spans[1].seq, lazy |-> FALSE] /\ ~Holding
      <4>1. 1 \in DOMAIN pending
        BY <3>2, <1>3
      <4>2. pending'[1] = pending[1]
        BY <4>1, <1>4
      <4> QED BY <3>0, <3>2, <4>2
    <3> QED BY <3>0, <3>1, <3>2
  <2> QED BY <1>1, <2>1, <2>2 DEF First, Calling, Decoding, Holding
<1>8. Popped' = Popped /\ Pushed' = Pushed /\ \A i : End(i)' = End(i)
  BY <1>1 DEF Popped, Held, Pushed, End
<1>9. Slices' /\ Frames' /\ Heard'
  BY <1>1, <1>8 DEF Good, Slices, Frames, Heard, Decoding, Holding
<1> QED BY <1>5, <1>6, <1>7, <1>9 DEF Good

LEMMA CallerHolds == ASSUME Good, CallerStep, ~stop' PROVE Good'
<1> USE DEF Good, Types, First, Caller
<1>1. CASE OpenSource
  BY <1>1, AudioEngineAssumption, CallerMoves DEF OpenSource, core, shared, Seqs, Calling
<1>2. CASE PlayPrepared
  BY <1>2, PlayPreparedStep
<1>3. CASE MarkBusy \/ MarkBuffering
  BY <1>3, CallerMoves DEF MarkBusy, MarkBuffering, core, callerRest, Calling
<1>4. CASE SendPrepared \/ SendLazy
  BY <1>4, SendStep
<1>5. CASE PauseStore \/ ResumeStore \/ PauseLoad \/ ResumeLoad
  BY <1>5, CallerMoves DEF PauseStore, ResumeStore, PauseLoad, ResumeLoad, core, callerRest, shared, Calling
<1>6. CASE CallerPoll
  BY <1>6, CallerMoves DEF CallerPoll, PollIdle, PollRing, PollQueue, Poll, core, shared, Calling
<1>7. CASE Enqueue
  BY <1>7, EnqueueStep
<1>8. CASE TakeError \/ KeepEngine
  BY <1>8, CallerMoves DEF TakeError, KeepEngine, core, shared, Calling
<1>9. CASE Drop
  BY <1>9 DEF Drop
<1>10. CASE CallerDrop
  BY <1>10 DEF CallerDrop, ClearRing, CloseStream, JoinDecoder
<1> QED BY <1>1, <1>2, <1>3, <1>4, <1>5, <1>6, <1>7, <1>8, <1>9, <1>10 DEF CallerStep, CallerPlay

-----------------------------------------------------------------------------
(* The decoder thread.                                                     *)

LEMMA TakeStep == ASSUME Good, TakeJob PROVE Good'
<1> USE DEF Started
<1>0. CASE pending = <<>>
  <2>1. dec.pc = "take" /\ dec' = [dec EXCEPT !.pc = "park"] /\ UNCHANGED <<core, cb, caller>>
    BY <1>0 DEF TakeJob, core, decRest
  <2> QED BY <2>1, DecoderMoves DEF Good, Types, Decoder, Decoding, Holding
<1>1. CASE pending # <<>>
  <2> DEFINE job == pending[1]
  <2>1. /\ dec.pc = "take" /\ pending' = Tail(pending)
        /\ dec'.pc = IF job.lazy THEN "open" ELSE "claim"
        /\ dec' = [dec EXCEPT !.pc = IF job.lazy THEN "open" ELSE "claim", !.seq = job.seq, !.read = 0]
        /\ UNCHANGED <<ring, played, queued, spans, nextSeq, heard, cb, caller>>
    <3>1. pending \in Seq(Job) /\ dec \in Decoder
      BY DEF Good, Types
    <3>2. Head(pending) = job
      BY <3>1, <1>1
    <3> QED BY <1>1, <3>1, <3>2 DEF TakeJob, decRest, Decoder
  <2>2. pending \in Seq(Job) /\ 1 \in DOMAIN pending /\ job \in Job /\ job.seq \in Seqs
        /\ job.lazy \in BOOLEAN
    <3>1. pending \in Seq(Job)
      BY DEF Good, Types
    <3>2. 1 \in DOMAIN pending
      BY <3>1, <1>1
    <3>3. job \in Job
      BY <3>1, <3>2
    <3> QED BY <3>1, <3>2, <3>3 DEF Job
  <2>3. /\ pending' \in Seq(Job) /\ \A i \in DOMAIN pending' : i \in Nat /\ i + 1 \in DOMAIN pending
           /\ i + 1 # 1
        /\ \A i \in DOMAIN pending' : pending'[i] = pending[i + 1]
    BY <2>1, <2>2, <1>1
  <2>4. dec' \in Decoder /\ dec'.pc \in {"open", "claim"} /\ dec'.seq = job.seq
        /\ (dec'.pc = "open" <=> job.lazy)
        /\ dec'.pc # "count" /\ dec.pc # "count"
    BY <2>1, <2>2 DEF Good, Types, Decoder
  <2>5. Types'
    BY <2>1, <2>3, <2>4 DEF Good, Types
  <2>6. Jobs'
    <3>1. job.seq < nextSeq /\ (Calling => job.seq # caller.seq)
          /\ \A j \in DOMAIN spans : Started(j) => spans[j].seq # job.seq
      BY <2>2 DEF Good, Jobs
    <3>2. \A i \in DOMAIN pending' :
            /\ pending'[i].seq < nextSeq
            /\ Calling => pending'[i].seq # caller.seq
            /\ pending'[i].seq # job.seq
            /\ \A j \in DOMAIN spans : Started(j) => spans[j].seq # pending'[i].seq
      BY <2>2, <2>3 DEF Good, Jobs
    <3>3. ASSUME NEW i \in DOMAIN pending', NEW j \in DOMAIN pending', pending'[i].seq = pending'[j].seq
          PROVE  i = j
      <4>1. i + 1 = j + 1
        BY <2>3, <3>3 DEF Good, Jobs
      <4> QED BY <4>1, <2>3
    <3> QED BY <2>1, <2>2, <2>4, <3>1, <3>2, <3>3 DEF Good, Jobs, Calling, Decoding, Holding
  <2>7. First'
    <3>1. caller.pc \notin {"opening", "prepared", "failed"} /\ spans # <<>>
      BY <1>1 DEF Good, First
    <3>2. ASSUME NEW i \in DOMAIN spans, ~Started(i)
          PROVE  /\ Len(spans) = 1 /\ spans[1].frames = None
                 /\ dec'.pc = "claim" /\ dec'.seq = spans[1].seq
      <4>1. job = [seq |-> spans[1].seq, lazy |-> FALSE] /\ Len(spans) = 1 /\ spans[1].frames = None
        BY <3>2, <1>1, <2>1 DEF Good, First
      <4> QED BY <4>1, <2>4, <2>1
    <3> QED BY <2>1, <2>4, <3>1, <3>2 DEF Good, First, Calling, Decoding, Holding
  <2>8. Popped' = Popped /\ Pushed' = Pushed /\ \A i : End(i)' = End(i)
    BY <2>1, <2>4 DEF Popped, Held, Pushed, End
  <2>9. Slices'
    BY <2>1, <2>4, <2>8 DEF Good, Slices, Decoding
  <2>10. Frames' /\ Heard'
    BY <2>1, <2>4, <2>8 DEF Good, Frames, Heard
  <2> QED BY <2>5, <2>6, <2>7, <2>9, <2>10 DEF Good
<1> QED BY <1>0, <1>1

LEMMA SkipStep == ASSUME Good, OpenLazy PROVE Good'
<1> USE DEF Started
<1>1. CASE dec' = [dec EXCEPT !.pc = "claim"]
  BY <1>1, DecoderMoves DEF OpenLazy, core, decRest, Good, Types, Decoder, Decoding, Holding
<1>2. CASE dec' = [dec EXCEPT !.pc = "loop", !.seq = None]
  <2>1. /\ dec.pc = "open" /\ dec'.pc = "loop" /\ dec' \in Decoder
        /\ UNCHANGED <<ring, played, queued, spans, pending, nextSeq, heard, cb, caller>>
    BY <1>2 DEF OpenLazy, decRest, Good, Types, Decoder
  <2>2. Types'
    BY <2>1 DEF Good, Types
  <2>3. Jobs'
    BY <2>1 DEF Good, Jobs, Calling, Decoding, Holding
  <2>4. First'
    BY <2>1 DEF Good, First, Calling, Decoding, Holding
  <2>5. Popped' = Popped /\ Pushed' = Pushed /\ \A i : End(i)' = End(i)
    BY <2>1 DEF Popped, Held, Pushed, End
  <2>6. Slices' /\ Frames' /\ Heard'
    BY <2>1, <2>5 DEF Good, Slices, Frames, Heard, Decoding
  <2> QED BY <2>2, <2>3, <2>4, <2>6 DEF Good
<1> QED BY <1>1, <1>2 DEF OpenLazy

LEMMA CountQueuedStep == ASSUME Good, CountQueued PROVE Good'
<1> USE DEF Started
<1>1. /\ dec.pc = "count" /\ dec'.pc \in {"packet", "write"} /\ dec'.seq = dec.seq
      /\ dec.left \in Nat /\ dec.written \in Nat /\ dec.written <= dec.left /\ queued \in Nat
      /\ queued' = queued + dec.written
      /\ UNCHANGED <<ring, played, spans, pending, nextSeq, heard, cb, caller>>
  BY DEF CountQueued, decRest, Good, Types, Decoder, Frames
<1>2. dec' \in Decoder /\ queued' \in Nat
  <2>1. dec.left - dec.written \in Nat /\ dec \in Decoder
    BY <1>1 DEF Good, Types
  <2>2. dec' \in Decoder
    BY <2>1 DEF CountQueued, Decoder
  <2> QED BY <1>1, <2>2
<1>3. Types'
  BY <1>1, <1>2 DEF Good, Types
<1>4. Jobs'
  BY <1>1 DEF Good, Jobs, Calling, Decoding, Holding
<1>5. First'
  BY <1>1 DEF Good, First, Calling, Decoding, Holding
<1>6. Pushed' = Pushed /\ Popped' = Popped /\ \A i : End(i)' = End(i)
  BY <1>1 DEF Popped, Held, Pushed, End
<1>7. Slices'
  <2>1. \A i \in DOMAIN spans : Started(i) => spans[i].start <= queued'
    <3> SUFFICES ASSUME NEW i \in DOMAIN spans, Started(i) PROVE spans[i].start <= queued'
      OBVIOUS
    <3>1. spans[i] \in Span /\ spans[i].start <= queued
      BY DEF Good, Types, Slices
    <3>2. spans[i].start \in Nat
      BY <3>1 DEF Span
    <3> QED BY <1>1, <3>1, <3>2
  <2> QED BY <1>1, <1>6, <2>1 DEF Good, Slices, Decoding
<1>8. Frames' /\ Heard'
  BY <1>1, <1>6 DEF Good, Frames, Heard
<1> QED BY <1>3, <1>4, <1>5, <1>7, <1>8 DEF Good

LEMMA PushStep == ASSUME Good, Push PROVE Good'
<1> USE DEF Started
<1> DEFINE take == IF FreeSpace < dec.left THEN FreeSpace ELSE dec.left
           last == Len(spans)
<1>0. /\ ring \in Seq(Seqs) /\ Len(ring) \in Nat /\ Len(ring) <= Capacity /\ Capacity \in Nat
      /\ dec \in Decoder /\ dec.left \in Nat /\ dec.pc = "push" /\ spans \in Seq(Span) /\ queued \in Nat
  BY AudioEngineAssumption DEF Good, Types, Push, Decoder
<1>1. take \in Nat /\ take <= dec.left /\ Len(ring) + take <= Capacity
  BY <1>0 DEF FreeSpace
<1>2. /\ ring' = ring \o [i \in 1..take |-> dec.seq]
      /\ dec' = [dec EXCEPT !.pc = "count", !.written = take]
      /\ UNCHANGED <<played, queued, spans, pending, nextSeq, heard, cb, caller>>
  BY DEF Push, decRest
<1>3. /\ dec'.pc = "count" /\ dec'.written = take /\ dec'.seq = dec.seq /\ dec'.left = dec.left
      /\ dec' \in Decoder
  BY <1>0, <1>1, <1>2 DEF Decoder
<1>4. dec.seq \in Seqs
  BY <1>0 DEF Good, Jobs
<1>5. /\ ring' \in Seq(Seqs) /\ Len(ring') = Len(ring) + take
      /\ \A k \in 1..Len(ring) : ring'[k] = ring[k]
      /\ \A k \in (Len(ring) + 1)..(Len(ring) + take) : ring'[k] = dec.seq
  <2> DEFINE more == [i \in 1..take |-> dec.seq]
  <2>1. more \in Seq(Seqs) /\ Len(more) = take /\ \A k \in 1..take : more[k] = dec.seq
    BY <1>1, <1>4
  <2> HIDE DEF more, take
  <2>2. ring' = ring \o more
    BY <1>2 DEF more
  <2> HIDE DEF more
  <2>3. /\ ring \o more \in Seq(Seqs) /\ Len(ring \o more) = Len(ring) + Len(more)
        /\ \A k \in 1..Len(ring) : (ring \o more)[k] = ring[k]
        /\ \A k \in (Len(ring) + 1)..(Len(ring) + Len(more)) : (ring \o more)[k] = more[k - Len(ring)]
    BY <2>1, <1>0
  <2>4. \A k \in (Len(ring) + 1)..(Len(ring) + take) : k - Len(ring) \in 1..take
    BY <1>0, <1>1
  <2> QED BY <2>1, <2>2, <2>3, <2>4
<1> HIDE DEF take
<1>6. Types'
  BY <1>0, <1>1, <1>2, <1>3, <1>5 DEF Good, Types
<1>7. Jobs'
  BY <1>0, <1>2, <1>3 DEF Good, Jobs, Calling, Decoding, Holding
<1>8. First'
  BY <1>0, <1>2, <1>3 DEF Good, First, Calling, Decoding, Holding
<1>9. Popped' = Popped /\ Pushed' = Pushed + take /\ Pushed = queued /\ Popped \in Nat
  BY <1>0, <1>1, <1>2, <1>3 DEF Popped, Held, Pushed, Good, Types, Callback
<1>10. \A i \in DOMAIN spans : End(i)' = IF spans[i].frames = None THEN Pushed' ELSE End(i)
  BY <1>2 DEF End
<1>11. PICK l \in DOMAIN spans : Started(l) /\ spans[l].seq = dec.seq /\ spans[l].frames = None
                                  /\ spans[l].start \in Nat /\ spans[l].start <= Pushed
  <2>1. spans # <<>> /\ Started(last) /\ spans[last].seq = dec.seq /\ spans[last].frames = None
    BY <1>0 DEF Good, Slices, Decoding
  <2>2. last \in DOMAIN spans
    BY <1>0, <2>1
  <2> QED BY <2>1, <2>2, StartedSpan
<1>12. \A i \in DOMAIN spans : Started(i) => End(i)' \in Nat /\ End(i)' <= Pushed' /\ End(i) <= End(i)'
  <2> SUFFICES ASSUME NEW i \in DOMAIN spans, Started(i)
               PROVE  End(i)' \in Nat /\ End(i)' <= Pushed' /\ End(i) <= End(i)'
    OBVIOUS
  <2>1. End(i) \in Nat /\ End(i) <= Pushed /\ Pushed \in Nat
    BY StartedSpan
  <2>2. End(i)' = IF spans[i].frames = None THEN Pushed' ELSE End(i)
    BY <1>10
  <2> QED BY <2>1, <2>2, <1>1, <1>9
<1>13. Slices'
  BY <1>0, <1>2, <1>3, <1>12 DEF Good, Slices, Decoding
<1>14. Frames'
  <2>1. Pushed' = Popped' + Len(ring')
    BY <1>0, <1>1, <1>5, <1>9 DEF Good, Frames
  <2>2. ASSUME NEW k \in DOMAIN ring'
        PROVE  \E i \in DOMAIN spans' : /\ Started(i)' /\ ring'[k] = spans'[i].seq
                 /\ spans'[i].start <= Popped' + k - 1 /\ Popped' + k - 1 < End(i)'
    <3>1. k \in 1..(Len(ring) + take) /\ k \in Nat
      BY <1>0, <1>1, <1>5
    <3>2. CASE k <= Len(ring)
      <4>1. k \in DOMAIN ring /\ ring'[k] = ring[k]
        BY <3>1, <3>2, <1>0, <1>5
      <4>2. PICK i \in DOMAIN spans : /\ Started(i) /\ ring[k] = spans[i].seq
                                      /\ spans[i].start <= Popped + k - 1 /\ Popped + k - 1 < End(i)
        BY <4>1 DEF Good, Frames
      <4>3. End(i) \in Nat /\ End(i)' \in Nat /\ End(i) <= End(i)'
        BY <4>2, StartedSpan, <1>12
      <4>4. Popped + k - 1 < End(i)'
        BY <4>2, <4>3, <3>1, <1>9
      <4> QED BY <4>1, <4>2, <4>4, <1>2, <1>9
    <3>3. CASE k > Len(ring)
      <4>0. k \in (Len(ring) + 1)..(Len(ring) + take)
        BY <3>1, <3>3, <1>0, <1>1
      <4>1. ring'[k] = dec.seq
        BY <4>0, <1>5
      <4>2. Pushed = Popped + Len(ring)
        BY DEF Good, Frames
      <4>3. spans[l].start <= Popped + k - 1 /\ Popped + k - 1 < Pushed'
        BY <4>2, <3>1, <3>3, <1>0, <1>1, <1>9, <1>11
      <4>4. End(l)' = Pushed'
        BY <1>10, <1>11
      <4> QED BY <4>1, <4>3, <4>4, <1>2, <1>9, <1>11
    <3> QED BY <3>1, <3>2, <3>3, <1>0
  <2> QED BY <2>1, <2>2, <1>1, <1>3 DEF Frames
<1>15. Heard'
  <2>1. ASSUME NEW i \in DOMAIN spans, Started(i)
        PROVE  heard[spans[i].seq] = IF Popped <= spans[i].start THEN 0
                             ELSE IF Popped <= End(i)' THEN Popped - spans[i].start
                             ELSE End(i)' - spans[i].start
    <3>1. heard[spans[i].seq] = IF Popped <= spans[i].start THEN 0
                             ELSE IF Popped <= End(i) THEN Popped - spans[i].start
                             ELSE End(i) - spans[i].start
      BY <2>1 DEF Good, Heard
    <3>2. CASE spans[i].frames # None
      <4>1. End(i)' = End(i)
        BY <3>2, <1>10
      <4> QED BY <3>1, <4>1
    <3>3. CASE spans[i].frames = None
      <4>1. End(i)' = Pushed + take /\ End(i) = Pushed /\ Pushed = Popped + Len(ring)
        BY <3>3, <1>9, <1>10 DEF End, Good, Frames
      <4>2. Popped <= End(i) /\ Popped <= End(i)'
        BY <4>1, <1>0, <1>1, <1>9
      <4> QED BY <3>1, <4>2
    <3> QED BY <3>2, <3>3
  <2> QED BY <2>1, <1>2, <1>9 DEF Good, Heard
<1> QED BY <1>6, <1>7, <1>8, <1>13, <1>14, <1>15 DEF Good

LEMMA CloseStep == ASSUME Good, CloseTrack PROVE Good'
<1> USE DEF Started
<1> DEFINE last == Len(spans)
<1>0. /\ dec \in Decoder /\ dec.pc = "close" /\ spans \in Seq(Span) /\ queued \in Nat /\ Pushed = queued
  BY DEF Good, Types, CloseTrack, Pushed
<1>1. /\ last \in DOMAIN spans /\ Started(last) /\ spans[last].seq = dec.seq
      /\ spans[last].frames = None /\ spans[last].start \in Nat /\ spans[last].start <= queued
  <2>1. spans # <<>> /\ Started(last) /\ spans[last].seq = dec.seq /\ spans[last].frames = None
    BY <1>0 DEF Good, Slices, Decoding
  <2>2. last \in DOMAIN spans
    BY <1>0, <2>1
  <2> QED BY <2>1, <2>2, <1>0, StartedSpan
<1>2. PlaceOf(spans, dec.seq) = last
  <2>1. \A i \in DOMAIN spans : spans[i].seq = dec.seq => i = last
    BY <1>1 DEF Good, Jobs
  <2> QED BY <2>1, <1>1 DEF PlaceOf
<1>3. /\ spans' = [spans EXCEPT ![last].frames = queued - spans[last].start]
      /\ dec' = [dec EXCEPT !.pc = "loop", !.seq = None]
      /\ UNCHANGED <<ring, played, queued, pending, nextSeq, heard, cb, caller>>
  BY <1>2 DEF CloseTrack, CloseSpan, decRest
<1>4. dec' \in Decoder /\ dec'.pc = "loop"
  BY <1>0, <1>3 DEF Decoder
<1>5. /\ spans' \in Seq(Span) /\ DOMAIN spans' = DOMAIN spans /\ Len(spans') = last
      /\ \A i \in DOMAIN spans : spans'[i].seq = spans[i].seq /\ spans'[i].start = spans[i].start
      /\ \A i \in DOMAIN spans : i # last => spans'[i] = spans[i]
      /\ spans'[last].frames = queued - spans[last].start
      /\ queued - spans[last].start \in Nat
  <2>1. queued - spans[last].start \in Nat
    BY <1>0, <1>1
  <2>2. [spans[last] EXCEPT !.frames = queued - spans[last].start] \in Span
    <3>1. spans[last] \in Span
      BY <1>0, <1>1
    <3> QED BY <2>1, <3>1 DEF Span
  <2>3. spans[last] \in Span
    BY <1>0, <1>1
  <2> DEFINE new == [spans[last] EXCEPT !.frames = queued - spans[last].start]
  <2>4. new.seq = spans[last].seq /\ new.start = spans[last].start
        /\ new.frames = queued - spans[last].start
    BY <2>3 DEF Span
  <2> HIDE DEF new
  <2>5. spans' = [spans EXCEPT ![last] = new]
    BY <1>3 DEF new
  <2>6. new \in Span
    BY <2>2 DEF new
  <2> QED BY <2>1, <2>4, <2>5, <2>6, <1>0, <1>1
<1>6. None \notin Nat
  BY AudioEngineAssumption
<1>7. Types'
  BY <1>3, <1>4, <1>5 DEF Good, Types
<1>8. Jobs'
  BY <1>3, <1>4, <1>5, <1>0 DEF Good, Jobs, Calling, Decoding, Holding
<1>9. First'
  <2>1. caller.pc \notin {"opening", "prepared", "failed"} /\ \A i \in DOMAIN spans : Started(i)
    BY <1>0, <1>1 DEF Good, First, Decoding
  <2> QED BY <2>1, <1>1, <1>3, <1>4, <1>5 DEF Good, First
<1>10. Popped' = Popped /\ Pushed' = Pushed
  BY <1>0, <1>3, <1>4 DEF Popped, Held, Pushed
<1>11. \A i \in DOMAIN spans : End(i)' = End(i)
  BY <1>0, <1>1, <1>3, <1>5, <1>6, <1>10 DEF End
<1>12. Slices'
  <2>1. ASSUME NEW i \in DOMAIN spans, NEW j \in DOMAIN spans, i < j
        PROVE  spans'[i].frames # None /\ spans'[i].start + spans'[i].frames <= spans'[j].start
    <3>1. i # last
      BY <2>1, <1>0, <1>1
    <3> QED BY <2>1, <3>1, <1>5 DEF Good, Slices
  <2>2. \A i \in DOMAIN spans : Started(i) => spans[i].frames # None \/ i = last
    <3> SUFFICES ASSUME NEW i \in DOMAIN spans, Started(i), i # last PROVE spans[i].frames # None
      OBVIOUS
    <3>1. i < last
      BY <1>0, <1>1
    <3> QED BY <3>1, <1>1 DEF Good, Slices
  <2>3. \A i \in DOMAIN spans : Started(i)' => spans'[i].frames # None
    BY <2>2, <1>5, <1>6
  <2> QED BY <2>1, <2>3, <1>0, <1>3, <1>4, <1>5, <1>10, <1>11 DEF Good, Slices, Decoding
<1>13. Frames'
  BY <1>3, <1>4, <1>5, <1>10, <1>11 DEF Good, Frames
<1>14. Heard'
  BY <1>3, <1>4, <1>5, <1>10, <1>11 DEF Good, Heard
<1> QED BY <1>7, <1>8, <1>9, <1>12, <1>13, <1>14 DEF Good

LEMMA BeginStep == ASSUME Good, BeginTrack PROVE Good'
<1> USE AudioEngineAssumption DEF Started
<1>0. /\ dec \in Decoder /\ dec.pc = "begin" /\ Holding /\ ~Decoding /\ dec.seq \in Seqs /\ dec.seq < nextSeq
      /\ spans \in Seq(Span) /\ queued \in Nat /\ Pushed = queued
  BY DEF Good, Types, Jobs, BeginTrack, Pushed, Holding, Decoding
<1>1. /\ spans' = BeginSpan(dec.seq) /\ dec' = [dec EXCEPT !.pc = "packet"]
      /\ dec'.pc = "packet" /\ dec'.seq = dec.seq /\ dec' \in Decoder /\ Decoding' /\ ~Holding'
      /\ UNCHANGED <<ring, played, queued, pending, nextSeq, heard, cb, caller>>
  BY <1>0 DEF BeginTrack, decRest, Decoder, Decoding, Holding
<1> DEFINE begun == [seq |-> dec.seq, start |-> queued, frames |-> None]
<1>2. begun \in Span
  BY <1>0 DEF Span
<1>3. \A i \in DOMAIN spans : Started(i) => spans[i].seq # dec.seq /\ spans[i].frames # None
  BY <1>0 DEF Good, Jobs, Slices
<1>4. PICK l \in Nat \ {0} :
        /\ spans' \in Seq(Span) /\ Len(spans') = l /\ DOMAIN spans' = DOMAIN spans \cup {l}
        /\ spans'[l] = begun
        /\ \A i \in DOMAIN spans : i <= l
        /\ \A i \in DOMAIN spans \ {l} : spans'[i] = spans[i] /\ Started(i)
        /\ l \in DOMAIN spans => ~Started(l)
  <2>1. CASE Declared(dec.seq)
    <3>1. PICK j \in DOMAIN spans : spans[j].seq = dec.seq
      BY <2>1 DEF Declared
    <3>2. ~Started(j)
      BY <3>1, <1>3
    <3>3. Len(spans) = 1 /\ spans[1].frames = None
      BY <3>2 DEF Good, First
    <3>4. j = 1 /\ DOMAIN spans = {1} /\ spans[1] \in Span /\ spans[1].seq = dec.seq
      <4>1. DOMAIN spans = 1..1 /\ \A k \in 1..1 : spans[k] \in Span
        BY <3>3, <1>0, SeqFacts
      <4> QED BY <4>1, <3>1
    <3>5. PlaceOf(spans, dec.seq) = 1
      BY <3>4 DEF PlaceOf
    <3>6. spans' = [spans EXCEPT ![1].start = queued]
      BY <3>5, <2>1, <1>1 DEF BeginSpan, Declare
    <3>7. [spans[1] EXCEPT !.start = queued] = begun
      BY <3>3, <3>4 DEF Span
    <3>8. spans' = [spans EXCEPT ![1] = begun]
      BY <3>6, <3>7
    <3> HIDE DEF begun
    <3>9. spans' \in Seq(Span) /\ Len(spans') = 1 /\ DOMAIN spans' = {1} /\ spans'[1] = begun
      <4>1. spans' \in Seq(Span) /\ Len(spans') = 1 /\ spans'[1] = begun
        BY <3>8, <3>3, <3>4, <1>0, <1>2, SeqExcept
      <4>2. DOMAIN spans' = 1..1
        BY <4>1, SeqFacts
      <4> QED BY <4>1, <4>2
    <3> QED BY <3>2, <3>4, <3>9
  <2>2. CASE ~Declared(dec.seq)
    <3> DEFINE fresh == [seq |-> dec.seq, start |-> None, frames |-> None]
               list == Append(spans, fresh)
               n == Len(spans) + 1
    <3>1. fresh \in Span
      BY <1>0 DEF Span
    <3>2. \A i \in DOMAIN spans : spans[i].seq # dec.seq
      BY <2>2 DEF Declared
    <3>3. n \in Nat \ {0} /\ \A i \in DOMAIN spans : i < n
      BY <1>0
    <3>4. list \in Seq(Span) /\ Len(list) = n /\ DOMAIN list = DOMAIN spans \cup {n} /\ list[n] = fresh
          /\ \A i \in DOMAIN spans : list[i] = spans[i]
      <4> HIDE DEF fresh
      <4> QED BY <3>1, <1>0
    <3>5. PlaceOf(list, dec.seq) = n
      <4>1. \A i \in DOMAIN list : list[i].seq = dec.seq <=> i = n
        BY <3>2, <3>3, <3>4
      <4> HIDE DEF list, n
      <4> QED BY <4>1, <3>4 DEF PlaceOf
    <3>6. spans' = [list EXCEPT ![n].start = queued]
      BY <3>5, <2>2, <1>1 DEF BeginSpan, Declare
    <3>7. [list[n] EXCEPT !.start = queued] = begun
      BY <3>4
    <3>8. spans' = [list EXCEPT ![n] = begun]
      BY <3>6, <3>7
    <3> HIDE DEF begun, list
    <3>9. spans' \in Seq(Span) /\ Len(spans') = n /\ DOMAIN spans' = DOMAIN spans \cup {n}
          /\ spans'[n] = begun
          /\ \A i \in DOMAIN spans : spans'[i] = spans[i]
      BY <3>8, <3>3, <3>4, <1>0, <1>2
    <3>10. \A i \in DOMAIN spans : Started(i)
      <4> SUFFICES ASSUME NEW i \in DOMAIN spans, ~Started(i) PROVE FALSE
        OBVIOUS
      <4>1. dec.seq = spans[1].seq /\ Len(spans) = 1
        BY <1>0 DEF Good, First
      <4>2. 1 \in DOMAIN spans
        BY <4>1, <1>0
      <4> QED BY <4>1, <4>2, <3>2
    <3>11. n \notin DOMAIN spans /\ \A i \in DOMAIN spans : i <= n
      BY <3>3, <1>0
    <3> HIDE DEF n
    <3> QED BY <3>3, <3>9, <3>10, <3>11
  <2> QED BY <2>1, <2>2
<1> HIDE DEF begun
<1>5. begun.seq = dec.seq /\ begun.start = queued /\ begun.frames = None /\ queued # None
  BY <1>0 DEF begun
<1>6. Types'
  BY <1>1, <1>4 DEF Good, Types
<1>7. \A i \in DOMAIN spans : spans'[i].seq = spans[i].seq
  <2> SUFFICES ASSUME NEW i \in DOMAIN spans, i = l PROVE spans[i].seq = dec.seq
    BY <1>4, <1>5
  <2>1. ~Started(i)
    BY <1>4
  <2>2. Len(spans) = 1 /\ dec.seq = spans[1].seq
    BY <2>1, <1>0 DEF Good, First
  <2>3. i = 1
    BY <2>2, <1>0
  <2> QED BY <2>2, <2>3
<1>8. Jobs'
  <2>1. \A i \in DOMAIN pending : pending[i].seq # dec.seq
    BY <1>0 DEF Good, Jobs
  <2>2. ASSUME NEW i \in DOMAIN spans', NEW j \in DOMAIN spans', spans'[i].seq = spans'[j].seq
        PROVE  i = j
    <3>1. \A k \in DOMAIN spans : k # l => spans[k].seq # dec.seq
      BY <1>3, <1>4
    <3> QED BY <3>1, <2>2, <1>4, <1>5, <1>7 DEF Good, Jobs
  <2>3. \A j \in DOMAIN spans' : spans'[j].seq < nextSeq
    BY <1>0, <1>4, <1>5, <1>7 DEF Good, Jobs
  <2>4. Calling => caller.seq # dec.seq
    BY <1>0 DEF Good, Jobs
  <2>5. \A j \in DOMAIN spans' : Calling => spans'[j].seq # caller.seq
    BY <2>4, <1>4, <1>5, <1>7 DEF Good, Jobs
  <2>6. \A i \in DOMAIN pending : \A j \in DOMAIN spans' : spans'[j].seq # pending[i].seq
    BY <2>1, <1>4, <1>5, <1>7 DEF Good, Jobs
  <2> QED BY <2>1, <2>2, <2>3, <2>4, <2>5, <2>6, <1>0, <1>1 DEF Good, Jobs, Calling
<1>9. First'
  <2>1. caller.pc \notin {"opening", "prepared", "failed"}
    BY <1>0 DEF Good, First
  <2>2. spans' # <<>> /\ \A i \in DOMAIN spans' : Started(i)'
    BY <1>4, <1>5
  <2> QED BY <2>1, <2>2, <1>1 DEF Good, First
<1>10. Popped' = Popped /\ Pushed' = Pushed
  BY <1>0, <1>1 DEF Popped, Held, Pushed
<1>11. \A i \in DOMAIN spans \ {l} : End(i)' = End(i)
  BY <1>4, <1>10 DEF End
<1>12. End(l)' = Pushed
  BY <1>4, <1>5, <1>10 DEF End
<1>13. Slices'
  <2>1. ASSUME NEW i \in DOMAIN spans', NEW j \in DOMAIN spans', i < j
        PROVE  spans'[i].frames # None /\ spans'[i].start + spans'[i].frames <= spans'[j].start
    <3>1. i \in DOMAIN spans \ {l} /\ spans'[i] = spans[i] /\ Started(i)
      BY <2>1, <1>0, <1>4
    <3>2. spans[i].frames # None
      BY <3>1, <1>3
    <3>3. CASE j = l
      <4>1. End(i) <= Pushed
        BY <3>1 DEF Good, Slices
      <4> QED BY <4>1, <3>1, <3>2, <3>3, <1>0, <1>4, <1>5 DEF End
    <3>4. CASE j # l
      BY <2>1, <3>1, <3>4, <1>4 DEF Good, Slices
    <3> QED BY <3>3, <3>4
  <2>2. \A i \in DOMAIN spans' : spans'[i].start <= queued /\ End(i)' <= Pushed
    <3> SUFFICES ASSUME NEW i \in DOMAIN spans' PROVE spans'[i].start <= queued /\ End(i)' <= Pushed
      OBVIOUS
    <3>1. CASE i = l
      BY <3>1, <1>0, <1>4, <1>5, <1>12
    <3>2. CASE i # l
      <4>1. i \in DOMAIN spans \ {l}
        BY <3>2, <1>4
      <4>2. Started(i) /\ spans'[i] = spans[i] /\ End(i)' = End(i)
        BY <4>1, <1>4, <1>11
      <4> QED BY <4>1, <4>2 DEF Good, Slices
    <3> QED BY <3>1, <3>2
  <2>3. spans' # <<>> /\ Len(spans') = l /\ spans'[l].start # None /\ spans'[l].seq = dec.seq
        /\ spans'[l].frames = None
    BY <1>4, <1>5
  <2> QED BY <2>1, <2>2, <2>3, <1>1, <1>10 DEF Slices
<1>14. Frames'
  <2>1. ASSUME NEW k \in DOMAIN ring
        PROVE  \E i \in DOMAIN spans' : /\ Started(i)' /\ ring[k] = spans'[i].seq
                 /\ spans'[i].start <= Popped + k - 1 /\ Popped + k - 1 < End(i)'
    <3>1. PICK i \in DOMAIN spans : /\ Started(i) /\ ring[k] = spans[i].seq
                                    /\ spans[i].start <= Popped + k - 1 /\ Popped + k - 1 < End(i)
      BY DEF Good, Frames
    <3>2. i # l
      BY <3>1, <1>4
    <3> QED BY <3>1, <3>2, <1>4, <1>11
  <2> QED BY <2>1, <1>1, <1>10 DEF Good, Frames
<1>15. Heard'
  <2>1. ASSUME NEW i \in DOMAIN spans'
        PROVE  heard[spans'[i].seq] = IF Popped <= spans'[i].start THEN 0
                             ELSE IF Popped <= End(i)' THEN Popped - spans'[i].start
                             ELSE End(i)' - spans'[i].start
    <3>1. CASE i = l
      <4>1. heard[dec.seq] = 0
        BY <1>0, <1>3 DEF Good, Heard
      <4>2. ring \in Seq(Seqs) /\ Pushed = Popped + Len(ring) /\ Popped \in Nat
        BY DEF Good, Types, Frames, Popped, Held, Callback
      <4>3. Popped <= queued
        BY <4>2, <1>0
      <4> QED BY <3>1, <4>1, <4>3, <1>4, <1>5
    <3>2. CASE i # l
      BY <3>2, <1>4, <1>11 DEF Good, Heard
    <3> QED BY <3>1, <3>2
  <2>2. ASSUME NEW s \in Seqs, \A i \in DOMAIN spans' : Started(i)' => spans'[i].seq # s
        PROVE  heard[s] = 0
    BY <2>2, <1>4, <1>7 DEF Good, Heard
  <2> QED BY <2>1, <2>2, <1>1, <1>10 DEF Heard
<1> QED BY <1>6, <1>8, <1>9, <1>13, <1>14, <1>15 DEF Good

LEMMA DecoderHolds == ASSUME Good, DecoderStep, ~stop PROVE Good'
<1>1. CASE DecoderLoop \/ Park \/ Claim \/ Write
  BY <1>1, DecoderMoves DEF DecoderLoop, Park, Claim, Write, core, decRest, Good, Types, Decoder,
     Decoding, Holding
<1>2. CASE NextPacket
  <2>1. CASE dec' = [dec EXCEPT !.pc = "close"]
    BY <1>2, <2>1, DecoderMoves DEF NextPacket, core, decRest, Good, Types, Decoder, Decoding, Holding
  <2>2. ASSUME NEW n \in 1..MaxPacket, dec' = [dec EXCEPT !.pc = "write", !.read = @ + n, !.left = n]
        PROVE  Good'
    <3>1. dec' \in Decoder
      <4>1. n \in Nat /\ dec.read + n \in Nat /\ dec \in Decoder
        BY AudioEngineAssumption DEF Good, Types, Decoder
      <4> QED BY <2>2, <4>1 DEF Decoder
    <3> QED BY <1>2, <2>2, <3>1, DecoderMoves DEF NextPacket, core, decRest, Good, Types, Decoder,
               Decoding, Holding
  <2> QED BY <1>2, <2>1, <2>2 DEF NextPacket
<1>3. CASE TakeJob \/ OpenLazy \/ BeginTrack \/ Push \/ CountQueued \/ CloseTrack
  BY <1>3, TakeStep, SkipStep, BeginStep, PushStep, CountQueuedStep, CloseStep
<1> QED BY <1>1, <1>2, <1>3 DEF DecoderStep

-----------------------------------------------------------------------------
(* The device callback.                                                    *)

\* How many of the frames a callback takes are of a slice.
LEMMA FramesOfSlice ==
  ASSUME Good, NEW take \in Nat, take <= Len(ring), NEW i \in DOMAIN spans, Started(i)
  PROVE  LET a == IF spans[i].start <= Popped THEN 1 ELSE spans[i].start - Popped + 1
             b == IF End(i) - Popped < take THEN End(i) - Popped ELSE take
         IN  Cardinality({k \in 1..take : ring[k] = spans[i].seq}) = IF a > b THEN 0 ELSE b - a + 1
<1> DEFINE a == IF spans[i].start <= Popped THEN 1 ELSE spans[i].start - Popped + 1
           b == IF End(i) - Popped < take THEN End(i) - Popped ELSE take
<1>1. /\ spans[i].start \in Nat /\ End(i) \in Nat /\ Popped \in Nat
  BY StartedSpan
<1>2. a \in Int /\ b \in Int /\ a >= 1 /\ b <= take
  BY <1>1
<1>3. \A k \in 1..take : (a <= k /\ k <= b) <=> (spans[i].start <= Popped + k - 1 /\ Popped + k - 1 < End(i))
  BY <1>1
<1>4. ASSUME NEW k \in 1..take
      PROVE  ring[k] = spans[i].seq <=> (spans[i].start <= Popped + k - 1 /\ Popped + k - 1 < End(i))
  <2>1. k \in DOMAIN ring /\ k \in Nat \ {0}
    BY DEF Good, Types
  <2>2. PICK j \in DOMAIN spans : /\ Started(j) /\ ring[k] = spans[j].seq
                                  /\ spans[j].start <= Popped + k - 1 /\ Popped + k - 1 < End(j)
    BY <2>1 DEF Good, Frames
  <2>3. ring[k] = spans[i].seq => i = j
    BY <2>2 DEF Good, Jobs
  <2>4. Popped + k - 1 \in Nat
    BY <1>1, <2>1
  <2>5. (spans[i].start <= Popped + k - 1 /\ Popped + k - 1 < End(i)) => i = j
    BY <2>2, <2>4, SlicesApart
  <2> QED BY <2>2, <2>3, <2>5
<1>5. {k \in 1..take : ring[k] = spans[i].seq} = a..b
  <2> HIDE DEF a, b
  <2>1. \A k \in 1..take : ring[k] = spans[i].seq <=> (a <= k /\ k <= b)
    BY <1>3, <1>4
  <2>2. \A k \in a..b : k \in 1..take
    BY <1>2
  <2> QED BY <2>1, <2>2, <1>2
<1> HIDE DEF a, b
<1>6. Cardinality(a..b) = IF a > b THEN 0 ELSE b - a + 1
  BY <1>2, FS_Interval
<1> QED BY <1>5, <1>6 DEF a, b

LEMMA PopStep == ASSUME Good, Pop PROVE Good'
<1> USE DEF Started
<1>0. PICK out \in 1..MaxOut :
        LET n == IF Len(ring) < out THEN Len(ring) ELSE out
        IN  /\ cb' = [cb EXCEPT !.pc = "count", !.given = n]
            /\ ring' = SubSeq(ring, n + 1, Len(ring))
            /\ heard' = [s \in Seqs |-> heard[s] + Cardinality({i \in 1..n : ring[i] = s})]
  BY DEF Pop
<1> DEFINE take == IF Len(ring) < out THEN Len(ring) ELSE out
<1>1. /\ ring \in Seq(Seqs) /\ Len(ring) \in Nat /\ Len(ring) <= Capacity /\ take \in Nat /\ take <= Len(ring)
      /\ cb \in Callback /\ cb.pc = "pop" /\ heard \in [Seqs -> Nat] /\ Capacity \in Nat
      /\ Popped = played /\ played \in Nat /\ spans \in Seq(Span)
  <2>1. /\ ring \in Seq(Seqs) /\ Len(ring) <= Capacity
        /\ cb \in Callback /\ cb.pc = "pop" /\ heard \in [Seqs -> Nat] /\ Capacity \in Nat
        /\ played \in Nat /\ spans \in Seq(Span) /\ MaxOut \in Nat
    BY AudioEngineAssumption DEF Good, Types, Pop
  <2>2. Popped = played
    BY <2>1 DEF Popped, Held
  <2>3. Len(ring) \in Nat /\ out \in Nat
    BY <2>1
  <2> QED BY <2>1, <2>2, <2>3
<1>2. /\ cb' = [cb EXCEPT !.pc = "count", !.given = take]
      /\ ring' = SubSeq(ring, take + 1, Len(ring))
      /\ heard' = [s \in Seqs |-> heard[s] + Cardinality({i \in 1..take : ring[i] = s})]
      /\ UNCHANGED <<played, queued, spans, pending, nextSeq, dec, caller>>
  BY <1>0 DEF Pop, cbRest
<1> HIDE DEF take
<1>3. cb' \in Callback /\ cb'.pc = "count" /\ cb'.given = take
  BY <1>1, <1>2 DEF Callback
<1>4. /\ ring' \in Seq(Seqs) /\ Len(ring') = Len(ring) - take
      /\ \A k \in 1..(Len(ring) - take) : ring'[k] = ring[k + take]
  BY <1>1, <1>2, SeqDrop
<1>5. Popped' = Popped + take /\ Pushed' = Pushed /\ \A i : End(i)' = End(i)
  BY <1>1, <1>2, <1>3 DEF Popped, Held, Pushed, End
<1>6. ASSUME NEW s \in Seqs
      PROVE  /\ heard'[s] \in Nat
             /\ heard'[s] = heard[s] + Cardinality({k \in 1..take : ring[k] = s})
  <2>1. IsFiniteSet(1..take)
    BY <1>1, FS_Interval
  <2>2. IsFiniteSet({k \in 1..take : ring[k] = s})
    BY <2>1, FS_Subset
  <2>3. Cardinality({k \in 1..take : ring[k] = s}) \in Nat
    BY <2>2, FS_CardinalityType
  <2> QED BY <2>3, <1>1, <1>2
<1>7. Types'
  <2>1. heard' \in [Seqs -> Nat]
    BY <1>2, <1>6
  <2>2. Len(ring') <= Capacity
    BY <1>1, <1>4
  <2> QED BY <2>1, <2>2, <1>2, <1>3, <1>4 DEF Good, Types
<1>8. Jobs' /\ First'
  BY <1>2 DEF Good, Jobs, First, Calling, Decoding, Holding
<1>9. Slices'
  BY <1>2, <1>5 DEF Good, Slices, Decoding
<1>10. Frames'
  <2>1. Pushed' = Popped' + Len(ring')
    BY <1>1, <1>4, <1>5 DEF Good, Frames
  <2>2. ASSUME NEW k \in DOMAIN ring'
        PROVE  \E i \in DOMAIN spans : /\ Started(i) /\ ring'[k] = spans[i].seq
                 /\ spans[i].start <= Popped' + k - 1 /\ Popped' + k - 1 < End(i)
    <3>1. k \in 1..(Len(ring) - take)
      BY <1>4
    <3>2. k + take \in DOMAIN ring /\ ring'[k] = ring[k + take] /\ Popped' + k - 1 = Popped + (k + take) - 1
      <4>1. k \in Nat /\ k + take \in 1..Len(ring)
        BY <3>1, <1>1
      <4>2. k + take \in DOMAIN ring
        BY <4>1, <1>1, SeqFacts
      <4>3. ring'[k] = ring[k + take]
        BY <3>1, <1>4
      <4>4. Popped \in Nat /\ Popped' = Popped + take
        BY <1>1, <1>5
      <4>5. Popped' + k - 1 = Popped + (k + take) - 1
        BY <4>1, <4>4, <1>1
      <4> QED BY <4>2, <4>3, <4>5
    <3> QED BY <3>2 DEF Good, Frames
  <2> QED BY <2>1, <2>2, <1>2, <1>5 DEF Good, Frames
<1>11. Heard'
  <2>1. ASSUME NEW i \in DOMAIN spans, Started(i)
        PROVE  heard'[spans[i].seq] = IF Popped' <= spans[i].start THEN 0
                             ELSE IF Popped' <= End(i) THEN Popped' - spans[i].start
                             ELSE End(i) - spans[i].start
    <3> DEFINE a == IF spans[i].start <= Popped THEN 1 ELSE spans[i].start - Popped + 1
               b == IF End(i) - Popped < take THEN End(i) - Popped ELSE take
    <3>1. heard[spans[i].seq] = IF Popped <= spans[i].start THEN 0
                             ELSE IF Popped <= End(i) THEN Popped - spans[i].start
                             ELSE End(i) - spans[i].start
      BY <2>1 DEF Good, Heard
    <3>2. spans[i].start \in Nat /\ End(i) \in Nat /\ Popped \in Nat /\ spans[i].seq \in Seqs
          /\ spans[i].start <= End(i)
      BY <2>1, StartedSpan
    <3>3. Cardinality({k \in 1..take : ring[k] = spans[i].seq}) = IF a > b THEN 0 ELSE b - a + 1
      BY <2>1, <1>1, FramesOfSlice
    <3>4. heard'[spans[i].seq] = heard[spans[i].seq] + IF a > b THEN 0 ELSE b - a + 1
      BY <3>2, <3>3, <1>6
    <3>5. a = (IF spans[i].start <= Popped THEN 1 ELSE spans[i].start - Popped + 1)
          /\ b = (IF End(i) - Popped < take THEN End(i) - Popped ELSE take)
      OBVIOUS
    <3> HIDE DEF a, b
    <3>6. (IF Popped + take <= spans[i].start THEN 0
           ELSE IF Popped + take <= End(i) THEN Popped + take - spans[i].start ELSE End(i) - spans[i].start)
          = (IF Popped <= spans[i].start THEN 0
             ELSE IF Popped <= End(i) THEN Popped - spans[i].start ELSE End(i) - spans[i].start)
            + (IF a > b THEN 0 ELSE b - a + 1)
      <4>1. take \in Nat
        BY <1>1
      <4> QED BY <3>2, <3>5, <4>1, HeardMore
    <3>7. heard'[spans[i].seq]
          = IF Popped + take <= spans[i].start THEN 0
            ELSE IF Popped + take <= End(i) THEN Popped + take - spans[i].start ELSE End(i) - spans[i].start
      <4>1. heard'[spans[i].seq] = (IF Popped <= spans[i].start THEN 0
             ELSE IF Popped <= End(i) THEN Popped - spans[i].start ELSE End(i) - spans[i].start)
            + (IF a > b THEN 0 ELSE b - a + 1)
        BY <3>1, <3>4
      <4> QED BY <4>1, <3>6
    <3>8. Popped' = Popped + take
      BY <1>5
    <3> QED BY <3>2, <3>7, <3>8, <1>1
  <2>2. ASSUME NEW s \in Seqs, \A i \in DOMAIN spans : Started(i) => spans[i].seq # s
        PROVE  heard'[s] = 0
    <3>1. \A k \in 1..take : ring[k] # s
      <4> SUFFICES ASSUME NEW k \in 1..take PROVE ring[k] # s
        OBVIOUS
      <4>1. k \in DOMAIN ring
        BY <1>1
      <4> QED BY <4>1, <2>2 DEF Good, Frames
    <3>2. {k \in 1..take : ring[k] = s} = {}
      BY <3>1
    <3>3. heard[s] = 0
      BY <2>2 DEF Good, Heard
    <3> QED BY <3>2, <3>3, <1>6, FS_EmptySet
  <2> QED BY <2>1, <2>2, <1>2, <1>5 DEF Heard
<1> QED BY <1>7, <1>8, <1>9, <1>10, <1>11 DEF Good

LEMMA CallbackHolds == ASSUME Good, CallbackStep PROVE Good'
<1>1. CASE CallbackRuns
  BY <1>1, CallbackMoves DEF CallbackRuns, cbRest, Good, Types, Callback, Popped, Held
<1>2. CASE Pop
  BY <1>2, PopStep
<1>3. CASE CountPlayed
  <2>1. /\ cb \in Callback /\ cb.given \in Nat /\ played \in Nat /\ cb.pc = "count"
        /\ played' = played + cb.given /\ cb' = [cb EXCEPT !.pc = "settle"]
        /\ UNCHANGED <<ring, queued, pending, spans, nextSeq, heard, dec, caller>>
    BY <1>3 DEF CountPlayed, cbRest, Good, Types, Callback
  <2>2. cb' \in Callback /\ cb'.pc = "settle"
    BY <2>1 DEF Callback
  <2>3. Popped' = Popped /\ played' \in Nat
    BY <2>1, <2>2 DEF Popped, Held
  <2> QED BY <2>1, <2>2, <2>3, CallbackMoves
<1>4. CASE Settle \/ StoreState
  <2>1. /\ cb' \in Callback /\ cb.pc # "count" /\ cb'.pc # "count"
        /\ UNCHANGED <<ring, played, queued, pending, spans, nextSeq, heard, dec, caller>>
    <3>1. cb \in Callback
      BY DEF Good, Types
    <3>2. CASE Settle
      BY <3>1, <3>2 DEF Settle, cbRest, Callback, PlayState
    <3>3. CASE StoreState
      BY <3>1, <3>3 DEF StoreState, cbRest, Callback
    <3> QED BY <1>4, <3>2, <3>3
  <2>2. Popped' = Popped /\ played' \in Nat
    BY <2>1 DEF Popped, Held, Good, Types
  <2> QED BY <2>1, <2>2, CallbackMoves
<1> QED BY <1>1, <1>2, <1>3, <1>4 DEF CallbackStep

-----------------------------------------------------------------------------
(* The specification.                                                      *)

\* Nobody takes the stop flag back.
LEMMA StopStays == ASSUME Next PROVE stop => stop'
BY DEF Next, CallerStep, CallerPlay, CallerPoll, CallerDrop, OpenSource, PlayPrepared, MarkBusy,
   MarkBuffering, SendPrepared, SendLazy, Send, PauseStore, ResumeStore, PollIdle, PollRing,
   PollQueue, Poll, TakeError, KeepEngine, ClearRing, CloseStream, JoinDecoder, Enqueue, PauseLoad, ResumeLoad, Drop,
   DecoderStep, DecoderLoop, TakeJob, Park, OpenLazy, Claim, BeginTrack, NextPacket, Write, Push,
   CountQueued, CloseTrack, CallbackStep, CallbackRuns, Pop, CountPlayed, Settle, StoreState,
   callerRest, decRest, cbRest, shared

\* Every step keeps the invariant.
LEMMA StepHolds == EngineInv /\ [Next]_vars => EngineInv'
<1> SUFFICES ASSUME EngineInv, [Next]_vars, ~stop' PROVE Good'
  BY DEF EngineInv
<1>1. ~stop
  BY StopStays DEF vars, shared
<1>2. Good
  BY <1>1 DEF EngineInv
<1>3. CASE Next
  BY <1>1, <1>2, <1>3, CallerHolds, DecoderHolds, CallbackHolds DEF Next
<1>4. CASE UNCHANGED vars
  <2>1. UNCHANGED <<core, cb, caller, dec>>
    BY <1>4 DEF vars, shared, core
  <2>2. Popped' = Popped /\ Pushed' = Pushed /\ \A i : End(i)' = End(i)
    BY <2>1 DEF core, Popped, Held, Pushed, End
  <2>3. Types' /\ Jobs' /\ First'
    BY <1>2, <2>1 DEF core, Good, Types, Jobs, First, Calling, Decoding, Holding, Started
  <2>4. Slices' /\ Frames' /\ Heard'
    BY <1>2, <2>1, <2>2 DEF core, Good, Slices, Frames, Heard, Decoding, Started
  <2> QED BY <2>3, <2>4 DEF Good
<1> QED BY <1>3, <1>4

LEMMA EngineHolds == Spec => []EngineInv
BY InitHolds, StepHolds, PTL DEF Spec

(* The scrobble's arithmetic (played_ms_of, frames_played, write_all): the  *)
(* played time the counters give for a slice is the number of its frames    *)
(* the device was given, for every ring, packet and buffer size.            *)
THEOREM PlayedHolds == Spec => []PlayedOfIsHeard
<1>1. EngineInv => PlayedOfIsHeard
  <2> SUFFICES ASSUME EngineInv, Settled, NEW i \in DOMAIN spans PROVE PlayedOf(i) = heard[spans[i].seq]
    BY DEF PlayedOfIsHeard
  <2>1. Good /\ Popped = played /\ played \in Nat
    BY DEF EngineInv, Settled, Popped, Held, Good, Types
  <2>2. CASE ~Started(i)
    <3>1. spans[i].seq \in Seqs
      <4>1. spans[i] \in Span
        BY <2>1 DEF Good, Types
      <4> QED BY <4>1 DEF Span
    <3>2. \A j \in DOMAIN spans : Started(j) => spans[j].seq # spans[i].seq
      BY <2>1, <2>2 DEF Good, Jobs
    <3>3. heard[spans[i].seq] = 0
      BY <3>1, <3>2, <2>1 DEF Good, Heard
    <3> QED BY <3>3, <2>2 DEF PlayedOf
  <2>3. CASE Started(i)
    <3>1. heard[spans[i].seq] = IF played <= spans[i].start THEN 0
                             ELSE IF played <= End(i) THEN played - spans[i].start
                             ELSE End(i) - spans[i].start
      BY <2>1, <2>3 DEF Good, Heard
    <3>2. spans[i].start \in Nat /\ End(i) \in Nat /\ spans[i].frames \in Nat \cup {None}
      BY <2>1, <2>3, StartedSpan
    <3>3. CASE spans[i].frames = None
      <4>1. played <= End(i)
        <5>1. ring \in Seq(Seqs) /\ Pushed = played + Len(ring)
          BY <2>1 DEF Good, Types, Frames
        <5> QED BY <5>1, <3>3, <2>1 DEF End
      <4> QED BY <3>1, <3>2, <3>3, <4>1, <2>1, <2>3 DEF PlayedOf
    <3>4. CASE spans[i].frames # None
      <4>1. End(i) = spans[i].start + spans[i].frames /\ spans[i].frames \in Nat
        BY <3>2, <3>4 DEF End
      <4> QED BY <3>1, <3>2, <3>4, <4>1, <2>1, <2>3 DEF PlayedOf
    <3> QED BY <3>3, <3>4
  <2> QED BY <2>2, <2>3
<1> QED BY <1>1, EngineHolds, PTL

LEMMA CurrentIs ==
  ASSUME Good, NEW i \in DOMAIN spans, Reached(i), \A j \in DOMAIN spans : Reached(j) => j <= i
  PROVE  CurrentSpan = i /\ CurrentSeq = spans[i].seq
<1> DEFINE reached == {j \in DOMAIN spans : Reached(j)}
<1>1. spans \in Seq(Span) /\ \A j \in DOMAIN spans : j \in Nat
  BY DEF Good, Types
<1>2. i \in reached /\ \A j \in reached : j <= i
  OBVIOUS
<1>3. \A k \in reached : (\A j \in reached : j <= k) => k = i
  BY <1>1, <1>2
<1>4. CurrentSpan = i
  BY <1>2, <1>3 DEF CurrentSpan
<1>5. i # None
  BY <1>1, AudioEngineAssumption
<1> QED BY <1>4, <1>5 DEF CurrentSeq

(* The transition the player reads off current_seq comes with the first     *)
(* frame of the new track: the frame the output plays next belongs to it,   *)
(* and every track before it was decoded to its end and heard to its last   *)
(* frame.                                                                   *)
THEOREM TransitionHolds == Spec => []TransitionOnTime
<1>1. EngineInv => NextFrameIsCurrent
  <2> SUFFICES ASSUME EngineInv, Settled, ring # <<>> PROVE CurrentSeq = Head(ring)
    BY DEF NextFrameIsCurrent
  <2>1. Good /\ Popped = played /\ played \in Nat /\ ring \in Seq(Seqs)
    BY DEF EngineInv, Settled, Popped, Held, Good, Types
  <2>2. 1 \in DOMAIN ring /\ Head(ring) = ring[1] /\ played + 1 - 1 = played
    BY <2>1
  <2>3. PICK i \in DOMAIN spans : /\ Started(i) /\ ring[1] = spans[i].seq
                                  /\ spans[i].start <= played /\ played < End(i)
    BY <2>1, <2>2 DEF Good, Frames
  <2>4. ASSUME NEW j \in DOMAIN spans, Reached(j) PROVE j <= i
    <3>1. i \in Nat /\ j \in Nat
      BY <2>1 DEF Good, Types
    <3>2. spans[j].start \in Nat /\ spans[j].start <= played /\ End(i) \in Nat
      BY <2>1, <2>3, <2>4, StartedSpan DEF Reached
    <3>3. ~(i < j)
      <4> SUFFICES ASSUME i < j PROVE FALSE
        OBVIOUS
      <4>1. spans[i].frames # None /\ spans[i].start + spans[i].frames <= spans[j].start
        BY <2>1 DEF Good, Slices
      <4>2. End(i) <= spans[j].start
        BY <4>1 DEF End
      <4> QED BY <4>2, <3>2, <2>1, <2>3
    <3> QED BY <3>1, <3>3
  <2> QED BY <2>1, <2>2, <2>3, <2>4, CurrentIs DEF Reached
<1>2. EngineInv => TransitionNotEarly
  <2> SUFFICES ASSUME EngineInv, ~stop, NEW i \in DOMAIN spans, CurrentSpan # None, Started(i),
                      i < CurrentSpan
               PROVE  spans[i].frames # None /\ heard[spans[i].seq] = spans[i].frames
    BY DEF TransitionNotEarly
  <2>1. Good
    BY DEF EngineInv
  <2> DEFINE reached == {k \in DOMAIN spans : Reached(k)}
  <2>2. PICK j \in DOMAIN spans : Reached(j) /\ i < j
    <3>1. reached # {} /\ CurrentSpan = CHOOSE k \in reached : \A m \in reached : m <= k
      BY DEF CurrentSpan
    <3>2. \E k \in reached : \A m \in reached : m <= k
      <4>1. reached \in SUBSET Nat /\ \A m \in reached : m <= Len(spans)
        BY <2>1 DEF Good, Types
      <4>2. Len(spans) \in Nat
        BY <2>1 DEF Good, Types
      <4> HIDE DEF reached
      <4> QED BY <3>1, <4>1, <4>2, Largest
    <3>3. CurrentSpan \in reached
      BY <3>1, <3>2
    <3> QED BY <3>3
  <2>3. spans[i].frames # None /\ spans[i].start + spans[i].frames <= spans[j].start
    BY <2>1, <2>2 DEF Good, Slices
  <2>4. /\ spans[i].start \in Nat /\ spans[i].frames \in Nat /\ End(i) = spans[i].start + spans[i].frames
        /\ spans[j].start \in Nat /\ spans[j].start <= played /\ played \in Nat
    BY <2>1, <2>2, <2>3, StartedSpan DEF Reached, End, Good, Types
  <2>5. Popped \in Nat /\ played <= Popped
    BY <2>1 DEF Popped, Held, Good, Types, Callback
  <2>6. heard[spans[i].seq] = IF Popped <= spans[i].start THEN 0
                             ELSE IF Popped <= End(i) THEN Popped - spans[i].start
                             ELSE End(i) - spans[i].start
    BY <2>1 DEF Good, Heard
  <2> QED BY <2>3, <2>4, <2>5, <2>6
<1> QED BY <1>1, <1>2, EngineHolds, PTL DEF TransitionOnTime

=============================================================================
