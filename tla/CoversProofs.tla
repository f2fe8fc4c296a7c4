---------------------------- MODULE CoversProofs ----------------------------
(***************************************************************************)
(* What is proved of the covers: the worker that looks for them (Covers),  *)
(* the files they are kept in (CoverStore), the chain of links it asks     *)
(* (CoverChain), and the spacing of the calls that every lookup makes      *)
(* (Lookups).                                                              *)
(*                                                                         *)
(* Covers is extended. The other specifications are the instances of       *)
(* MCCovers and MCLookups, with constants and variables of their own. They *)
(* are not composed - a theorem speaks of one specification - and every    *)
(* assumption on constants is a hypothesis of the theorem that needs it.   *)
(*                                                                         *)
(* Each part goes the same way: the inductive invariant, the lemmas about  *)
(* the operators the specification is built from, a lemma for each step,   *)
(* the theorems.                                                           *)
(***************************************************************************)
EXTENDS MCCovers, MCLookups, FiniteSetTheorems, SequenceTheorems, WellFoundedInduction, NaturalsInduction, TLAPS

---------------------------------------------------------------------------
(* The cover worker. Retain: what SelectSeq makes of a list, told by the   *)
(* places it selects.                                                      *)

Rises(f, n) == \A a, b \in 1..n : a < b => f[a] < f[b]

\* Numbers have a smallest one: every induction below is by a smallest
\* counterexample.
LEMMA Smallest ==
  ASSUME NEW T, T \subseteq Nat, T # {}
  PROVE  \E x \in T : \A y \in T : x <= y
<1>1. PICK x \in T : \A y \in T : ~(<<y, x>> \in OpToRel(<, Nat))
  BY NatLessThanWellFounded, WFMin
<1>2. \A y \in T : ~(y < x)
  BY <1>1 DEF OpToRel
<1> QED BY <1>2

\* A finite set of numbers can be listed in order, ...
LEMMA InOrderExists ==
  ASSUME NEW P, P \subseteq Nat, IsFiniteSet(P)
  PROVE  \E f \in [1..Cardinality(P) -> P] : Rises(f, Cardinality(P))
<1> DEFINE upTo(x) == {y \in P : y <= x}
           N == Cardinality(P)
           rank == [x \in P |-> Cardinality(upTo(x))]
<1>1. N \in Nat
  BY FS_CardinalityType
<1>2. ASSUME NEW x \in P PROVE rank[x] \in 1..N
  <2>1. upTo(x) \in SUBSET P /\ x \in upTo(x)
    OBVIOUS
  <2>2. IsFiniteSet(upTo(x)) /\ Cardinality(upTo(x)) <= N
    BY <2>1, FS_Subset
  <2>3. Cardinality(upTo(x)) \in Nat /\ Cardinality(upTo(x)) # 0
    BY <2>1, <2>2, FS_CardinalityType, FS_EmptySet
  <2> QED BY <1>1, <2>2, <2>3
<1>3. ASSUME NEW x \in P, NEW y \in P, x < y PROVE rank[x] < rank[y]
  <2>0. x \in Nat /\ y \in Nat /\ ~(y <= x) /\ \A z \in Nat : z <= x => z <= y
    BY <1>3
  <2>a. \A z \in upTo(x) : z \in upTo(y)
    BY <2>0
  <2>1. upTo(y) \in SUBSET P /\ upTo(x) \in SUBSET upTo(y) /\ y \in upTo(y) /\ y \notin upTo(x)
    <3>1. upTo(y) \in SUBSET P /\ y \in upTo(y) /\ y \notin upTo(x)
      BY <2>0
    <3>2. upTo(x) \in SUBSET upTo(y)
      BY <2>a
    <3> QED BY <3>1, <3>2
  <2>2. IsFiniteSet(upTo(y))
    BY <2>1, FS_Subset
  <2>3. Cardinality(upTo(x)) <= Cardinality(upTo(y)) /\ Cardinality(upTo(y)) # Cardinality(upTo(x))
    BY <2>1, <2>2, FS_Subset
  <2>4. rank[x] \in 1..N /\ rank[y] \in 1..N
    BY <1>2
  <2> QED BY <1>1, <2>3, <2>4
<1>4. rank \in Injection(P, 1..N)
  <2>1. rank \in [P -> 1..N]
    BY <1>2
  <2>2. IsInjective(rank)
    <3> SUFFICES ASSUME NEW a \in P, NEW b \in P, rank[a] = rank[b] PROVE a = b
      BY DEF IsInjective
    <3>1. ~(a < b) /\ ~(b < a)
      BY <1>1, <1>2, <1>3
    <3> QED BY <3>1
  <2> QED BY <2>1, <2>2 DEF Injection
<1>5. IsFiniteSet(1..N) /\ Cardinality(1..N) = N
  BY <1>1, FS_Interval
<1>6. rank \in Surjection(P, 1..N)
  BY <1>4, <1>5, FS_Injection
<1>7. \A n \in 1..N : \E x \in P : rank[x] = n
  BY <1>6 DEF Surjection
<1> DEFINE f == [n \in 1..N |-> CHOOSE x \in P : rank[x] = n]
<1>8. \A n \in 1..N : f[n] \in P /\ rank[f[n]] = n
  BY <1>7
<1>9. f \in [1..N -> P]
  BY <1>8
<1> HIDE DEF f, rank
<1>10. ASSUME NEW a \in 1..N, NEW b \in 1..N, a < b PROVE f[a] < f[b]
  <2>1. f[a] \in P /\ f[b] \in P /\ rank[f[a]] = a /\ rank[f[b]] = b
    BY <1>8
  <2>2. f[a] # f[b] /\ ~(f[b] < f[a])
    <3>1. f[b] < f[a] => rank[f[b]] < rank[f[a]]
      BY <1>3, <2>1
    <3> QED BY <1>10, <2>1, <3>1
  <2>3. f[a] \in Nat /\ f[b] \in Nat
    BY <2>1
  <2> QED BY <2>2, <2>3
<1> QED BY <1>9, <1>10 DEF Rises

\* ... and such a list has each of them once.
LEMMA InOrderIsAll ==
  ASSUME NEW P, P \subseteq Nat, IsFiniteSet(P),
         NEW f \in [1..Cardinality(P) -> P], Rises(f, Cardinality(P))
  PROVE  /\ \A a, b \in 1..Cardinality(P) : f[a] = f[b] => a = b
         /\ \A x \in P : \E a \in 1..Cardinality(P) : f[a] = x
<1> DEFINE N == Cardinality(P)
<1>1. N \in Nat
  BY FS_CardinalityType
<1>2. \A a, b \in 1..N : f[a] = f[b] => a = b
  <2> SUFFICES ASSUME NEW a \in 1..N, NEW b \in 1..N, f[a] = f[b] PROVE a = b
    OBVIOUS
  <2>1. f[a] \in Nat /\ f[b] \in Nat
    OBVIOUS
  <2>2. ~(a < b) /\ ~(b < a)
    BY <2>1 DEF Rises
  <2> QED BY <1>1, <2>2
<1>3. f \in Injection(1..N, P)
  BY <1>2 DEF Injection, IsInjective
<1>4. IsFiniteSet(1..N) /\ Cardinality(1..N) = N
  BY <1>1, FS_Interval
<1>5. f \in Surjection(1..N, P)
  BY <1>3, <1>4, FS_Injection
<1> QED BY <1>2, <1>5 DEF Surjection

\* What is retained: the wanted elements, in their order, each as often as it
\* was there.
LEMMA RetainIs ==
  ASSUME NEW S, NEW list \in Seq(S), NEW wanted
  PROVE  /\ Retain(list, wanted) \in Seq(S)
         /\ ToSet(Retain(list, wanted)) = ToSet(list) \cap wanted
         /\ IsInjective(list) => IsInjective(Retain(list, wanted))
<1> DEFINE P == {i \in DOMAIN list : list[i] \in wanted}
           N == Cardinality(P)
           nth == CHOOSE f \in [1..N -> P] : Rises(f, N)
<1>1. DOMAIN list = 1..Len(list) /\ Len(list) \in Nat
  BY LenProperties
<1>2. P \subseteq Nat /\ IsFiniteSet(P) /\ N \in Nat
  <2>1. IsFiniteSet(1..Len(list)) /\ P \in SUBSET (1..Len(list))
    BY <1>1, FS_Interval
  <2> QED BY <1>1, <2>1, FS_Subset, FS_CardinalityType
<1>3. nth \in [1..N -> P] /\ Rises(nth, N)
  BY <1>2, InOrderExists
<1>4. Retain(list, wanted) = [n \in 1..N |-> list[nth[n]]]
  BY DEF Retain, Rises
<1> HIDE DEF nth
<1>5. /\ \A a, b \in 1..N : nth[a] = nth[b] => a = b
      /\ \A x \in P : \E a \in 1..N : nth[a] = x
  BY <1>2, <1>3, InOrderIsAll
<1>6. \A n \in 1..N : nth[n] \in DOMAIN list /\ list[nth[n]] \in wanted /\ list[nth[n]] \in S
  BY <1>1, <1>3, ElementOfSeq
<1>7. Retain(list, wanted) \in Seq(S)
  BY <1>2, <1>4, <1>6
<1>8. ToSet(Retain(list, wanted)) = ToSet(list) \cap wanted
  <2>1. \A x : x \in ToSet(Retain(list, wanted)) <=> \E n \in 1..N : x = list[nth[n]]
    BY <1>4 DEF ToSet
  <2>2. \A x : x \in ToSet(list) <=> \E i \in DOMAIN list : x = list[i]
    BY DEF ToSet
  <2> QED BY <1>3, <1>5, <1>6, <2>1, <2>2
<1>9. ASSUME IsInjective(list) PROVE IsInjective(Retain(list, wanted))
  <2>1. \A a, b \in DOMAIN list : list[a] = list[b] => a = b
    BY <1>9 DEF IsInjective
  <2>2. \A a, b \in 1..N : list[nth[a]] = list[nth[b]] => a = b
    BY <1>5, <1>6, <2>1
  <2> QED BY <1>4, <2>2 DEF IsInjective
<1> QED BY <1>7, <1>8, <1>9

---------------------------------------------------------------------------
(* The cover worker: what its thread, the core thread and the queues agree *)
(* on between two steps.                                                   *)

Asking == thread.pc \in {"resolving", "linking", "merging", "writing", "answering"}

\* What the core thread is about to hand over.
Handing ==
  /\ core.pc \in {"asking", "handing"} =>
       generation < MaxQueues /\ core.position <= Len(core.queue)
  /\ core.pc = "handing" =>
       /\ DOMAIN core.known = DOMAIN core.queue
       /\ \A i \in DOMAIN core.queue : core.known[i] \in Known \cup {"pending"}
       /\ \A i, j \in DOMAIN core.queue :
            core.queue[i] = core.queue[j] => core.known[i] = core.known[j]

\* The providers the chain asks are the queue's, or wait to be picked up.
Linked ==
  /\ registry \in {0, generation}
  /\ registry = 0 => thread.links = generation

\* What the worker looks up, for which queue and with whose providers.
Looking ==
  /\ Asking => /\ thread.links = thread.generation /\ thread.generation <= generation
               /\ thread.album \in Album
  /\ Asking /\ thread.generation = generation =>
       thread.row \in DOMAIN rows /\ rows[thread.row].album = thread.album
  /\ thread.pc \in {"merging", "writing"} => thread.status \in Known
  /\ thread.pc = "answering" => thread.status \in Known \cup {"failed"}

Listed == Len(rows) <= MaxRows /\ ToSet(todo) \subseteq DOMAIN rows

WorkerInv ==
  CoversAssumption /\ TypeOK /\ Handing /\ Linked /\ Looking /\ Listed /\ NoRowIsForgotten

---------------------------------------------------------------------------
(* The cover worker: the steps.                                            *)

LEMMA WorkerInit == CoversAssumption /\ Init => WorkerInv
<1> SUFFICES ASSUME CoversAssumption, Init PROVE WorkerInv
  OBVIOUS
<1>0. 0 \in 0..MaxQueues /\ 0 \in 0..MaxRows /\ 0 \in 0..MaxOther
  BY DEF CoversAssumption
<1>1. rows = <<>> /\ todo = <<>> /\ DOMAIN rows = {} /\ DOMAIN todo = {} /\ Len(rows) = 0
  BY DEF Init
<1>2. <<>> \in Seq(Row) /\ <<>> \in Seq(1..MaxRows)
  OBVIOUS
<1>3. Empty \in Index
  BY DEF Empty, Index
<1>4. <<>> \in [1..0 -> Album] /\ <<>> \in [1..0 -> Status]
  OBVIOUS
<1>5. core \in Core
  BY <1>0, <1>4 DEF Init, Core, Queues
<1>6. thread \in Thread
  BY <1>0, <1>3 DEF Init, Thread, Status
<1>7. TypeOK
  BY <1>0, <1>1, <1>2, <1>3, <1>5, <1>6 DEF Init, TypeOK
<1>8. Handing /\ Linked /\ Looking
  BY DEF Init, Handing, Linked, Looking, Asking
<1>9. Listed
  BY <1>0, <1>1 DEF Listed, ToSet
<1>10. NoRowIsForgotten
  BY <1>1 DEF NoRowIsForgotten, AnswersAreThisQueues, SameAlbumSameAnswer, PendingIsWorkedOn,
              SettledIsTold, IsInjective
<1> QED BY <1>7, <1>8, <1>9, <1>10 DEF WorkerInv

\* Records stay records.
LEMMA ThreadSets ==
  ASSUME NEW t \in Thread, NEW s \in Status, NEW r \in Index, NEW l \in 0..MaxQueues,
         NEW pc \in {"looking", "asleep", "resolving", "linking", "merging", "writing",
                     "answering", "gone"}
  PROVE  /\ [t EXCEPT !.pc = pc] \in Thread
         /\ [t EXCEPT !.pc = pc, !.status = s] \in Thread
         /\ [t EXCEPT !.pc = pc, !.read = r] \in Thread
         /\ [t EXCEPT !.pc = pc, !.status = s, !.read = r] \in Thread
         /\ [t EXCEPT !.pc = pc, !.links = l] \in Thread
<1>1. [t EXCEPT !.pc = pc] \in Thread
  BY DEF Thread
<1>2. [t EXCEPT !.pc = pc, !.status = s] \in Thread
  BY DEF Thread
<1>3. [t EXCEPT !.pc = pc, !.read = r] \in Thread
  BY DEF Thread
<1>4. [t EXCEPT !.pc = pc, !.status = s, !.read = r] \in Thread
  BY DEF Thread
<1>5. [t EXCEPT !.pc = pc, !.links = l] \in Thread
  BY DEF Thread
<1> QED BY <1>1, <1>2, <1>3, <1>4, <1>5

\* Whether an answer is announced, and who works on what, is not touched by
\* steps that leave the rows and the list of work alone.
LEMMA NothingForgotten ==
  ASSUME WorkerInv, UNCHANGED <<rows, todo, generation>>,
         \A i \in DOMAIN rows : BeingAsked(i)' <=> BeingAsked(i),
         \A i \in DOMAIN rows :
           Settled(i) /\ (i \in shown \/ owed \/ rows[i].album \in ready) =>
             (i \in shown' \/ owed' \/ rows[i].album \in ready')
  PROVE  NoRowIsForgotten'
<1>0. NoRowIsForgotten /\ \A i : Settled(i)' <=> Settled(i)
  BY DEF WorkerInv, Settled
<1>1. AnswersAreThisQueues' /\ SameAlbumSameAnswer'
  BY <1>0 DEF NoRowIsForgotten, AnswersAreThisQueues, SameAlbumSameAnswer
<1>2. PendingIsWorkedOn'
  BY <1>0 DEF NoRowIsForgotten, PendingIsWorkedOn
<1>3. SettledIsTold'
  BY <1>0 DEF NoRowIsForgotten, SettledIsTold
<1> QED BY <1>1, <1>2, <1>3 DEF NoRowIsForgotten

LEMMA SubmitStep == WorkerInv /\ Submit => WorkerInv'
<1> SUFFICES ASSUME WorkerInv, Submit PROVE WorkerInv'
  OBVIOUS
<1>0. TypeOK /\ CoversAssumption
  BY DEF WorkerInv
<1>1. UNCHANGED <<coreRest, generation, rows, todo, registry, thread, telling>>
  BY DEF Submit
<1> PICK q \in Queues, p \in 0..MaxRows :
      /\ p < Len(q) \/ p = 0
      /\ core' = [pc |-> "asking", queue |-> q, position |-> p, known |-> <<>>]
  BY DEF Submit
<1>2. <<>> \in UNION {[1..n -> Status] : n \in 0..MaxRows}
  <2>1. <<>> \in [1..0 -> Status] /\ 0 \in 0..MaxRows
    BY <1>0 DEF CoversAssumption
  <2> QED BY <2>1
<1>3. core' \in Core
  BY <1>2 DEF Core
<1>4. entries' \in Index
  BY <1>0 DEF Submit, TypeOK
<1>5. TypeOK'
  BY <1>0, <1>1, <1>3, <1>4 DEF TypeOK, coreRest, telling
<1>6. Handing'
  <2>1. Len(q) \in Nat
    BY DEF Queues
  <2>2. generation < MaxQueues
    BY DEF Submit
  <2> QED BY <1>1, <2>1, <2>2 DEF Handing
<1>7. Linked' /\ Looking' /\ Listed'
  BY <1>1 DEF WorkerInv, Linked, Looking, Listed, Asking
<1>8. NoRowIsForgotten'
  BY <1>1, NothingForgotten DEF BeingAsked, telling, coreRest
<1> QED BY <1>0, <1>5, <1>6, <1>7, <1>8 DEF WorkerInv

LEMMA AskKnownStep == WorkerInv /\ AskKnown => WorkerInv'
<1> SUFFICES ASSUME WorkerInv, AskKnown PROVE WorkerInv'
  OBVIOUS
<1>0. TypeOK /\ CoversAssumption /\ core.pc = "asking"
  BY DEF WorkerInv, AskKnown
<1>1. UNCHANGED <<coreRest, generation, rows, todo, registry, entries, thread, telling>>
  BY DEF AskKnown
<1> DEFINE known == [i \in DOMAIN core.queue |-> KnownStatus(core.queue[i])]
<1>2. core' = [core EXCEPT !.pc = "handing", !.known = known]
  BY DEF AskKnown
<1>3. PICK n \in 0..MaxRows : core.queue \in [1..n -> Album]
  BY <1>0 DEF TypeOK, Core, Queues
<1>4. \A a : KnownStatus(a) \in Known \cup {"pending"}
  BY DEF KnownStatus
<1>5. known \in [1..n -> Known \cup {"pending"}] /\ known \in [1..n -> Status]
  BY <1>3, <1>4 DEF Status
<1>6. \A i, j \in DOMAIN core.queue : core.queue[i] = core.queue[j] => known[i] = known[j]
  OBVIOUS
<1>7. DOMAIN known = DOMAIN core.queue
  OBVIOUS
<1> HIDE DEF known
<1>8. /\ core' \in Core /\ core'.queue = core.queue /\ core'.position = core.position
      /\ core'.known = known /\ core'.pc = "handing"
  BY <1>0, <1>2, <1>5 DEF TypeOK, Core
<1>9. TypeOK'
  BY <1>0, <1>1, <1>8 DEF TypeOK, coreRest, telling
<1>10. Handing'
  BY <1>0, <1>1, <1>3, <1>5, <1>6, <1>7, <1>8 DEF WorkerInv, Handing
<1>11. Linked' /\ Looking' /\ Listed'
  BY <1>1 DEF WorkerInv, Linked, Looking, Listed, Asking
<1>12. NoRowIsForgotten'
  BY <1>1, NothingForgotten DEF BeingAsked, telling, coreRest
<1> QED BY <1>0, <1>9, <1>10, <1>11, <1>12 DEF WorkerInv

LEMMA TellingSteps == WorkerInv /\ (Drain \/ Report \/ Quit) => WorkerInv'
<1> SUFFICES ASSUME WorkerInv, Drain \/ Report \/ Quit PROVE WorkerInv'
  OBVIOUS
<1>0. TypeOK /\ CoversAssumption /\ core.pc = "free" /\ UNCHANGED <<rows, todo, generation, registry>>
  BY DEF WorkerInv, Drain, Report, Quit, state
<1>1. /\ thread' \in Thread /\ thread'.links = thread.links /\ thread'.generation = thread.generation
      /\ thread'.row = thread.row /\ thread'.album = thread.album /\ thread'.status = thread.status
      /\ thread'.pc = thread.pc \/ (thread'.pc = "looking" /\ thread.pc = "asleep")
  <2>1. CASE Drain \/ Report
    BY <1>0, <2>1 DEF Drain, Report, TypeOK
  <2>2. CASE Quit
    BY <1>0, <2>2 DEF Quit, Woken, TypeOK, Thread
  <2> QED BY <2>1, <2>2
<1>2. core' \in Core /\ core'.pc \in {"free", "quit"}
  BY <1>0 DEF Drain, Report, Quit, TypeOK, Core
<1>3. Len(rows) \in Nat /\ DOMAIN rows = 1..Len(rows) /\ Len(rows) <= MaxRows /\ MaxRows \in Nat
  BY <1>0, LenProperties DEF TypeOK, WorkerInv, Listed, CoversAssumption
<1>4. shown' \in SUBSET (1..MaxRows)
  BY <1>0, <1>3 DEF Drain, Report, Quit, TypeOK, telling
<1>5. ready' \in SUBSET Album /\ stop' \in BOOLEAN /\ owed' \in BOOLEAN /\ UNCHANGED <<cache, writes>>
  BY <1>0 DEF Drain, Report, Quit, TypeOK, telling, state
<1>6. TypeOK'
  BY <1>0, <1>1, <1>2, <1>4, <1>5 DEF TypeOK, cache
<1>7. Handing'
  BY <1>2 DEF Handing
<1>8. Linked' /\ Listed'
  BY <1>0, <1>1 DEF WorkerInv, Linked, Listed
<1>9. Looking'
  BY <1>0, <1>1 DEF WorkerInv, Looking, Asking
<1>10. NoRowIsForgotten'
  <2>1. \A i \in DOMAIN rows : BeingAsked(i)' <=> BeingAsked(i)
    BY <1>0, <1>1 DEF BeingAsked
  <2>2. CASE Drain
    BY <1>0, <2>1, <2>2, NothingForgotten DEF Drain
  <2>3. CASE Report
    BY <1>0, <2>1, <2>3, NothingForgotten DEF Report, state
  <2>4. CASE Quit
    BY <1>0, <2>1, <2>4, NothingForgotten DEF Quit, telling
  <2> QED BY <2>2, <2>3, <2>4
<1> QED BY <1>0, <1>6, <1>7, <1>8, <1>9, <1>10 DEF WorkerInv

\* The order of work has every row once.
LEMMA WorkOrderIs ==
  ASSUME NEW n \in Nat, NEW p \in 0..n
  PROVE  /\ WorkOrder(n, p) \in Seq(1..n) /\ ToSet(WorkOrder(n, p)) = 1..n
         /\ IsInjective(WorkOrder(n, p))
<1> DEFINE first == [i \in 1..(n - p) |-> p + i]
           then == [i \in 1..p |-> i]
           order == first \o then
<1>1. first \in Seq(1..n) /\ then \in Seq(1..n) /\ Len(first) = n - p /\ Len(then) = p
  OBVIOUS
<1>2. /\ order \in Seq(1..n) /\ Len(order) = n
      /\ \A i \in 1..n : order[i] = IF i <= n - p THEN p + i ELSE i - (n - p)
  <2>1. order \in Seq(1..n) /\ Len(order) = n
    BY <1>1, ConcatProperties
  <2>2. \A i \in 1..n : order[i] = IF i <= n - p THEN first[i] ELSE then[i - (n - p)]
    BY <1>1, ConcatProperties
  <2> QED BY <2>1, <2>2
<1>3. WorkOrder(n, p) = order
  BY DEF WorkOrder
<1> HIDE DEF first, then, order
<1>4. DOMAIN order = 1..n
  BY <1>2, LenProperties
<1>5. IsInjective(order)
  <2>1. ASSUME NEW a \in 1..n, NEW b \in 1..n, order[a] = order[b] PROVE a = b
    <3>1. order[a] = IF a <= n - p THEN p + a ELSE a - (n - p)
      BY <1>2
    <3>2. order[b] = IF b <= n - p THEN p + b ELSE b - (n - p)
      BY <1>2
    <3>3. CASE a <= n - p /\ b <= n - p
      <4>1. p + a = p + b
        BY <2>1, <3>1, <3>2, <3>3
      <4> QED BY <4>1
    <3>4. CASE ~(a <= n - p) /\ ~(b <= n - p)
      <4>1. a - (n - p) = b - (n - p)
        BY <2>1, <3>1, <3>2, <3>4
      <4> QED BY <4>1
    <3>5. CASE a <= n - p /\ ~(b <= n - p)
      <4>1. p + a = b - (n - p)
        BY <2>1, <3>1, <3>2, <3>5
      <4> QED BY <4>1, <3>5
    <3>6. CASE ~(a <= n - p) /\ b <= n - p
      <4>1. p + b = a - (n - p)
        BY <2>1, <3>1, <3>2, <3>6
      <4> QED BY <4>1, <3>6
    <3> QED BY <3>3, <3>4, <3>5, <3>6
  <2> QED BY <1>4, <2>1 DEF IsInjective
<1>6. \A x \in 1..n : \E i \in 1..n : order[i] = x
  <2> TAKE x \in 1..n
  <2>1. CASE x > p
    <3>1. x - p \in 1..n /\ order[x - p] = x
      BY <1>2, <2>1
    <3> QED BY <3>1
  <2>2. CASE x <= p
    <3>1. x + (n - p) \in 1..n /\ order[x + (n - p)] = x
      BY <1>2, <2>2
    <3> QED BY <3>1
  <2> QED BY <2>1, <2>2
<1>7. ToSet(order) = 1..n
  <2>1. \A i \in 1..n : order[i] \in 1..n
    BY <1>2
  <2> QED BY <1>4, <1>6, <2>1 DEF ToSet
<1> QED BY <1>2, <1>3, <1>5, <1>7

LEMMA HandOverStep == WorkerInv /\ HandOver => WorkerInv'
<1> SUFFICES ASSUME WorkerInv, HandOver PROVE WorkerInv'
  OBVIOUS
<1>0. TypeOK /\ CoversAssumption /\ core.pc = "handing" /\ core \in Core /\ thread \in Thread
  BY DEF WorkerInv, HandOver, TypeOK
<1>1. /\ generation' = generation + 1 /\ registry' = generation + 1
      /\ thread' = Woken /\ owed' = TRUE /\ shown' = {}
      /\ core' = [core EXCEPT !.pc = "free", !.queue = <<>>, !.position = 0, !.known = <<>>]
      /\ UNCHANGED <<coreRest, entries>>
  BY DEF HandOver
<1>2. PICK n \in 0..MaxRows : core.queue \in [1..n -> Album]
  BY <1>0 DEF Core, Queues
<1>3. /\ DOMAIN core.queue = 1..n /\ Len(core.queue) = n /\ n \in Nat /\ MaxRows \in Nat
      /\ core.position \in 0..n /\ generation < MaxQueues /\ DOMAIN core.known = 1..n
      /\ \A i \in 1..n : core.known[i] \in Known \cup {"pending"}
      /\ \A i, j \in 1..n : core.queue[i] = core.queue[j] => core.known[i] = core.known[j]
      /\ generation \in 0..MaxQueues /\ MaxQueues \in Nat
  BY <1>0, <1>2 DEF WorkerInv, Handing, CoversAssumption, Core, TypeOK
<1> DEFINE pending == {i \in 1..n : core.known[i] = "pending"}
           order == WorkOrder(n, core.position)
<1>4. rows' = [i \in 1..n |-> [album |-> core.queue[i], status |-> core.known[i], by |-> 0]]
  BY <1>3 DEF HandOver
<1>5. todo' = Retain(order, pending)
  BY <1>3 DEF HandOver
<1>6. order \in Seq(1..n) /\ ToSet(order) = 1..n /\ IsInjective(order)
  BY <1>3, WorkOrderIs
<1>7. todo' \in Seq(1..n) /\ ToSet(todo') = pending /\ IsInjective(todo')
  BY <1>5, <1>6, RetainIs
<1> HIDE DEF order
<1>8. /\ DOMAIN rows' = 1..n /\ rows' \in Seq(Row) /\ Len(rows') = n
      /\ \A i \in 1..n : /\ rows'[i].album = core.queue[i] /\ rows'[i].status = core.known[i]
                         /\ rows'[i].by = 0
  <2>1. \A i \in 1..n : [album |-> core.queue[i], status |-> core.known[i], by |-> 0] \in Row
    BY <1>2, <1>3 DEF Row, Status
  <2>2. rows' \in [1..n -> Row]
    BY <1>4, <2>1
  <2>3. rows' \in Seq(Row)
    BY <1>3, <2>2
  <2>4. DOMAIN rows' = 1..n
    BY <2>2
  <2>5. Len(rows') = n
    BY <1>3, <2>3, <2>4, LenProperties
  <2>6. \A i \in 1..n : /\ rows'[i].album = core.queue[i] /\ rows'[i].status = core.known[i]
                        /\ rows'[i].by = 0
    BY <1>4
  <2> QED BY <2>3, <2>4, <2>5, <2>6
<1>9. /\ thread' \in Thread /\ thread'.pc \in {"looking", thread.pc}
      /\ thread'.links = thread.links /\ thread'.generation = thread.generation
      /\ thread'.album = thread.album /\ thread'.status = thread.status
  BY <1>0, <1>1 DEF Woken, Thread
<1>10. core' \in Core /\ core'.pc = "free"
  <2>1. <<>> \in [1..0 -> Album] /\ <<>> \in [1..0 -> Status] /\ 0 \in 0..MaxRows
    BY <1>3
  <2>2. <<>> \in Queues /\ <<>> \in UNION {[1..k -> Status] : k \in 0..MaxRows}
    BY <2>1 DEF Queues
  <2> QED BY <1>0, <1>1, <2>1, <2>2 DEF Core
<1>11. TypeOK'
  <2>1. todo' \in Seq(1..MaxRows)
    <3>1. 1..n \subseteq 1..MaxRows
      BY <1>3
    <3> QED BY <1>7, <3>1, SeqMonotonic
  <2>2. generation' \in 0..MaxQueues /\ registry' \in 0..MaxQueues
    BY <1>1, <1>3
  <2>3. /\ ready' \in SUBSET Album /\ entries' \in Index
        /\ stop' \in BOOLEAN /\ disk' \in Index /\ cacheHeld' \in BOOLEAN /\ writes' \in 0..MaxOther
    <3>1. ready' \in SUBSET Album
      BY <1>0 DEF TypeOK, HandOver, coreRest
    <3> QED BY <1>0, <1>1, <3>1 DEF TypeOK, coreRest
  <2>4. owed' \in BOOLEAN /\ shown' \in SUBSET (1..MaxRows)
    BY <1>1
  <2>5. thread' \in Thread /\ core' \in Core
    BY <1>9, <1>10
  <2>6. rows' \in Seq(Row)
    BY <1>8
  <2> QED BY <2>1, <2>2, <2>3, <2>4, <2>5, <2>6 DEF TypeOK
<1>12. Handing' /\ Linked'
  BY <1>1, <1>3, <1>10 DEF Handing, Linked
<1>13. Listed'
  BY <1>3, <1>7, <1>8 DEF Listed
<1>14. Asking' => Asking /\ thread'.generation # generation'
  <2>1. Asking => thread.generation <= generation /\ thread.generation \in Nat
    BY <1>0 DEF WorkerInv, Looking, Thread
  <2> QED BY <1>1, <1>3, <1>9, <2>1 DEF Asking
<1>15. Looking'
  <2>1. Asking' => /\ thread'.links = thread'.generation /\ thread'.generation <= generation'
                   /\ thread'.album \in Album
    <3>1. Asking => thread.generation \in Nat
      BY <1>0 DEF Thread
    <3> QED BY <1>1, <1>3, <1>9, <1>14, <3>1 DEF WorkerInv, Looking
  <2>2. /\ thread'.pc \in {"merging", "writing"} => thread'.status \in Known
        /\ thread'.pc = "answering" => thread'.status \in Known \cup {"failed"}
    BY <1>9 DEF WorkerInv, Looking
  <2> QED BY <1>14, <2>1, <2>2 DEF Looking
<1>16. NoRowIsForgotten'
  <2>1. AnswersAreThisQueues' /\ SameAlbumSameAnswer'
    BY <1>3, <1>8 DEF AnswersAreThisQueues, SameAlbumSameAnswer
  <2>2. PendingIsWorkedOn'
    <3>1. \A i : ~BeingAsked(i)'
      BY <1>14 DEF BeingAsked, Asking
    <3> QED BY <1>7, <1>8, <3>1 DEF PendingIsWorkedOn, Settled
  <2>3. SettledIsTold'
    BY <1>1 DEF SettledIsTold
  <2> QED BY <2>1, <2>2, <2>3 DEF NoRowIsForgotten
<1> QED BY <1>0, <1>11, <1>12, <1>13, <1>15, <1>16 DEF WorkerInv

LEMMA LookStep == WorkerInv /\ Look => WorkerInv'
<1> SUFFICES ASSUME WorkerInv, Look PROVE WorkerInv'
  OBVIOUS
<1>0. TypeOK /\ CoversAssumption /\ thread.pc = "looking" /\ thread \in Thread /\ core \in Core
  BY DEF WorkerInv, Look, TypeOK
<1>1. UNCHANGED <<threadRest, rows, ready, cache>>
  BY DEF Look
<1>2. rows \in Seq(Row) /\ DOMAIN rows = 1..Len(rows) /\ Len(rows) <= MaxRows /\ Len(rows) \in Nat
      /\ todo \in Seq(1..MaxRows) /\ DOMAIN todo = 1..Len(todo) /\ ToSet(todo) \subseteq DOMAIN rows
      /\ registry \in {0, generation} /\ (registry = 0 => thread.links = generation)
      /\ generation \in 0..MaxQueues /\ MaxRows \in Nat /\ MaxQueues \in Nat
  BY <1>0, LenProperties DEF WorkerInv, TypeOK, Listed, Linked, CoversAssumption
<1>3. \A i \in DOMAIN rows : ~BeingAsked(i)
  BY <1>0 DEF BeingAsked
<1>4. Handing'
  BY <1>1 DEF WorkerInv, Handing, threadRest
<1>5. CASE stop
  <2>1. thread' = [thread EXCEPT !.pc = "gone"] /\ UNCHANGED <<registry, todo>>
    BY <1>5 DEF Look
  <2>2. thread' \in Thread /\ thread'.pc = "gone" /\ thread'.links = thread.links
    BY <1>0, <2>1 DEF Thread
  <2>3. TypeOK'
    BY <1>0, <1>1, <2>1, <2>2 DEF TypeOK, threadRest, cache, telling
  <2>4. Linked' /\ Listed' /\ Looking'
    BY <1>1, <2>1, <2>2 DEF WorkerInv, Linked, Listed, Looking, Asking, threadRest
  <2>5. \A i \in DOMAIN rows : BeingAsked(i)' <=> BeingAsked(i)
    BY <1>3, <2>2 DEF BeingAsked
  <2>6. NoRowIsForgotten'
    BY <1>1, <2>1, <2>5, NothingForgotten DEF threadRest, telling
  <2> QED BY <1>0, <1>4, <2>3, <2>4, <2>6 DEF WorkerInv
<1> PICK links : links = IF registry # 0 THEN registry ELSE thread.links
  OBVIOUS
<1>6. links = generation
  BY <1>2
<1>7. CASE ~stop /\ todo = <<>>
  <2>1. registry' = 0 /\ todo' = todo /\ thread' = [thread EXCEPT !.pc = "asleep", !.links = links]
    BY <1>7 DEF Look
  <2>2. thread' \in Thread /\ thread'.pc = "asleep" /\ thread'.links = links
    BY <1>0, <1>2, <1>6, <2>1 DEF Thread
  <2>3. TypeOK'
    BY <1>0, <1>1, <1>2, <2>1, <2>2 DEF TypeOK, threadRest, cache, telling
  <2>4. Linked' /\ Listed' /\ Looking'
    BY <1>1, <1>6, <2>1, <2>2 DEF WorkerInv, Linked, Listed, Looking, Asking, threadRest
  <2>5. \A i \in DOMAIN rows : BeingAsked(i)' <=> BeingAsked(i)
    BY <1>3, <2>2 DEF BeingAsked
  <2>6. NoRowIsForgotten'
    BY <1>1, <2>1, <2>5, NothingForgotten DEF threadRest, telling
  <2> QED BY <1>0, <1>4, <2>3, <2>4, <2>6 DEF WorkerInv
<1>8. CASE ~stop /\ todo # <<>>
  <2> PICK row : row = Head(todo)
    OBVIOUS
  <2>1. registry' = 0 /\ todo' = Tail(todo)
        /\ thread' = [thread EXCEPT !.pc = "resolving", !.links = links, !.row = row,
                        !.generation = generation, !.album = rows[row].album]
    BY <1>8 DEF Look
  <2>2. /\ Len(todo) \in Nat /\ Len(todo) > 0 /\ row = todo[1]
        /\ todo' \in Seq(1..MaxRows) /\ DOMAIN todo' = 1..(Len(todo) - 1)
        /\ \A i \in 1..(Len(todo) - 1) : todo'[i] = todo[i + 1]
    BY <1>2, <1>8, <2>1, HeadTailProperties, LenProperties, EmptySeq
  <2>3. row \in DOMAIN rows
    <3>0. 1 \in DOMAIN todo
      BY <1>2, <2>2
    <3>1. todo[1] \in ToSet(todo)
      BY <3>0 DEF ToSet
    <3> QED BY <1>2, <2>2, <3>1
  <2>4. rows[row] \in Row /\ rows[row].album \in Album
    <3>1. rows[row] \in Row
      BY <1>2, <2>3, ElementOfSeq
    <3> QED BY <3>1 DEF Row
  <2>5. /\ thread' \in Thread /\ thread'.pc = "resolving" /\ thread'.links = links /\ thread'.row = row
        /\ thread'.generation = generation /\ thread'.album = rows[row].album
    <3>1. row \in 0..MaxRows /\ links \in 0..MaxQueues /\ generation \in 0..MaxQueues
      BY <1>2, <1>6, <2>3
    <3> PICK album \in Album : album = rows[row].album
      BY <2>4
    <3> PICK gen \in 0..MaxQueues : gen = generation
      BY <3>1
    <3>2. thread' = [thread EXCEPT !.pc = "resolving", !.links = links, !.row = row,
                       !.generation = gen, !.album = album]
      BY <2>1
    <3> QED BY <1>0, <3>1, <3>2 DEF Thread
  <2>6. TypeOK'
    BY <1>0, <1>1, <1>2, <2>1, <2>2, <2>5 DEF TypeOK, threadRest, cache, telling
  <2>7. \A a, b \in 1..Len(todo) : todo[a] = todo[b] => a = b
    BY <1>2 DEF WorkerInv, NoRowIsForgotten, PendingIsWorkedOn, IsInjective
  <2>8. IsInjective(todo')
    <3>1. \A a, b \in 1..(Len(todo) - 1) : todo[a + 1] = todo[b + 1] => a = b
      BY <2>2, <2>7
    <3> QED BY <2>2, <3>1 DEF IsInjective
  <2>9. \A i : i \in ToSet(todo) <=> i \in ToSet(todo') \/ i = row
    <3>1. \A i : i \in ToSet(todo') <=> \E k \in 1..(Len(todo) - 1) : i = todo[k + 1]
      BY <2>2 DEF ToSet
    <3>2. \A i : i \in ToSet(todo) <=> \E k \in 1..Len(todo) : i = todo[k]
      BY <1>2 DEF ToSet
    <3>3. \A i : (\E k \in 1..Len(todo) : i = todo[k])
                 <=> i = todo[1] \/ \E k \in 1..(Len(todo) - 1) : i = todo[k + 1]
      <4> TAKE i
      <4>1. ASSUME NEW k \in 1..Len(todo), i = todo[k]
            PROVE  i = todo[1] \/ \E j \in 1..(Len(todo) - 1) : i = todo[j + 1]
        <5>1. CASE k = 1
          BY <4>1, <5>1
        <5>2. CASE k # 1
          <6>1. k - 1 \in 1..(Len(todo) - 1) /\ (k - 1) + 1 = k
            BY <2>2, <5>2
          <6> QED BY <4>1, <6>1
        <5> QED BY <5>1, <5>2
      <4>2. 1 \in 1..Len(todo) /\ \A k \in 1..(Len(todo) - 1) : k + 1 \in 1..Len(todo)
        BY <2>2
      <4> QED BY <4>1, <4>2
    <3> QED BY <2>2, <3>1, <3>2, <3>3
  <2>10. Linked' /\ Listed'
    BY <1>1, <1>2, <1>6, <2>1, <2>5, <2>9 DEF Linked, Listed, threadRest
  <2>11. Looking'
    BY <1>1, <1>2, <1>6, <2>3, <2>4, <2>5 DEF Looking, Asking, threadRest
  <2>12. NoRowIsForgotten'
    <3>1. NoRowIsForgotten /\ UNCHANGED <<rows, generation, ready, owed, shown>>
          /\ \A i : Settled(i)' <=> Settled(i)
      BY <1>1 DEF WorkerInv, threadRest, telling, Settled
    <3>2. AnswersAreThisQueues' /\ SameAlbumSameAnswer' /\ SettledIsTold'
      BY <3>1 DEF NoRowIsForgotten, AnswersAreThisQueues, SameAlbumSameAnswer, SettledIsTold
    <3>3. \A i : BeingAsked(i)' <=> i = row
      BY <2>5, <3>1 DEF BeingAsked
    <3>4. PendingIsWorkedOn'
      BY <1>3, <2>8, <2>9, <3>1, <3>3 DEF NoRowIsForgotten, PendingIsWorkedOn
    <3> QED BY <3>2, <3>4 DEF NoRowIsForgotten
  <2> QED BY <1>0, <1>4, <2>6, <2>10, <2>11, <2>12 DEF WorkerInv
<1> QED BY <1>5, <1>7, <1>8

\* A step of the lookup that answers nothing yet.
LEMMA StillAsking ==
  ASSUME WorkerInv, UNCHANGED <<threadRest, rows, todo, ready, registry>>,
         Asking, Asking', thread' \in Thread, entries' \in Index, disk' \in Index, cacheHeld' \in BOOLEAN,
         thread'.links = thread.links, thread'.generation = thread.generation,
         thread'.row = thread.row, thread'.album = thread.album,
         thread'.pc \in {"merging", "writing"} => thread'.status \in Known,
         thread'.pc = "answering" => thread'.status \in Known \cup {"failed"}
  PROVE  WorkerInv'
<1>1. TypeOK' /\ CoversAssumption
  BY DEF WorkerInv, TypeOK, threadRest, telling
<1>2. Handing' /\ Linked' /\ Listed'
  BY DEF WorkerInv, Handing, Linked, Listed, threadRest
<1>3. Looking'
  BY DEF WorkerInv, Looking, threadRest
<1>4. NoRowIsForgotten'
  BY NothingForgotten DEF BeingAsked, Asking, threadRest, telling
<1> QED BY <1>1, <1>2, <1>3, <1>4 DEF WorkerInv

LEMMA LookupSteps == WorkerInv /\ (Resolve \/ Link \/ Merge \/ Keep \/ KeepFails) => WorkerInv'
<1> SUFFICES ASSUME WorkerInv, Resolve \/ Link \/ Merge \/ Keep \/ KeepFails PROVE WorkerInv'
  OBVIOUS
<1> PICK old : old = thread
  OBVIOUS
<1>0. /\ old \in Thread /\ entries \in Index /\ disk \in Index /\ cacheHeld \in BOOLEAN
      /\ UNCHANGED <<threadRest, rows, todo, ready, registry>> /\ Asking
      /\ old.album \in Album /\ Known \subseteq Status
  BY DEF WorkerInv, TypeOK, Resolve, Link, Merge, Keep, KeepFails, cache, Asking, Looking, Status
<1>1. Empty \in Index
  BY DEF Empty, Index
<1>2. CASE Resolve
  <2>1. UNCHANGED cache
    BY <1>2 DEF Resolve
  <2>2. CASE entries[old.album] \in Known
    <3> PICK s \in Known : s = entries[old.album]
      BY <2>2
    <3>1. thread' = [old EXCEPT !.pc = "answering", !.status = s]
      BY <1>2, <2>2 DEF Resolve
    <3>2. thread' \in Thread
      <4>1. s \in Status
        BY <1>0
      <4> QED BY <1>0, <3>1, <4>1 DEF Thread
    <3>3. /\ thread'.pc = "answering" /\ thread'.status = s /\ thread'.links = old.links
          /\ thread'.generation = old.generation /\ thread'.row = old.row /\ thread'.album = old.album
      BY <1>0, <3>1 DEF Thread
    <3> QED BY <1>0, <2>1, <3>2, <3>3, StillAsking DEF cache, Asking
  <2>3. CASE entries[old.album] \notin Known
    <3>1. thread' = [old EXCEPT !.pc = "linking"]
      BY <1>2, <2>3 DEF Resolve
    <3>2. /\ thread' \in Thread /\ thread'.pc = "linking" /\ thread'.links = old.links
          /\ thread'.generation = old.generation /\ thread'.row = old.row /\ thread'.album = old.album
      BY <1>0, <3>1 DEF Thread
    <3> QED BY <1>0, <2>1, <3>2, StillAsking DEF cache, Asking
  <2> QED BY <2>2, <2>3
<1>3. CASE Link
  <2>1. UNCHANGED cache
    BY <1>3 DEF Link
  <2>2. PICK pc, s : /\ thread' = [old EXCEPT !.pc = pc, !.status = s]
                     /\ pc \in {"merging", "answering"} /\ s \in Known \cup {"failed"}
                     /\ pc = "merging" => s \in Known
    <3>1. CASE \E s \in Known : thread' = [thread EXCEPT !.pc = "merging", !.status = s]
      <4> PICK s \in Known : thread' = [thread EXCEPT !.pc = "merging", !.status = s]
        BY <3>1
      <4> WITNESS "merging", s
      <4> QED OBVIOUS
    <3>2. CASE \E s \in {"notFound", "failed"} :
                 thread' = [thread EXCEPT !.pc = "answering", !.status = s]
      <4> PICK s \in {"notFound", "failed"} : thread' = [thread EXCEPT !.pc = "answering", !.status = s]
        BY <3>2
      <4> WITNESS "answering", s
      <4> QED BY DEF Known
    <3> QED BY <1>3, <3>1, <3>2 DEF Link
  <2>3. /\ thread' \in Thread /\ thread'.pc = pc /\ thread'.status = s /\ thread'.links = old.links
        /\ thread'.generation = old.generation /\ thread'.row = old.row /\ thread'.album = old.album
    BY <1>0, <2>2 DEF Thread, Status
  <2> QED BY <1>0, <2>1, <2>2, <2>3, StillAsking DEF cache, Asking
<1>4. CASE Merge
  <2>1. /\ cacheHeld' = TRUE /\ UNCHANGED <<entries, disk>> /\ old.pc = "merging"
        /\ thread' = [old EXCEPT !.pc = "writing", !.read = disk]
    BY <1>4 DEF Merge, MergeBase
  <2>2. /\ thread' \in Thread /\ thread'.pc = "writing" /\ thread'.status = old.status
        /\ thread'.links = old.links
        /\ thread'.generation = old.generation /\ thread'.row = old.row /\ thread'.album = old.album
    BY <1>0, <2>1 DEF Thread
  <2>3. old.status \in Known
    BY <2>1 DEF WorkerInv, Looking
  <2> QED BY <1>0, <2>1, <2>2, <2>3, StillAsking DEF Asking
<1>5. CASE Keep
  <2>1. /\ disk' = [old.read EXCEPT ![old.album] = old.status] /\ entries' = disk' /\ cacheHeld' = FALSE
        /\ old.pc = "writing" /\ thread' = [old EXCEPT !.pc = "answering", !.read = Empty]
    BY <1>5 DEF Keep
  <2>2. /\ thread' \in Thread /\ thread'.pc = "answering" /\ thread'.status = old.status
        /\ thread'.links = old.links
        /\ thread'.generation = old.generation /\ thread'.row = old.row /\ thread'.album = old.album
    BY <1>0, <1>1, <2>1 DEF Thread
  <2>3. old.status \in Known
    BY <2>1 DEF WorkerInv, Looking
  <2>4. disk' \in Index
    BY <1>0, <2>1, <2>3 DEF Thread, Index
  <2> QED BY <1>0, <2>1, <2>2, <2>3, <2>4, StillAsking DEF Asking
<1>6. CASE KeepFails
  <2>1. cacheHeld' = FALSE /\ UNCHANGED <<entries, disk>>
    BY <1>6 DEF KeepFails
  <2>2. PICK s \in {"notFound", "failed"} :
          thread' = [old EXCEPT !.pc = "answering", !.status = s, !.read = Empty]
    BY <1>6 DEF KeepFails
  <2>3. /\ thread' \in Thread /\ thread'.pc = "answering" /\ thread'.status = s
        /\ thread'.links = old.links
        /\ thread'.generation = old.generation /\ thread'.row = old.row /\ thread'.album = old.album
    BY <1>0, <1>1, <2>2 DEF Thread, Status, Known
  <2> QED BY <1>0, <2>1, <2>3, StillAsking DEF Asking, Known
<1> QED BY <1>2, <1>3, <1>4, <1>5, <1>6

LEMMA AnswerStep == WorkerInv /\ Answer => WorkerInv'
<1> SUFFICES ASSUME WorkerInv, Answer PROVE WorkerInv'
  OBVIOUS
<1>0. TypeOK /\ CoversAssumption /\ thread.pc = "answering" /\ thread \in Thread /\ Asking /\ NoRowIsForgotten
  BY DEF WorkerInv, Answer, TypeOK, Asking
<1>1. /\ UNCHANGED <<threadRest, registry, cache>>
      /\ thread' = [thread EXCEPT !.pc = "looking", !.row = 0, !.generation = 0,
                                  !.album = None, !.status = "pending"]
  BY DEF Answer
<1>2. 0 \in 0..MaxRows /\ 0 \in 0..MaxQueues /\ MaxRows \in Nat
  BY <1>0 DEF CoversAssumption
<1>3. thread' \in Thread /\ thread'.pc = "looking" /\ thread'.links = thread.links
  BY <1>0, <1>1, <1>2 DEF Thread, Status
<1>4. Handing' /\ Linked' /\ Looking'
  BY <1>1, <1>3 DEF WorkerInv, Handing, Linked, Looking, Asking, threadRest
<1>5. CASE ~IsCurrent
  <2>1. UNCHANGED <<rows, todo, ready>>
    BY <1>5 DEF Answer
  <2>2. TypeOK'
    BY <1>0, <1>1, <1>3, <2>1 DEF TypeOK, threadRest, cache, telling
  <2>3. \A i \in DOMAIN rows : BeingAsked(i)' <=> BeingAsked(i)
    BY <1>3, <1>5 DEF BeingAsked, IsCurrent
  <2>4. NoRowIsForgotten' /\ Listed'
    BY <1>1, <2>1, <2>3, NothingForgotten DEF threadRest, telling, WorkerInv, Listed
  <2> QED BY <1>0, <1>4, <2>2, <2>4 DEF WorkerInv
<1>6. CASE IsCurrent
  <2>1. thread.generation = generation
    BY <1>6 DEF IsCurrent
  <2> PICK row, album, status : row = thread.row /\ album = thread.album /\ status = thread.status
    OBVIOUS
  <2>2. /\ row \in DOMAIN rows /\ rows[row].album = album /\ album \in Album
        /\ status \in Known \cup {"failed"} /\ thread.links = generation
    BY <1>0, <2>1 DEF WorkerInv, Looking
  <2>3. status \in Status /\ status # "pending" /\ generation \in 0..MaxQueues
    BY <1>0, <2>2 DEF Status, Known, TypeOK
  <2> PICK settled : settled = Answered
    OBVIOUS
  <2>4. \A i \in DOMAIN rows : i \in settled <=> rows[i].album = album /\ (i = row \/ ~Settled(i))
    BY DEF Answered
  <2>5. ~Settled(row)
    BY <1>0, <2>1, <2>2 DEF NoRowIsForgotten, PendingIsWorkedOn, BeingAsked
  <2>6. \A i \in DOMAIN rows : i \in settled <=> rows[i].album = album
    BY <1>0, <2>2, <2>4, <2>5 DEF NoRowIsForgotten, SameAlbumSameAnswer, Settled
  <2>7. /\ rows' = [i \in DOMAIN rows |->
                      IF i \in settled THEN [rows[i] EXCEPT !.status = status, !.by = thread.links]
                      ELSE rows[i]]
        /\ todo' = Retain(todo, DOMAIN rows \ settled)
        /\ ready' = ready \cup {album}
    <3>1. IsAnnounced(settled)
      BY <2>2, <2>6 DEF IsAnnounced
    <3> QED BY <1>6, <3>1 DEF Answer, StillToDo
  <2>8. rows \in Seq(Row) /\ DOMAIN rows = 1..Len(rows) /\ Len(rows) \in Nat
    BY <1>0, LenProperties DEF TypeOK
  <2>9. \A i \in DOMAIN rows : rows[i] \in Row
    BY <2>8, ElementOfSeq
  <2>10. /\ DOMAIN rows' = DOMAIN rows
         /\ \A i \in DOMAIN rows :
              /\ rows'[i] \in Row /\ rows'[i].album = rows[i].album
              /\ i \in settled => rows'[i].status = status /\ rows'[i].by = generation
              /\ i \notin settled => rows'[i] = rows[i]
    <3>1. DOMAIN rows' = DOMAIN rows
      BY <2>7
    <3>2. ASSUME NEW i \in DOMAIN rows, i \in settled
          PROVE  /\ rows'[i] \in Row /\ rows'[i].album = rows[i].album
                 /\ rows'[i].status = status /\ rows'[i].by = generation
      <4>1. rows'[i] = [rows[i] EXCEPT !.status = status, !.by = generation]
        BY <2>2, <2>7, <3>2
      <4>2. rows[i] \in Row
        BY <2>9
      <4> QED BY <2>3, <4>1, <4>2 DEF Row
    <3>3. ASSUME NEW i \in DOMAIN rows, i \notin settled
          PROVE  rows'[i] = rows[i]
      BY <2>7, <3>3
    <3> QED BY <2>9, <3>1, <3>2, <3>3
  <2>11. rows' \in Seq(Row) /\ Len(rows') = Len(rows)
    <3>1. rows' \in [1..Len(rows) -> Row]
      BY <2>7, <2>8, <2>10
    <3> QED BY <2>8, <3>1
  <2>12. /\ todo \in Seq(1..MaxRows) /\ ToSet(todo) \subseteq DOMAIN rows /\ IsInjective(todo)
    BY <1>0 DEF TypeOK, WorkerInv, Listed, NoRowIsForgotten, PendingIsWorkedOn
  <2>13. /\ todo' \in Seq(1..MaxRows) /\ IsInjective(todo')
         /\ ToSet(todo') = ToSet(todo) \cap (DOMAIN rows \ settled)
    BY <2>7, <2>12, RetainIs
  <2>14. TypeOK'
    BY <1>0, <1>1, <1>3, <2>2, <2>7, <2>11, <2>13 DEF TypeOK, threadRest, cache, telling
  <2>15. Listed'
    BY <2>10, <2>11, <2>12, <2>13 DEF WorkerInv, Listed
  <2>16. AnswersAreThisQueues'
    BY <1>0, <1>1, <2>10 DEF NoRowIsForgotten, AnswersAreThisQueues, threadRest
  <2>17. SameAlbumSameAnswer'
    BY <1>0, <2>6, <2>10 DEF NoRowIsForgotten, SameAlbumSameAnswer
  <2>18. PendingIsWorkedOn'
    <3>1. \A i : ~BeingAsked(i)'
      BY <1>3 DEF BeingAsked
    <3>2. \A i \in DOMAIN rows : ~Settled(i) <=> (i \in ToSet(todo) \/ BeingAsked(i))
      BY <1>0 DEF NoRowIsForgotten, PendingIsWorkedOn
    <3>3. \A i \in DOMAIN rows : BeingAsked(i) <=> i = row
      BY <1>0, <2>1 DEF BeingAsked
    <3>4. \A i \in DOMAIN rows : Settled(i)' <=> Settled(i) \/ i \in settled
      BY <2>3, <2>10 DEF Settled
    <3>5. row \in settled
      BY <2>2, <2>6
    <3> QED BY <2>10, <2>13, <3>1, <3>2, <3>3, <3>4, <3>5 DEF PendingIsWorkedOn
  <2>19. SettledIsTold'
    <3>1. \A i \in DOMAIN rows : Settled(i)' => Settled(i) \/ i \in settled
      BY <2>10 DEF Settled
    <3>2. UNCHANGED <<owed, shown>>
      BY <1>1 DEF threadRest, telling
    <3>3. \A i \in DOMAIN rows : Settled(i) => i \in shown \/ owed \/ rows[i].album \in ready
      BY <1>0 DEF NoRowIsForgotten, SettledIsTold
    <3> SUFFICES ASSUME NEW i \in DOMAIN rows, Settled(i)'
                 PROVE  i \in shown' \/ owed' \/ rows'[i].album \in ready'
      BY <2>10 DEF SettledIsTold
    <3>4. rows'[i].album = rows[i].album
      BY <2>10
    <3>5. CASE i \in settled
      <4>1. rows[i].album = album
        BY <2>6, <3>5
      <4>2. album \in ready'
        BY <2>7
      <4>3. rows'[i].album \in ready'
        BY <3>4, <4>1, <4>2, Zenon
      <4> QED BY <4>3, Zenon
    <3>6. CASE Settled(i)
      <4>1. rows[i].album \in ready => rows'[i].album \in ready'
        <5>1. \A a : a \in ready => a \in ready'
          BY <2>7
        <5> QED BY <3>4, <5>1, Zenon
      <4>2. i \in shown \/ owed \/ rows[i].album \in ready
        BY <3>3, <3>6
      <4> QED BY <3>2, <4>1, <4>2, Zenon
    <3> QED BY <3>1, <3>5, <3>6
  <2> QED BY <1>0, <1>4, <2>14, <2>15, <2>16, <2>17, <2>18, <2>19 DEF WorkerInv, NoRowIsForgotten
<1> QED BY <1>5, <1>6

LEMMA OtherStep == WorkerInv /\ OtherWrites => WorkerInv'
<1> SUFFICES ASSUME WorkerInv, OtherWrites PROVE WorkerInv'
  OBVIOUS
<1>0. TypeOK /\ CoversAssumption
  BY DEF WorkerInv
<1>1. UNCHANGED <<state, entries, cacheHeld, core, thread, telling>> /\ writes' = writes + 1 /\ writes < MaxOther
  BY DEF OtherWrites
<1>2. writes' \in 0..MaxOther
  BY <1>0, <1>1 DEF TypeOK, CoversAssumption
<1>3. disk' \in Index
  BY <1>0 DEF OtherWrites, TypeOK, Index, Known
<1>4. TypeOK'
  BY <1>0, <1>1, <1>2, <1>3 DEF TypeOK, state, telling
<1>5. Handing' /\ Linked' /\ Looking' /\ Listed'
  BY <1>1 DEF WorkerInv, Handing, Linked, Looking, Listed, Asking, state
<1>6. NoRowIsForgotten'
  BY <1>1, NothingForgotten DEF BeingAsked, state, telling
<1> QED BY <1>0, <1>4, <1>5, <1>6 DEF WorkerInv

LEMMA WorkerStep == WorkerInv /\ [Next]_vars => WorkerInv'
<1> SUFFICES ASSUME WorkerInv, [Next]_vars PROVE WorkerInv'
  OBVIOUS
<1>1. CASE CoreStep
  BY <1>1, SubmitStep, AskKnownStep, HandOverStep, TellingSteps DEF CoreStep
<1>2. CASE ThreadStep
  BY <1>2, LookStep, LookupSteps, AnswerStep DEF ThreadStep
<1>3. CASE UNCHANGED vars
  <2>1. TypeOK' /\ Handing' /\ Linked' /\ Looking' /\ Listed'
    BY <1>3 DEF vars, state, cache, telling, WorkerInv, TypeOK, Handing, Linked, Looking, Listed, Asking
  <2>2. NoRowIsForgotten'
    BY <1>3, NothingForgotten DEF vars, state, telling, BeingAsked
  <2> QED BY <2>1, <2>2 DEF WorkerInv
<1> QED BY <1>1, <1>2, <1>3, OtherStep DEF Next

\* A row that waits for its cover is still on the worker's list, with the
\* thread that looks it up, or among what is about to be told: no new queue, no
\* answer that comes late and no lookup that fails loses one (the worker loop
\* of artwork/worker.rs).
THEOREM RowsAreKeptInMind == CoversAssumption => (Spec => []NoRowIsForgotten)
<1>1. WorkerInv => NoRowIsForgotten
  BY DEF WorkerInv
<1> QED BY <1>1, WorkerInit, WorkerStep, PTL DEF Spec

Opening ==
  [pc : {"closed", "reading", "aside", "sweeping", "ready", "linking", "label", "thumb",
         "merging", "writing"},
   entries : [Keys -> Store!Entry], then : {"closed", "sweeping", "ready", "writing"},
   key : Keys \cup {NoKey}, answer : Store!Entry, read : [Keys -> Store!Entry], asked : SUBSET Keys]

StoreTypes ==
  /\ Store!StoreAssumption
  /\ index \in [Keys -> Store!Entry] \cup {Absent, Unreadable}
  /\ files \in [Store!Images -> 0..MaxTime \cup {Gone}]
  /\ now \in 0..MaxTime
  /\ open \in [Store!Openings -> Opening]
  /\ puts \in 0..MaxPuts /\ mishaps \in 0..MaxMishaps
  /\ overrun \subseteq Store!Images /\ lasting \in [Keys -> BOOLEAN]

\* The images an entry may point to.
Held == {i \in Store!Images : Store!IsFile(i)} \cup overrun

\* What an opening is about to write, once its images are there.
IsWriting(one) ==
  one.pc \in {"merging", "writing"} \/ (one.pc = "aside" /\ one.then = "writing")

HasAnswer(one) ==
  /\ one.pc \in {"label", "thumb"} => one.key \in Keys /\ one.answer.status = "found"
  /\ IsWriting(one) => one.key \in Keys /\ one.answer # Store!Unknown

HasImages(one, held) ==
  /\ one.pc = "thumb" => Store!Normalized(one.answer.picture).label \in held
  /\ IsWriting(one) => Store!ImagesOf(one.answer) \subseteq held
  /\ one.pc = "writing" => Store!Referenced(one.read) \subseteq held

IsFresh(one, lasts) ==
  one.pc = "writing" => \A k \in Keys : lasts[k] => one.read[k] # Store!Unknown

Sound(one, held, lasts) == HasAnswer(one) /\ HasImages(one, held) /\ IsFresh(one, lasts)

OpeningsAreSound == \A o \in Store!Openings : Sound(open[o], Held, lasting)
ImagesAreHeld == Store!Referenced(Store!Entries) \subseteq Held

StoreInv == StoreTypes /\ OpeningsAreSound /\ ImagesAreHeld /\ Store!EntriesSurvive

---------------------------------------------------------------------------
(* The files of the covers: the steps.                                     *)

LEMMA StoreConstantsSay ==
  ASSUME Store!StoreAssumption
  PROVE  /\ Store!Unknown \in Store!Entry /\ Store!Nothing \in [Keys -> Store!Entry]
         /\ Store!Closed \in Opening /\ Store!Unknown.status = "unknown"
         /\ Store!ImagesOf(Store!Unknown) = {} /\ Store!Referenced(Store!Nothing) = {}
         /\ \A k \in Keys : Store!Nothing[k] = Store!Unknown
<1>1. Store!Unknown \in Store!Entry /\ Store!Unknown.status = "unknown"
  BY DEF Store!Entry, Store!Unknown
<1>2. Store!Nothing \in [Keys -> Store!Entry] /\ \A k \in Keys : Store!Nothing[k] = Store!Unknown
  BY <1>1 DEF Store!Nothing
<1>3. Store!Closed \in Opening
  BY <1>1, <1>2 DEF Store!Closed, Opening
<1>4. Store!ImagesOf(Store!Unknown) = {}
  BY <1>1 DEF Store!ImagesOf
<1>5. Store!Referenced(Store!Nothing) = {}
  BY <1>2, <1>4 DEF Store!Referenced
<1> QED BY <1>1, <1>2, <1>3, <1>4, <1>5

\* What an entry can be.
LEMMA EntryIs ==
  ASSUME NEW e \in Store!Entry
  PROVE  /\ e = Store!Unknown \/ e.status \in {"found", "notFound"}
         /\ e.status = "found" => e.picture \in Store!Pictures
  BY DEF Store!Entry, Store!Unknown, Store!FoundEntry, Store!NotFoundEntry

LEMMA NewEntries ==
  ASSUME NEW t \in 0..MaxTime
  PROVE  /\ \A p \in Store!Pictures : /\ Store!FoundEntry(p, t) \in Store!Entry
                                /\ Store!FoundEntry(p, t).status = "found"
         /\ Store!NotFoundEntry(t) \in Store!Entry /\ Store!NotFoundEntry(t).status = "notFound"
         /\ Store!NotFoundEntry(t) # Store!Unknown /\ Store!ImagesOf(Store!NotFoundEntry(t)) = {}
<1>1. Store!NotFoundEntry(t).status = "notFound" /\ Store!Unknown.status = "unknown"
  BY DEF Store!NotFoundEntry, Store!Unknown
<1>2. Store!ImagesOf(Store!NotFoundEntry(t)) = {}
  BY <1>1 DEF Store!ImagesOf
<1>3. Store!NotFoundEntry(t) \in Store!Entry
  BY DEF Store!Entry
<1>4. ASSUME NEW p \in Store!Pictures
      PROVE  Store!FoundEntry(p, t) \in Store!Entry /\ Store!FoundEntry(p, t).status = "found"
  BY DEF Store!Entry, Store!FoundEntry
<1> QED BY <1>1, <1>2, <1>3, <1>4

\* A file of an image of a picture is one of the images.
LEMMA FilesAreImages ==
  ASSUME NEW p \in Store!Pictures
  PROVE  Store!Normalized(p).label \in Store!Images /\ Store!Normalized(p).thumb \in Store!Images
  BY DEF Store!Images, Store!FilesOf

LEMMA ImagesOfFound ==
  ASSUME NEW e, e.status = "found"
  PROVE  Store!ImagesOf(e) = {Store!Normalized(e.picture).label, Store!Normalized(e.picture).thumb}
  BY DEF Store!ImagesOf, Store!FilesOf

\* Whoever does nothing of the kind has nothing to answer for.
LEMMA IdleIsSound ==
  ASSUME NEW one, NEW held, NEW lasts,
         one.pc \in {"closed", "reading", "sweeping", "ready"} \/ (one.pc = "aside" /\ one.then # "writing")
  PROVE  Sound(one, held, lasts)
  BY DEF Sound, HasAnswer, HasImages, IsFresh, IsWriting

\* An opening stays sound while images are only added and no key begins to last.
LEMMA StaysSound ==
  ASSUME NEW one, NEW held, NEW more, NEW lasts, NEW less,
         Sound(one, held, lasts), held \subseteq more,
         one.pc # "writing" \/ \A k \in Keys : less[k] => lasts[k]
  PROVE  Sound(one, more, less)
  BY DEF Sound, HasAnswer, HasImages, IsFresh

LEMMA OneMoves ==
  ASSUME StoreTypes, OpeningsAreSound, NEW o \in Store!Openings, NEW new \in Opening, Store!Becomes(o, new),
         Sound(new, Held', lasting'), Held \subseteq Held',
         \/ \A k \in Keys : lasting'[k] => lasting[k]
         \/ \A p \in Store!Openings \ {o} : open[p].pc # "writing"
  PROVE  open' \in [Store!Openings -> Opening] /\ OpeningsAreSound'
<1>1. open' = [open EXCEPT ![o] = new] /\ open \in [Store!Openings -> Opening]
  BY DEF Store!Becomes, StoreTypes
<1>2. open' \in [Store!Openings -> Opening]
  BY <1>1
<1>3. ASSUME NEW p \in Store!Openings PROVE Sound(open'[p], Held', lasting')
  <2>1. CASE p = o
    BY <1>1, <2>1
  <2>2. CASE p # o
    <3>1. Sound(open[p], Held, lasting)
      BY DEF OpeningsAreSound
    <3>2. Sound(open[p], Held', lasting')
      BY <2>2, <3>1, StaysSound
    <3> QED BY <1>1, <2>2, <3>2
  <2> QED BY <2>1, <2>2
<1>4. OpeningsAreSound'
  BY <1>3 DEF OpeningsAreSound
<1> QED BY <1>2, <1>4

\* Most steps are of one opening alone.
LEMMA OnlyItMoves ==
  ASSUME StoreInv, NEW o \in Store!Openings, NEW new \in Opening, Store!Becomes(o, new),
         Sound(new, Held, lasting), UNCHANGED <<index, files, now, Store!history>>,
         puts' \in 0..MaxPuts, mishaps' \in 0..MaxMishaps
  PROVE  StoreInv'
<1>1. Held' = Held /\ lasting' = lasting /\ Store!Entries' = Store!Entries
  BY DEF Held, Store!IsFile, Store!Entries, Store!history
<1>2. open' \in [Store!Openings -> Opening] /\ OpeningsAreSound'
  BY <1>1, OneMoves DEF StoreInv
<1>3. StoreTypes'
  BY <1>2 DEF StoreInv, StoreTypes, Store!history
<1>4. ImagesAreHeld' /\ Store!EntriesSurvive'
  BY <1>1 DEF StoreInv, ImagesAreHeld, Store!EntriesSurvive
<1> QED BY <1>2, <1>3, <1>4 DEF StoreInv

\* An opening that lets an answer go, or was none.
LEMMA Resting ==
  ASSUME StoreTypes, NEW o \in Store!Openings, NEW pc \in {"closed", "reading", "sweeping", "ready"}
  PROVE  /\ [open[o] EXCEPT !.pc = pc] \in Opening
         /\ Sound([open[o] EXCEPT !.pc = pc], Held, lasting)
<1>1. open[o] \in Opening
  BY DEF StoreTypes
<1>2. [open[o] EXCEPT !.pc = pc] \in Opening /\ [open[o] EXCEPT !.pc = pc].pc = pc
  BY <1>1 DEF Opening
<1> QED BY <1>2, IdleIsSound

LEMMA NotKeptIs ==
  ASSUME StoreTypes, NEW o \in Store!Openings
  PROVE  Store!NotKept(o) \in Opening /\ Store!NotKept(o).pc = "ready"
<1>1. open[o] \in Opening
  BY DEF StoreTypes
<1>2. Store!Unknown \in Store!Entry /\ Store!Nothing \in [Keys -> Store!Entry]
  BY StoreConstantsSay DEF StoreTypes
<1> QED BY <1>1, <1>2 DEF Store!NotKept, Opening

LEMMA OpenSteps ==
  ASSUME StoreInv, NEW o \in Store!Openings,
         Store!Open(o) \/ Store!Opened(o) \/ Store!Close(o) \/ Store!WriteFails(o) \/ Store!Crash(o)
  PROVE  StoreInv'
<1> USE DEF StoreInv
<1>0. puts \in 0..MaxPuts /\ mishaps \in 0..MaxMishaps /\ Store!StoreAssumption
  BY DEF StoreTypes
<1>1. CASE Store!Open(o)
  BY <1>0, <1>1, Resting, OnlyItMoves DEF Store!Open, Store!Goes
<1>2. CASE Store!Opened(o)
  BY <1>0, <1>2, Resting, OnlyItMoves DEF Store!Opened, Store!Goes
<1>3. CASE Store!Close(o) \/ Store!Crash(o)
  <2>1. Store!Becomes(o, Store!Closed) /\ UNCHANGED <<index, files, now, Store!history, puts>>
    BY <1>3 DEF Store!Close, Store!Crash
  <2>2. mishaps' \in 0..MaxMishaps
    BY <1>0, <1>3 DEF Store!Close, Store!Crash, Store!StoreAssumption
  <2>3. Store!Closed \in Opening /\ Store!Closed.pc = "closed"
    BY <1>0, StoreConstantsSay DEF Store!Closed
  <2>4. Sound(Store!Closed, Held, lasting)
    BY <2>3, IdleIsSound
  <2> QED BY <1>0, <2>1, <2>2, <2>3, <2>4, OnlyItMoves
<1>4. CASE Store!WriteFails(o)
  <2>1. Store!Becomes(o, Store!NotKept(o)) /\ UNCHANGED <<index, files, now, Store!history, puts>>
    BY <1>4 DEF Store!WriteFails
  <2>2. mishaps' \in 0..MaxMishaps
    BY <1>0, <1>4 DEF Store!WriteFails, Store!StoreAssumption
  <2>3. Sound(Store!NotKept(o), Held, lasting)
    BY NotKeptIs, IdleIsSound
  <2> QED BY <1>0, <2>1, <2>2, <2>3, NotKeptIs, OnlyItMoves
<1> QED BY <1>1, <1>2, <1>3, <1>4

\* What an opening reads of the index is what the index says.
LEMMA ReadSteps ==
  ASSUME StoreInv, NEW o \in Store!Openings, Store!OpenReads(o) \/ Store!Reload(o) \/ Store!Merge(o)
  PROVE  StoreInv'
<1> PICK from, then : /\ <<from, then>> \in {<<"reading", "sweeping">>, <<"ready", "ready">>, <<"merging", "writing">>}
                      /\ Store!ReadIndex(o, from, then)
  BY DEF Store!OpenReads, Store!Reload, Store!Merge
<1> PICK old : old = open[o]
  OBVIOUS
<1>0. old \in Opening /\ StoreTypes /\ Sound(old, Held, lasting) /\ Store!StoreAssumption
  BY DEF StoreInv, StoreTypes, OpeningsAreSound
<1>1. CASE index = Unreadable
  <2> PICK new : new = [old EXCEPT !.pc = "aside", !.then = then]
    OBVIOUS
  <2>1. Store!Becomes(o, new) /\ UNCHANGED <<index, files, now, puts, mishaps, Store!history>> /\ old.pc = from
    BY <1>1 DEF Store!ReadIndex
  <2>2. /\ new \in Opening /\ new.pc = "aside" /\ new.then = then
        /\ new.key = old.key /\ new.answer = old.answer
    BY <1>0 DEF Opening
  <2>3. Sound(new, Held, lasting)
    <3>1. CASE then # "writing"
      BY <2>2, <3>1, IdleIsSound
    <3>2. CASE then = "writing"
      <4>1. old.pc = "merging" /\ IsWriting(old) /\ IsWriting(new)
        BY <2>1, <2>2, <3>2 DEF IsWriting
      <4> QED BY <1>0, <2>2, <4>1 DEF Sound, HasAnswer, HasImages, IsFresh
    <3> QED BY <3>1, <3>2
  <2> QED BY <1>0, <2>1, <2>2, <2>3, OnlyItMoves DEF StoreTypes
<1>2. CASE index # Unreadable
  <2> PICK said : said = IF index = Absent THEN Store!Nothing ELSE index
    OBVIOUS
  <2>1. said \in [Keys -> Store!Entry] /\ said = Store!Entries
    BY <1>0, <1>2, StoreConstantsSay DEF StoreTypes, Store!Entries
  <2> PICK mine : mine = IF then = "writing" THEN old.entries ELSE said
    OBVIOUS
  <2> PICK new : new = [old EXCEPT !.pc = then, !.read = said, !.entries = mine]
    OBVIOUS
  <2>2. Store!Becomes(o, new) /\ UNCHANGED <<index, files, now, puts, mishaps, Store!history>> /\ old.pc = from
    BY <1>2 DEF Store!ReadIndex
  <2>3. /\ new \in Opening /\ new.pc = then /\ new.read = said
        /\ new.key = old.key /\ new.answer = old.answer
    BY <1>0, <2>1 DEF Opening
  <2>4. Sound(new, Held, lasting)
    <3>1. CASE then # "writing"
      BY <2>3, <3>1, IdleIsSound
    <3>2. CASE then = "writing"
      <4>1. old.pc = "merging" /\ new.pc = "writing" /\ IsWriting(old) /\ IsWriting(new)
        BY <2>2, <2>3, <3>2 DEF IsWriting
      <4>2. HasAnswer(new)
        BY <1>0, <2>3, <4>1 DEF Sound, HasAnswer
      <4>3. HasImages(new, Held)
        BY <1>0, <2>1, <2>3, <4>1 DEF Sound, HasImages, StoreInv, ImagesAreHeld
      <4>4. IsFresh(new, lasting)
        BY <2>1, <2>3 DEF IsFresh, StoreInv, Store!EntriesSurvive
      <4> QED BY <4>2, <4>3, <4>4 DEF Sound
    <3> QED BY <3>1, <3>2
  <2> QED BY <1>0, <2>2, <2>3, <2>4, OnlyItMoves DEF StoreTypes
<1> QED BY <1>1, <1>2

LEMMA LookSteps ==
  ASSUME StoreInv, NEW o \in Store!Openings, NEW k \in Keys, Store!Look(o, k)
  PROVE  StoreInv'
<1> PICK old : old = open[o]
  OBVIOUS
<1> PICK asking : asking = IF o \in Commands THEN old.asked \cup {k} ELSE old.asked
  OBVIOUS
<1>0. old \in Opening /\ StoreTypes /\ Sound(old, Held, lasting) /\ Store!StoreAssumption
  BY DEF StoreInv, StoreTypes, OpeningsAreSound
<1>1. asking \in SUBSET Keys
  BY <1>0 DEF Opening
<1>2. Store!Asked(o, k) = [old EXCEPT !.key = k, !.asked = asking]
  BY DEF Store!Asked
<1> PICK a : a \in Store!Answers /\ a.kept /\
             Store!Becomes(o, IF a.status = "found"
               THEN [Store!Asked(o, k) EXCEPT !.pc = "label", !.answer = Store!FoundEntry(a.image, now)]
               ELSE [Store!Asked(o, k) EXCEPT !.pc = "merging", !.answer = Store!NotFoundEntry(now)])
  BY DEF Store!Look
<1>3. UNCHANGED <<index, files, now, mishaps, Store!history>> /\ puts' \in 0..MaxPuts
  BY <1>0 DEF Store!Look, StoreTypes, Store!StoreAssumption
<1>4. now \in 0..MaxTime /\ mishaps' \in 0..MaxMishaps
  BY <1>0, <1>3 DEF StoreTypes
<1>5. CASE a.status = "found"
  <2> PICK e : e = Store!FoundEntry(a.image, now)
    OBVIOUS
  <2>1. e \in Store!Entry /\ e.status = "found"
    BY <1>4, <1>5, NewEntries DEF Store!Pictures
  <2> PICK new : new = [[old EXCEPT !.key = k, !.asked = asking] EXCEPT !.pc = "label", !.answer = e]
    OBVIOUS
  <2>2. Store!Becomes(o, new)
    BY <1>2, <1>5
  <2>3. new \in Opening /\ new.pc = "label" /\ new.key = k /\ new.answer = e
    BY <1>0, <1>1, <2>1 DEF Opening
  <2>4. Sound(new, Held, lasting)
    BY <2>1, <2>3 DEF Sound, HasAnswer, HasImages, IsFresh, IsWriting
  <2> QED BY <1>3, <1>4, <2>2, <2>3, <2>4, OnlyItMoves
<1>6. CASE a.status # "found"
  <2> PICK e : e = Store!NotFoundEntry(now)
    OBVIOUS
  <2>1. e \in Store!Entry /\ e # Store!Unknown /\ Store!ImagesOf(e) = {}
    BY <1>4, NewEntries
  <2> PICK new : new = [[old EXCEPT !.key = k, !.asked = asking] EXCEPT !.pc = "merging", !.answer = e]
    OBVIOUS
  <2>2. Store!Becomes(o, new)
    BY <1>2, <1>6
  <2>3. new \in Opening /\ new.pc = "merging" /\ new.key = k /\ new.answer = e
    BY <1>0, <1>1, <2>1 DEF Opening
  <2>4. Sound(new, Held, lasting)
    BY <2>1, <2>3 DEF Sound, HasAnswer, HasImages, IsFresh, IsWriting
  <2> QED BY <1>3, <1>4, <2>2, <2>3, <2>4, OnlyItMoves
<1> QED BY <1>5, <1>6

\* An image that is written is there, and no other goes.
LEMMA WriteSteps ==
  ASSUME StoreInv, NEW o \in Store!Openings, Store!WriteLabel(o) \/ Store!WriteThumb(o)
  PROVE  StoreInv'
<1> PICK variant, then : /\ <<variant, then>> \in {<<"label", "thumb">>, <<"thumb", "merging">>}
                         /\ Store!WriteImage(o, variant, then)
  BY DEF Store!WriteLabel, Store!WriteThumb
<1> PICK old : old = open[o]
  OBVIOUS
<1> PICK image : image = Store!Normalized(old.answer.picture)[variant]
  OBVIOUS
<1> PICK new : new = [old EXCEPT !.pc = then]
  OBVIOUS
<1>0. old \in Opening /\ StoreTypes /\ Sound(old, Held, lasting) /\ Store!StoreAssumption
  BY DEF StoreInv, StoreTypes, OpeningsAreSound
<1>1. /\ old.pc = variant /\ Store!Becomes(o, new) /\ UNCHANGED <<index, now, puts, mishaps, lasting>>
      /\ files' = IF Store!IsFile(image) THEN files ELSE [files EXCEPT ![image] = now]
      /\ overrun' = overrun \ {image}
  BY DEF Store!WriteImage, Store!Goes
<1>2. old.answer \in Store!Entry /\ old.answer.status = "found" /\ old.key \in Keys
  BY <1>0, <1>1 DEF Opening, Sound, HasAnswer
<1>3. Store!ImagesOf(old.answer) = {Store!Normalized(old.answer.picture).label, Store!Normalized(old.answer.picture).thumb}
  BY <1>2, ImagesOfFound
<1>4. image \in Store!Images
  BY <1>2, EntryIs, FilesAreImages
<1>5. now \in 0..MaxTime /\ now # Gone
  BY <1>0 DEF StoreTypes, Store!StoreAssumption
<1>6. files' \in [Store!Images -> 0..MaxTime \cup {Gone}]
  BY <1>0, <1>1, <1>5 DEF StoreTypes
<1>7. files'[image] # Gone /\ \A i \in Store!Images : files[i] # Gone => files'[i] # Gone
  BY <1>0, <1>1, <1>4, <1>5 DEF StoreTypes, Store!IsFile
<1>8. Held \subseteq Held' /\ image \in Held'
  BY <1>0, <1>1, <1>4, <1>7 DEF Held, Store!IsFile, StoreTypes
<1>9. new \in Opening /\ new.pc = then /\ new.answer = old.answer /\ new.key = old.key
  BY <1>0 DEF Opening
<1>10. Sound(new, Held', lasting')
  <2>1. CASE variant = "label"
    BY <1>2, <1>8, <1>9, <2>1 DEF Sound, HasAnswer, HasImages, IsFresh, IsWriting
  <2>2. CASE variant = "thumb"
    <3>1. Store!Normalized(old.answer.picture).label \in Held
      BY <1>0, <1>1, <2>2 DEF Sound, HasImages
    <3>2. Store!ImagesOf(new.answer) \subseteq Held'
      BY <1>3, <1>8, <1>9, <2>2, <3>1
    <3>3. new.answer # Store!Unknown
      BY <1>0, <1>2, <1>9, StoreConstantsSay
    <3> QED BY <1>2, <1>9, <2>2, <3>2, <3>3 DEF Sound, HasAnswer, HasImages, IsFresh, IsWriting
  <2> QED BY <2>1, <2>2
<1>11. open' \in [Store!Openings -> Opening] /\ OpeningsAreSound'
  BY <1>1, <1>8, <1>9, <1>10, OneMoves DEF StoreInv
<1>12. StoreTypes'
  BY <1>0, <1>1, <1>6, <1>11 DEF StoreTypes
<1>13. ImagesAreHeld' /\ Store!EntriesSurvive'
  BY <1>1, <1>8 DEF StoreInv, ImagesAreHeld, Store!EntriesSurvive, Store!Entries
<1> QED BY <1>11, <1>12, <1>13 DEF StoreInv

\* An image somebody needs goes only where it is noted.
LEMMA RemoveSteps ==
  ASSUME StoreInv, NEW o \in Store!Openings, NEW image \in Store!Images, Store!RemoveOrphan(o, image)
  PROVE  StoreInv'
<1>0. StoreTypes /\ OpeningsAreSound /\ Store!StoreAssumption
  BY DEF StoreInv, StoreTypes
<1>1. /\ Store!IsFile(image) /\ files[image] < now /\ image \notin Store!Referenced(open[o].entries)
      /\ files' = [files EXCEPT ![image] = Gone]
      /\ UNCHANGED <<index, now, open, puts, mishaps, lasting>>
      /\ overrun' = IF Store!IsAwaited(image) \/ index # open[o].entries
                      THEN overrun \cup {image} ELSE overrun
  BY DEF Store!RemoveOrphan, Store!Orphans, Store!OldEnough
<1>2. StoreTypes'
  BY <1>0, <1>1 DEF StoreTypes
<1>3. Held \ {image} \subseteq Held'
  BY <1>0, <1>1 DEF Held, Store!IsFile, StoreTypes
<1>4. CASE Store!IsAwaited(image) \/ index # open[o].entries
  <2>1. Held \subseteq Held'
    BY <1>1, <1>3, <1>4 DEF Held
  <2>2. OpeningsAreSound'
    BY <1>0, <1>1, <2>1, StaysSound DEF OpeningsAreSound
  <2>3. ImagesAreHeld' /\ Store!EntriesSurvive'
    BY <1>1, <2>1 DEF StoreInv, ImagesAreHeld, Store!EntriesSurvive, Store!Entries
  <2> QED BY <1>2, <2>2, <2>3 DEF StoreInv
<1>5. CASE ~Store!IsAwaited(image) /\ index = open[o].entries
  <2>1. ASSUME NEW p \in Store!Openings PROVE Sound(open[p], Held', lasting)
    <3> PICK one : one = open[p]
      OBVIOUS
    <3>0. one \in Opening /\ Sound(one, Held, lasting)
      BY <1>0 DEF StoreTypes, OpeningsAreSound
    <3>1. one.pc \in {"thumb", "merging", "aside", "writing"} =>
            image \notin Store!ImagesOf(one.answer) \cup Store!Referenced(one.read)
      BY <1>5 DEF Store!IsAwaited
    <3>2. one.pc = "thumb" => Store!Normalized(one.answer.picture).label \in Store!ImagesOf(one.answer)
      BY <3>0, ImagesOfFound DEF Sound, HasAnswer
    <3>3. HasImages(one, Held')
      BY <1>3, <3>0, <3>1, <3>2 DEF Sound, HasImages, IsWriting
    <3> QED BY <3>0, <3>3 DEF Sound
  <2>2. OpeningsAreSound'
    BY <1>1, <2>1 DEF OpeningsAreSound
  <2>3. Store!Referenced(Store!Entries) \subseteq Held \ {image}
    BY <1>0, <1>1, <1>5, StoreConstantsSay DEF StoreInv, ImagesAreHeld, Store!Entries
  <2>4. ImagesAreHeld' /\ Store!EntriesSurvive'
    BY <1>1, <1>3, <2>3 DEF StoreInv, ImagesAreHeld, Store!EntriesSurvive, Store!Entries
  <2> QED BY <1>2, <2>2, <2>4 DEF StoreInv
<1> QED BY <1>4, <1>5

\* The index that is written: no write that began earlier forgets its entry.
LEMMA WriteIndexSteps ==
  ASSUME StoreInv, NEW o \in Store!Openings, Store!WriteIndex(o)
  PROVE  StoreInv'
<1> PICK old : old = open[o]
  OBVIOUS
<1> PICK said : said = [old.read EXCEPT ![old.key] = old.answer]
  OBVIOUS
<1> PICK new : new = [old EXCEPT !.pc = "ready", !.entries = said, !.read = Store!Nothing,
                        !.key = NoKey, !.answer = Store!Unknown]
  OBVIOUS
<1>0. old \in Opening /\ StoreTypes /\ Sound(old, Held, lasting) /\ Store!StoreAssumption
  BY DEF StoreInv, StoreTypes, OpeningsAreSound
<1>1. /\ old.pc = "writing" /\ index' = said /\ Store!Becomes(o, new)
      /\ lasting' = [lasting EXCEPT ![old.key] = ~Store!Overlaps(o)]
      /\ UNCHANGED <<files, now, puts, mishaps, overrun>>
  BY DEF Store!WriteIndex
<1>2. /\ old.key \in Keys /\ old.answer # Store!Unknown /\ old.answer \in Store!Entry
      /\ old.read \in [Keys -> Store!Entry]
      /\ Store!ImagesOf(old.answer) \subseteq Held /\ Store!Referenced(old.read) \subseteq Held
      /\ \A k \in Keys : lasting[k] => old.read[k] # Store!Unknown
  BY <1>0, <1>1 DEF Sound, HasAnswer, HasImages, IsFresh, IsWriting, Opening
<1>3. said \in [Keys -> Store!Entry] /\ \A k \in Keys : said[k] = IF k = old.key THEN old.answer ELSE old.read[k]
  BY <1>2
<1>4. new \in Opening /\ new.pc = "ready"
  BY <1>0, <1>3, StoreConstantsSay DEF Opening
<1>5. Held' = Held
  BY <1>1 DEF Held, Store!IsFile
<1>6. Sound(new, Held', lasting')
  BY <1>4, IdleIsSound
<1>7. lasting' \in [Keys -> BOOLEAN] /\ \A k \in Keys : k # old.key => lasting'[k] = lasting[k]
  BY <1>0, <1>1 DEF StoreTypes
<1>8. \/ \A k \in Keys : lasting'[k] => lasting[k]
      \/ \A p \in Store!Openings \ {o} : open[p].pc # "writing"
  <2>1. CASE Store!Overlaps(o)
    <3>1. lasting'[old.key] = FALSE
      BY <1>0, <1>1, <1>2, <2>1 DEF StoreTypes
    <3> QED BY <1>7, <3>1
  <2>2. CASE ~Store!Overlaps(o)
    BY <2>2 DEF Store!Overlaps
  <2> QED BY <2>1, <2>2
<1>9. open' \in [Store!Openings -> Opening] /\ OpeningsAreSound'
  BY <1>0, <1>1, <1>4, <1>5, <1>6, <1>8, OneMoves DEF StoreInv
<1>10. StoreTypes'
  BY <1>0, <1>1, <1>3, <1>7, <1>9 DEF StoreTypes
<1>11. Store!Entries' = said
  BY <1>0, <1>1, <1>3 DEF Store!Entries, Store!StoreAssumption
<1>12. ImagesAreHeld'
  BY <1>2, <1>3, <1>5, <1>11 DEF ImagesAreHeld, Store!Referenced
<1>13. Store!EntriesSurvive'
  BY <1>2, <1>3, <1>7, <1>11 DEF Store!EntriesSurvive
<1> QED BY <1>9, <1>10, <1>12, <1>13 DEF StoreInv

\* An index that nobody can read, or that somebody set aside, says nothing.
LEMMA NothingSaid ==
  ASSUME StoreInv, index \in {Absent, Unreadable}
  PROVE  \A k \in Keys : ~lasting[k]
  BY StoreConstantsSay DEF StoreInv, StoreTypes, Store!EntriesSurvive, Store!Entries

LEMMA SetAsideSteps ==
  ASSUME StoreInv, NEW o \in Store!Openings, Store!SetAside(o)
  PROVE  StoreInv'
<1> PICK old : old = open[o]
  OBVIOUS
<1>0. old \in Opening /\ StoreTypes /\ Sound(old, Held, lasting) /\ Store!StoreAssumption
  BY DEF StoreInv, StoreTypes, OpeningsAreSound
<1>1. /\ old.pc = "aside" /\ index' = Absent /\ UNCHANGED <<files, now, puts, mishaps, overrun>>
      /\ lasting' = IF index \in {Absent, Unreadable} THEN lasting ELSE [k \in Keys |-> FALSE]
  BY DEF Store!SetAside
<1>2. lasting' \in [Keys -> BOOLEAN] /\ \A k \in Keys : ~lasting'[k]
  BY <1>0, <1>1, NothingSaid DEF StoreTypes
<1>3. Held' = Held /\ Store!Entries' = Store!Nothing
  BY <1>1 DEF Held, Store!IsFile, Store!Entries
<1>4. PICK new : new \in Opening /\ Store!Becomes(o, new) /\ Sound(new, Held, lasting')
  <2>1. CASE index # Absent
    <3> PICK mine : mine = IF old.then = "writing" THEN old.entries ELSE Store!Nothing
      OBVIOUS
    <3> PICK new : new = [old EXCEPT !.pc = old.then, !.read = Store!Nothing, !.entries = mine]
      OBVIOUS
    <3>1. Store!Becomes(o, new)
      BY <2>1 DEF Store!SetAside
    <3>0. mine \in [Keys -> Store!Entry] /\ Store!Nothing \in [Keys -> Store!Entry]
      BY <1>0, StoreConstantsSay DEF Opening
    <3>2. /\ new \in Opening /\ new.pc = old.then /\ new.read = Store!Nothing
          /\ new.answer = old.answer /\ new.key = old.key
      BY <1>0, <3>0 DEF Opening
    <3>3. old.then \in {"closed", "sweeping", "ready", "writing"}
      BY <1>0 DEF Opening
    <3>4. CASE old.then # "writing"
      <4>1. Sound(new, Held, lasting')
        BY <3>2, <3>3, <3>4, IdleIsSound
      <4> QED BY <3>1, <3>2, <4>1
    <3>5. CASE old.then = "writing"
      <4>1. IsWriting(old) /\ IsWriting(new)
        BY <1>1, <3>2, <3>5 DEF IsWriting
      <4>2. HasAnswer(new) /\ HasImages(new, Held)
        BY <1>0, <3>2, <3>5, <4>1, StoreConstantsSay DEF Sound, HasAnswer, HasImages
      <4>3. Sound(new, Held, lasting')
        BY <1>2, <4>2 DEF Sound, IsFresh
      <4> QED BY <3>1, <3>2, <4>3
    <3> QED BY <3>4, <3>5
  <2>2. CASE index = Absent /\ old.then = "sweeping"
    <3>1. Store!Becomes(o, Store!Closed)
      BY <2>2 DEF Store!SetAside
    <3>2. Store!Closed \in Opening /\ Sound(Store!Closed, Held, lasting')
      BY <1>0, StoreConstantsSay, IdleIsSound DEF Store!Closed
    <3> QED BY <3>1, <3>2
  <2>3. CASE index = Absent /\ old.then # "sweeping"
    <3>1. Store!Becomes(o, Store!NotKept(o))
      BY <2>3 DEF Store!SetAside
    <3>2. Store!NotKept(o) \in Opening /\ Sound(Store!NotKept(o), Held, lasting')
      BY <1>0, NotKeptIs, IdleIsSound
    <3> QED BY <3>1, <3>2
  <2> QED BY <2>1, <2>2, <2>3
<1>5. open' \in [Store!Openings -> Opening] /\ OpeningsAreSound'
  BY <1>0, <1>2, <1>3, <1>4, OneMoves DEF StoreInv
<1>6. StoreTypes'
  BY <1>0, <1>1, <1>2, <1>5 DEF StoreTypes
<1>7. ImagesAreHeld' /\ Store!EntriesSurvive'
  BY <1>0, <1>2, <1>3, StoreConstantsSay DEF ImagesAreHeld, Store!EntriesSurvive
<1> QED BY <1>5, <1>6, <1>7 DEF StoreInv

LEMMA WorldSteps ==
  ASSUME StoreInv, Store!IndexIsSpoilt \/ Store!TimePasses
  PROVE  StoreInv'
<1>0. StoreTypes /\ OpeningsAreSound /\ Store!StoreAssumption
  BY DEF StoreInv, StoreTypes
<1>1. CASE Store!IndexIsSpoilt
  <2>1. /\ index' = Unreadable /\ lasting' = [k \in Keys |-> FALSE]
        /\ UNCHANGED <<files, now, open, puts, overrun>> /\ mishaps' \in 0..MaxMishaps
    BY <1>0, <1>1 DEF Store!IndexIsSpoilt, StoreTypes, Store!StoreAssumption
  <2>2. Held' = Held /\ Store!Entries' = Store!Nothing
    BY <2>1 DEF Held, Store!IsFile, Store!Entries
  <2>3. StoreTypes'
    BY <1>0, <2>1 DEF StoreTypes
  <2>4. OpeningsAreSound'
    BY <1>0, <2>1, <2>2, StaysSound DEF OpeningsAreSound
  <2>5. ImagesAreHeld' /\ Store!EntriesSurvive'
    BY <1>0, <2>1, <2>2, StoreConstantsSay DEF ImagesAreHeld, Store!EntriesSurvive
  <2> QED BY <2>3, <2>4, <2>5 DEF StoreInv
<1>2. CASE Store!TimePasses
  <2>1. UNCHANGED <<index, files, open, puts, mishaps, Store!history>> /\ now' \in 0..MaxTime
    BY <1>0, <1>2 DEF Store!TimePasses, StoreTypes, Store!StoreAssumption
  <2>2. StoreTypes'
    BY <1>0, <2>1 DEF StoreTypes, Store!history
  <2> QED BY <2>1, <2>2 DEF StoreInv, OpeningsAreSound, ImagesAreHeld, Store!EntriesSurvive, Held, Store!IsFile,
                            Store!Entries, Store!history
<1> QED BY <1>1, <1>2

LEMMA StoreStep == StoreInv /\ [Store!Next]_(Store!vars) => StoreInv'
<1> SUFFICES ASSUME StoreInv, [Store!Next]_(Store!vars) PROVE StoreInv'
  OBVIOUS
<1>1. ASSUME NEW o \in Store!Openings, Store!StoreStep(o) PROVE StoreInv'
  BY <1>1, OpenSteps, ReadSteps, SetAsideSteps, RemoveSteps, WriteSteps, WriteIndexSteps DEF Store!StoreStep
<1>2. ASSUME NEW o \in Workers, Store!WorkerStep(o) PROVE StoreInv'
  BY <1>1, <1>2, ReadSteps, LookSteps DEF Store!WorkerStep, Store!Openings
<1>3. ASSUME NEW o \in Commands, Store!CommandStep(o) PROVE StoreInv'
  BY <1>1, <1>3, LookSteps DEF Store!CommandStep, Store!Openings
<1>4. CASE UNCHANGED Store!vars
  BY <1>4 DEF Store!vars, Store!history, StoreInv, StoreTypes, OpeningsAreSound, ImagesAreHeld,
         Store!EntriesSurvive, Held,
              Store!IsFile, Store!Entries
<1> QED BY <1>2, <1>3, <1>4, WorldSteps DEF Store!Next

LEMMA StoreInit == Store!StoreAssumption /\ Store!Init => StoreInv
<1> SUFFICES ASSUME Store!StoreAssumption, Store!Init PROVE StoreInv
  OBVIOUS
<1>1. StoreTypes
  BY StoreConstantsSay DEF Store!Init, StoreTypes, Store!StoreAssumption
<1>2. OpeningsAreSound
  BY IdleIsSound DEF Store!Init, OpeningsAreSound, Store!Closed
<1>3. ImagesAreHeld /\ Store!EntriesSurvive
  BY StoreConstantsSay DEF Store!Init, ImagesAreHeld, Store!EntriesSurvive, Store!Entries
<1> QED BY <1>1, <1>2, <1>3 DEF StoreInv

LEMMA StoreInvSays == StoreInv => Store!FoundHasItsImages /\ Store!EntriesSurvive /\ Store!TypeOK
  BY DEF StoreInv, ImagesAreHeld, Store!FoundHasItsImages, Held, StoreTypes, Store!TypeOK, Opening

\* Whatever the openings of one cache do to each other, and wherever one of them
\* dies, an entry that says a cover was found has both its images, but for one
\* left over for an hour and taken again while another open removes it
\* (ArtworkCache::put, ArtworkCache::open).
THEOREM FoundKeepsItsImages == Store!StoreAssumption => (Store!Spec => []FoundHasItsImages)
<1>1. Store!StoreAssumption /\ Store!Init => StoreInv
  BY StoreInit
<1>2. StoreInv => FoundHasItsImages
  BY StoreInvSays DEF FoundHasItsImages
<1> QED BY <1>1, <1>2, StoreStep, PTL DEF Store!Spec

\* What one opening wrote, another that writes later has merged: an answer is lost
\* only when two writes overlap or the index is spoiled (ArtworkCache::put).
THEOREM EntriesAreMerged == Store!StoreAssumption => (Store!Spec => []EntriesSurvive)
<1>1. Store!StoreAssumption /\ Store!Init => StoreInv
  BY StoreInit
<1>2. StoreInv => EntriesSurvive
  BY StoreInvSays DEF EntriesSurvive
<1> QED BY <1>1, <1>2, StoreStep, PTL DEF Store!Spec

---------------------------------------------------------------------------
(* The chain: the choice of a release.                                     *)

KeyPlaces == 1..6

\* What an answer of MusicBrainz tells of a release.
Keyed(r) ==
  r.id \in Nat /\ r.date \in Nat \cup {Absent}

LEMMA KeyIs ==
  ASSUME NEW r, Keyed(r), Absent \notin Nat
  PROVE  /\ Store!ReleaseKey(r) \in [KeyPlaces -> Nat] /\ DOMAIN Store!ReleaseKey(r) = KeyPlaces
         /\ Store!ReleaseKey(r)[6] = r.id
<1>1. Store!TypeRank(r.kind) \in Nat
  BY DEF Store!TypeRank
<1>2. (IF r.date = Absent THEN 0 ELSE r.date) \in Nat
  BY DEF Keyed
<1> PICK rank \in Nat : rank = Store!TypeRank(r.kind)
  BY <1>1
<1> PICK date \in Nat : date = IF r.date = Absent THEN 0 ELSE r.date
  BY <1>2
<1> PICK off \in Nat : off = IF r.official THEN 0 ELSE 1
  OBVIOUS
<1> PICK extra \in Nat : extra = IF r.secondary THEN 1 ELSE 0
  OBVIOUS
<1> PICK none \in Nat : none = IF r.date = Absent THEN 1 ELSE 0
  OBVIOUS
<1> PICK id \in Nat : id = r.id
  BY DEF Keyed
<1>3. Store!ReleaseKey(r) = <<off, extra, rank, none, date, id>>
  BY DEF Store!ReleaseKey
<1> QED BY <1>3 DEF KeyPlaces

LEMMA Least ==
  ASSUME NEW T, T # {}, NEW f, \A x \in T : f[x] \in Nat
  PROVE  \E x \in T : \A y \in T : f[x] <= f[y]
<1> DEFINE values == {f[x] : x \in T}
<1>1. values \subseteq Nat /\ values # {}
  OBVIOUS
<1>2. PICK n \in values : \A m \in values : n <= m
  BY <1>1, Smallest
<1>3. PICK x \in T : f[x] = n
  OBVIOUS
<1> QED BY <1>2, <1>3

\* Of two different keys one precedes the other.
LEMMA OrderIsTotal ==
  ASSUME NEW a \in [KeyPlaces -> Nat], NEW b \in [KeyPlaces -> Nat],
         ~Store!Precedes(a, b), ~Store!Precedes(b, a)
  PROVE  a = b
<1> DEFINE apart == {i \in KeyPlaces : a[i] # b[i]}
<1>1. CASE apart = {}
  BY <1>1
<1>2. CASE apart # {}
  <2>1. PICK i \in apart : \A j \in apart : i <= j
    <3>1. apart \subseteq Nat
      BY DEF KeyPlaces
    <3> QED BY <1>2, <3>1, Smallest
  <2>2. \A j \in 1..(i - 1) : a[j] = b[j]
    <3> TAKE j \in 1..(i - 1)
    <3>1. j \in KeyPlaces /\ ~(i <= j)
      BY DEF KeyPlaces
    <3> QED BY <2>1, <3>1
  <2>3. a[i] < b[i] \/ b[i] < a[i]
    <3>1. a[i] \in Nat /\ b[i] \in Nat /\ a[i] # b[i]
      OBVIOUS
    <3> QED BY <3>1
  <2>4. DOMAIN a = KeyPlaces /\ DOMAIN b = KeyPlaces /\ i \in KeyPlaces
    OBVIOUS
  <2>5. \A j \in 1..(i - 1) : b[j] = a[j]
    BY <2>2
  <2> QED BY <2>2, <2>3, <2>4, <2>5 DEF Store!Precedes
<1> QED BY <1>1, <1>2

\* Some place of a list has a key that no other precedes, ...
LEMMA LeastKey ==
  ASSUME NEW T, T # {}, NEW key \in [T -> [KeyPlaces -> Nat]]
  PROVE  \E x \in T : \A y \in T : ~Store!Precedes(key[y], key[x])
<1> DEFINE at(i) == [x \in T |-> key[x][i]]
           least(S, i) == {x \in S : \A y \in S : key[x][i] <= key[y][i]}
<1>0. \A x \in T, i \in KeyPlaces : key[x][i] \in Nat
  OBVIOUS
<1>1. ASSUME NEW S \in SUBSET T, S # {}, NEW i \in KeyPlaces PROVE least(S, i) # {}
  <2>1. \A x \in S : at(i)[x] \in Nat
    BY <1>0
  <2>2. \E x \in S : \A y \in S : at(i)[x] <= at(i)[y]
    BY ONLY <1>1, <2>1, Least
  <2> QED BY <2>2
<1> DEFINE T1 == least(T, 1)
           T2 == least(T1, 2)
           T3 == least(T2, 3)
           T4 == least(T3, 4)
           T5 == least(T4, 5)
           T6 == least(T5, 6)
<1>2. T1 \in SUBSET T /\ T2 \in SUBSET T1 /\ T3 \in SUBSET T2 /\ T4 \in SUBSET T3 /\ T5 \in SUBSET T4 /\ T6 \in SUBSET T5
  OBVIOUS
<1> HIDE DEF least
<1>3. T1 \in SUBSET T /\ T2 \in SUBSET T /\ T3 \in SUBSET T /\ T4 \in SUBSET T /\ T5 \in SUBSET T
  <2> HIDE DEF T1, T2, T3, T4, T5, T6
  <2> QED BY <1>2
<1>a. 1 \in KeyPlaces /\ 2 \in KeyPlaces /\ 3 \in KeyPlaces /\ 4 \in KeyPlaces /\ 5 \in KeyPlaces /\ 6 \in KeyPlaces
  BY DEF KeyPlaces
<1>4. T1 # {}
  BY <1>1, <1>a
<1>5. T2 # {}
  <2> HIDE DEF T1
  <2> QED BY <1>1, <1>3, <1>4, <1>a
<1>6. T3 # {}
  <2> HIDE DEF T2
  <2> QED BY <1>1, <1>3, <1>5, <1>a
<1>7. T4 # {}
  <2> HIDE DEF T3
  <2> QED BY <1>1, <1>3, <1>6, <1>a
<1>8. T5 # {}
  <2> HIDE DEF T4
  <2> QED BY <1>1, <1>3, <1>7, <1>a
<1>9. T6 # {}
  <2> HIDE DEF T5
  <2> QED BY <1>1, <1>3, <1>8, <1>a
<1> PICK x : x \in T6
  BY <1>9
<1>10. /\ x \in T /\ x \in T1 /\ x \in T2 /\ x \in T3 /\ x \in T4 /\ x \in T5
       /\ \A y \in T : key[x][1] <= key[y][1] /\ (key[y][1] = key[x][1] => y \in T1)
       /\ \A y \in T1 : key[x][2] <= key[y][2] /\ (key[y][2] = key[x][2] => y \in T2)
       /\ \A y \in T2 : key[x][3] <= key[y][3] /\ (key[y][3] = key[x][3] => y \in T3)
       /\ \A y \in T3 : key[x][4] <= key[y][4] /\ (key[y][4] = key[x][4] => y \in T4)
       /\ \A y \in T4 : key[x][5] <= key[y][5] /\ (key[y][5] = key[x][5] => y \in T5)
       /\ \A y \in T5 : key[x][6] <= key[y][6]
  <2>1. ASSUME NEW S, NEW i, x \in least(S, i)
        PROVE  x \in S /\ \A y \in S : key[x][i] <= key[y][i] /\ (key[y][i] = key[x][i] => y \in least(S, i))
    BY <2>1 DEF least
  <2>6. x \in T5 /\ \A y \in T5 : key[x][6] <= key[y][6]
    <3> HIDE DEF T5
    <3> QED BY <2>1
  <2>5. x \in T4 /\ \A y \in T4 : key[x][5] <= key[y][5] /\ (key[y][5] = key[x][5] => y \in T5)
    <3> HIDE DEF T4
    <3> QED BY <2>1, <2>6
  <2>4. x \in T3 /\ \A y \in T3 : key[x][4] <= key[y][4] /\ (key[y][4] = key[x][4] => y \in T4)
    <3> HIDE DEF T3
    <3> QED BY <2>1, <2>5
  <2>3. x \in T2 /\ \A y \in T2 : key[x][3] <= key[y][3] /\ (key[y][3] = key[x][3] => y \in T3)
    <3> HIDE DEF T2
    <3> QED BY <2>1, <2>4
  <2>2. x \in T1 /\ \A y \in T1 : key[x][2] <= key[y][2] /\ (key[y][2] = key[x][2] => y \in T2)
    <3> HIDE DEF T1
    <3> QED BY <2>1, <2>3
  <2>7. x \in T /\ \A y \in T : key[x][1] <= key[y][1] /\ (key[y][1] = key[x][1] => y \in T1)
    BY <2>1, <2>2
  <2> HIDE DEF T1, T2, T3, T4, T5, T6
  <2> QED BY <2>2, <2>3, <2>4, <2>5, <2>6, <2>7
<1> HIDE DEF T1, T2, T3, T4, T5, T6
<1>11. ASSUME NEW y \in T, Store!Precedes(key[y], key[x]) PROVE FALSE
  <2>1. PICK i \in KeyPlaces : key[y][i] < key[x][i] /\ \A j \in 1..(i - 1) : key[y][j] = key[x][j]
    <3>1. DOMAIN key[y] = KeyPlaces
      OBVIOUS
    <3> QED BY <1>11, <3>1 DEF Store!Precedes
  <2>2. ~(key[x][i] <= key[y][i])
    <3>1. key[x][i] \in Nat /\ key[y][i] \in Nat
      BY <1>0, <1>10
    <3> QED BY <2>1, <3>1
  <2>3. i \in {1, 2, 3, 4, 5, 6}
    BY DEF KeyPlaces
  <2>4. /\ i > 1 => key[y][1] = key[x][1]
        /\ i > 2 => key[y][2] = key[x][2]
        /\ i > 3 => key[y][3] = key[x][3]
        /\ i > 4 => key[y][4] = key[x][4]
        /\ i > 5 => key[y][5] = key[x][5]
    BY <2>1, <2>3
  <2>5. CASE i = 1
    BY <1>10, <2>2, <2>5
  <2>6. CASE i = 2
    BY <1>10, <2>2, <2>4, <2>6
  <2>7. CASE i = 3
    BY <1>10, <2>2, <2>4, <2>7
  <2>8. CASE i = 4
    BY <1>10, <2>2, <2>4, <2>8
  <2>9. CASE i = 5
    BY <1>10, <2>2, <2>4, <2>9
  <2>10. CASE i = 6
    BY <1>10, <2>2, <2>4, <2>10
  <2> QED BY <2>3, <2>5, <2>6, <2>7, <2>8, <2>9, <2>10
<1> QED BY <1>10, <1>11

LEMMA NothingPrecedesItself ==
  ASSUME NEW a \in [KeyPlaces -> Nat]
  PROVE  ~Store!Precedes(a, a)
<1>1. \A i \in KeyPlaces : a[i] \in Nat
  OBVIOUS
<1>2. \A i \in KeyPlaces : ~(a[i] < a[i])
  BY <1>1
<1> QED BY <1>2 DEF Store!Precedes

\* A release that may be asked for is one of the answer, and has a key.
LEMMA TitledAre ==
  ASSUME NEW payload, Store!Listed(payload), Absent \notin Nat, NEW album, NEW i \in Store!Titled(payload, album)
  PROVE  /\ i \in DOMAIN payload /\ i \in Nat /\ Keyed(payload[i])
         /\ payload[i].id # Absent
         /\ Store!ReleaseKey(payload[i]) \in [KeyPlaces -> Nat]
<1>1. i \in DOMAIN payload /\ payload[i].id # Absent
  BY DEF Store!Titled, Store!CollectReleases
<1>2. i \in Nat /\ Keyed(payload[i])
  BY <1>1 DEF Store!Listed, Keyed
<1> QED BY <1>1, <1>2, KeyIs

\* ... and the release that is chosen has such a key.
LEMMA ChosenIs ==
  ASSUME NEW payload, Store!Listed(payload), Absent \notin Nat, NEW album, Store!Titled(payload, album) # {}
  PROVE  \E c \in Store!Titled(payload, album) :
           /\ Store!ChooseRelease(payload, album) = payload[c]
           /\ \A j \in Store!Titled(payload, album) :
                ~Store!Precedes(Store!ReleaseKey(payload[j]), Store!ReleaseKey(payload[c]))
<1> PICK T : T = Store!Titled(payload, album)
  OBVIOUS
<1> PICK key : key = [i \in T |-> Store!ReleaseKey(payload[i])]
  OBVIOUS
<1> DEFINE first == {i \in T : \A j \in T : ~Store!Precedes(key[j], key[i])}
<1>0. \A i \in T : i \in Nat /\ Store!ReleaseKey(payload[i]) \in [KeyPlaces -> Nat]
  BY TitledAre
<1>1. T \subseteq Nat /\ key \in [T -> [KeyPlaces -> Nat]]
  BY <1>0
<1>2. first # {} /\ first \subseteq Nat
  <2>1. T # {}
    OBVIOUS
  <2>2. \E x \in T : \A y \in T : ~Store!Precedes(key[y], key[x])
    BY ONLY <1>1, <2>1, LeastKey
  <2> QED BY <1>1, <2>2
<1>3. PICK s \in first : \A i \in first : s <= i
  BY <1>2, Smallest
<1>4. ASSUME NEW j \in T \ {s} PROVE Store!Leads(payload, s, j)
  <2>1. key[j] = Store!ReleaseKey(payload[j]) /\ key[s] = Store!ReleaseKey(payload[s])
    OBVIOUS
  <2>2. ~Store!Precedes(key[j], key[s])
    BY <1>3
  <2>3. ASSUME j < s PROVE Store!Precedes(key[s], key[j])
    <3>1. j \notin first
      <4>1. ~(s <= j)
        BY <1>1, <2>3
      <4> QED BY <1>3, <4>1
    <3>2. PICK k \in T : Store!Precedes(key[k], key[j])
      BY <3>1
    <3>3. key[j] # key[s]
      BY <1>3, <3>2
    <3>4. key[s] \in [KeyPlaces -> Nat] /\ key[j] \in [KeyPlaces -> Nat]
      BY <1>1
    <3> QED BY <2>2, <3>3, <3>4, OrderIsTotal
  <2> QED BY <2>1, <2>2, <2>3 DEF Store!Leads
<1> PICK c : c = CHOOSE i \in T : \A j \in T \ {i} : Store!Leads(payload, i, j)
  OBVIOUS
<1>5. c \in T /\ \A j \in T \ {c} : Store!Leads(payload, c, j)
  BY <1>4
<1>6. Store!ChooseRelease(payload, album) = payload[c]
  BY DEF Store!ChooseRelease
<1>7. ASSUME NEW j \in T, Store!Precedes(Store!ReleaseKey(payload[j]), Store!ReleaseKey(payload[c])) PROVE FALSE
  <2>1. CASE j = c
    <3>1. Store!ReleaseKey(payload[c]) \in [KeyPlaces -> Nat]
      BY <1>0, <1>5
    <3> QED BY <1>7, <2>1, <3>1, NothingPrecedesItself
  <2>2. CASE j # c
    BY <1>5, <1>7, <2>2 DEF Store!Leads
  <2> QED BY <2>1, <2>2
<1> QED BY <1>5, <1>6, <1>7

\* The order in which the releases are listed decides nothing.
LEMMA AnyOrder ==
  ASSUME NEW payload, Store!Listed(payload), Absent \notin Nat, NEW album,
         NEW p \in [DOMAIN payload -> DOMAIN payload], Store!IsInjective(p)
  PROVE  Store!ChooseRelease([i \in DOMAIN payload |-> payload[p[i]]], album) = Store!ChooseRelease(payload, album)
<1> PICK other : other = [i \in DOMAIN payload |-> payload[p[i]]]
  OBVIOUS
<1> PICK n \in Nat : n = Len(payload) /\ DOMAIN payload = 1..n
  BY DEF Store!Listed
<1>0. payload \in [1..n -> Store!ToSet(payload)]
  BY DEF Store!Listed
<1>1. \A i \in 1..n : \E j \in 1..n : p[j] = i
  <2>1. p \in Injection(1..n, 1..n)
    BY DEF Injection, IsInjective, Store!IsInjective
  <2>2. IsFiniteSet(1..n)
    BY FS_Interval
  <2>3. p \in Surjection(1..n, 1..n)
    BY <2>1, <2>2, FS_Injection
  <2> QED BY <2>3 DEF Surjection
<1>2. Store!Listed(other)
  <2>1. other \in Seq(Store!ToSet(other)) /\ DOMAIN other = 1..n
    <3>1. other \in [1..n -> Store!ToSet(other)]
      BY DEF Store!ToSet
    <3> QED BY <3>1
  <2>0. \A j \in 1..n : other[j] = payload[p[j]] /\ p[j] \in DOMAIN payload
    OBVIOUS
  <2>4. Absent \notin Store!ToSet(other)
    BY <2>0 DEF Store!Listed, Store!ToSet
  <2>3. {Broken, Absent, Store!NoPayload} \cap [DOMAIN other -> Store!ToSet(other)] = {}
    <3>1. DOMAIN other = DOMAIN payload /\ Store!ToSet(other) \subseteq Store!ToSet(payload)
      BY <2>0 DEF Store!ToSet
    <3>2. [DOMAIN other -> Store!ToSet(other)] \subseteq [DOMAIN payload -> Store!ToSet(payload)]
      BY <3>1
    <3> QED BY <3>2 DEF Store!Listed
  <2>2. ASSUME NEW i \in 1..n, other[i].id # Absent
        PROVE  /\ other[i].id \in Nat /\ other[i].date \in Nat \cup {Absent}
               /\ \A j \in 1..n : other[j].id = other[i].id => other[j] = other[i]
    <3>1. other[i] = payload[p[i]] /\ p[i] \in DOMAIN payload
      OBVIOUS
    <3> QED BY <2>0, <2>2, <3>1 DEF Store!Listed
  <2> QED BY <2>1, <2>2, <2>3, <2>4 DEF Store!Listed
<1>3. payload # Store!NoPayload /\ other # Store!NoPayload
  <2>1. other \in [1..n -> Store!ToSet(payload)]
    <3>1. \A i \in 1..n : p[i] \in 1..n
      OBVIOUS
    <3> QED BY <1>0, <3>1
  <2> QED BY <1>0, <2>1 DEF Store!Listed
<1> DEFINE T == Store!Titled(payload, album)
           U == Store!Titled(other, album)
<1>11. \A i \in 1..n : other[i] = payload[p[i]] /\ p[i] \in 1..n
  OBVIOUS
<1>12. \A i \in U : p[i] \in T
  BY <1>3, <1>11 DEF Store!Titled, Store!CollectReleases
<1>13. \A i \in T : \E j \in U : p[j] = i
  BY <1>1, <1>3, <1>11 DEF Store!Titled, Store!CollectReleases
<1>14. CASE T = {}
  <2>1. U = {}
    BY <1>12, <1>14
  <2> QED BY <1>14, <2>1 DEF Store!ChooseRelease
<1>15. CASE T # {}
  <2>1. U # {}
    BY <1>13, <1>15
  <2>2. PICK c \in T : /\ Store!ChooseRelease(payload, album) = payload[c]
                       /\ \A j \in T : ~Store!Precedes(Store!ReleaseKey(payload[j]), Store!ReleaseKey(payload[c]))
    BY <1>15, ChosenIs
  <2>3. PICK d \in U : /\ Store!ChooseRelease(other, album) = other[d]
                       /\ \A j \in U : ~Store!Precedes(Store!ReleaseKey(other[j]), Store!ReleaseKey(other[d]))
    BY <1>2, <2>1, ChosenIs
  <2>4. PICK e \in U : p[e] = c
    BY <1>13
  <2>5. e \in 1..n /\ d \in 1..n /\ c \in 1..n
    BY <1>2, TitledAre
  <2>6. p[d] \in T /\ other[d] = payload[p[d]] /\ other[e] = payload[c]
    BY <1>11, <1>12, <2>4, <2>5
  <2>7. /\ ~Store!Precedes(Store!ReleaseKey(other[d]), Store!ReleaseKey(payload[c]))
        /\ ~Store!Precedes(Store!ReleaseKey(payload[c]), Store!ReleaseKey(other[d]))
    BY <2>2, <2>3, <2>6
  <2>8. /\ Store!ReleaseKey(other[d]) \in [KeyPlaces -> Nat] /\ Store!ReleaseKey(payload[c]) \in [KeyPlaces -> Nat]
        /\ Keyed(other[d]) /\ Keyed(payload[c])
    BY <1>2, TitledAre
  <2>9. Store!ReleaseKey(other[d]) = Store!ReleaseKey(payload[c])
    BY <2>7, <2>8, OrderIsTotal
  <2>10. other[d].id = payload[c].id
    BY <2>8, <2>9, KeyIs
  <2>11. payload[c].id # Absent
    BY TitledAre
  <2> QED BY <2>2, <2>3, <2>5, <2>6, <2>10, <2>11, <1>11 DEF Store!Listed
<1> QED BY <1>14, <1>15

LEMMA ListedIsThere ==
  ASSUME NEW payload, Store!Listed(payload)
  PROVE  payload \notin {Broken, Absent, Store!NoPayload}
<1>1. payload \in [DOMAIN payload -> Store!ToSet(payload)]
  BY DEF Store!Listed, Store!ToSet
<1> QED BY <1>1 DEF Store!Listed

\* The release that is chosen was offered, and none is chosen only of none.
LEMMA ChosenIsOffered ==
  ASSUME NEW payload, payload = Store!NoPayload \/ Store!Listed(payload), Absent \notin Nat, NEW album
  PROVE  \/ /\ Store!ChooseRelease(payload, album) = Absent /\ Store!Titled(payload, album) = {}
         \/ \E i \in Store!Titled(payload, album) :
              /\ payload # Store!NoPayload /\ Store!ChooseRelease(payload, album) = payload[i]
              /\ payload[i] \in Store!ToSet(payload) /\ payload[i] # Absent
<1>1. CASE Store!Titled(payload, album) = {}
  BY <1>1 DEF Store!ChooseRelease
<1>2. CASE Store!Titled(payload, album) # {}
  <2>1. payload # Store!NoPayload /\ Store!Listed(payload)
    BY <1>2 DEF Store!Titled, Store!CollectReleases
  <2>2. PICK i \in Store!Titled(payload, album) : Store!ChooseRelease(payload, album) = payload[i]
    BY <1>2, <2>1, ChosenIs
  <2>3. i \in DOMAIN payload
    BY <2>1, TitledAre
  <2>4. payload[i] \in Store!ToSet(payload) /\ payload[i] # Absent
    BY <2>1, <2>3 DEF Store!Listed, Store!ToSet
  <2> QED BY <2>1, <2>2, <2>4
<1> QED BY <1>1, <1>2

---------------------------------------------------------------------------
(* The chain: what the archive has for a release.                          *)

LEMMA FrontsAre ==
  ASSUME NEW facts, NEW r
  PROVE  /\ Len(Store!Fronts(facts, r)) \in Nat /\ DOMAIN Store!Fronts(facts, r) = 1..Len(Store!Fronts(facts, r))
         /\ \A i \in DOMAIN Store!Fronts(facts, r) : Store!Fronts(facts, r)[i] \in Store!FrontsOf(facts, r)
         /\ \A f \in Store!FrontsOf(facts, r) : \E i \in DOMAIN Store!Fronts(facts, r) : Store!Fronts(facts, r)[i] = f
<1> PICK one : one = facts.front[r.id]
  OBVIOUS
<1> PICK two : two = facts.front[r.group]
  OBVIOUS
<1>1. CASE r.group = Absent
  <2>1. Store!Fronts(facts, r) = <<one>>
    BY <1>1 DEF Store!Fronts
  <2>2. Store!FrontsOf(facts, r) = {one}
    BY <1>1 DEF Store!FrontsOf
  <2> QED BY <2>1, <2>2
<1>2. CASE r.group # Absent
  <2>0. Store!Fronts(facts, r) = <<one>> \o <<two>>
    BY <1>2 DEF Store!Fronts
  <2>a. <<one>> \in Seq({one, two}) /\ <<two>> \in Seq({one, two})
    OBVIOUS
  <2>b. /\ <<one>> \o <<two>> \in Seq({one, two}) /\ Len(<<one>> \o <<two>>) = Len(<<one>>) + Len(<<two>>)
        /\ \A i \in 1..(Len(<<one>>) + Len(<<two>>)) :
             (<<one>> \o <<two>>)[i] = IF i <= Len(<<one>>) THEN <<one>>[i] ELSE <<two>>[i - Len(<<one>>)]
    BY <2>a, ConcatProperties
  <2>c. Len(<<one>>) = 1 /\ Len(<<two>>) = 1 /\ <<one>>[1] = one /\ <<two>>[1] = two
    OBVIOUS
  <2> PICK both : both = <<one>> \o <<two>>
    OBVIOUS
  <2>1. DOMAIN both = 1..2 /\ Len(both) = 2 /\ both[1] = one /\ both[2] = two
    BY <2>b, <2>c
  <2>2. Store!FrontsOf(facts, r) = {one, two}
    BY <1>2 DEF Store!FrontsOf
  <2>3. Store!Fronts(facts, r) = both
    BY <2>0
  <2>4. /\ Len(both) \in Nat /\ DOMAIN both = 1..Len(both)
        /\ \A i \in DOMAIN both : both[i] \in {one, two}
        /\ \A f \in {one, two} : \E i \in DOMAIN both : both[i] = f
    <3>1. 1..2 = {1, 2}
      OBVIOUS
    <3> QED BY <2>1, <3>1
  <2> QED BY <2>2, <2>3, <2>4
<1> QED BY <1>1, <1>2

LEMMA FirstIs ==
  ASSUME NEW fronts, Len(fronts) \in Nat, DOMAIN fronts = 1..Len(fronts)
  PROVE  \/ Store!SelectInSeq(fronts, Store!Settles) = 0 /\ \A i \in DOMAIN fronts : ~Store!Settles(fronts[i])
         \/ /\ Store!SelectInSeq(fronts, Store!Settles) # 0
            /\ Store!SelectInSeq(fronts, Store!Settles) \in DOMAIN fronts
            /\ Store!Settles(fronts[Store!SelectInSeq(fronts, Store!Settles)])
<1> DEFINE settling == {i \in 1..Len(fronts) : Store!Settles(fronts[i])}
<1>1. Store!SelectInSeq(fronts, Store!Settles) = IF settling # {} THEN Store!Min(settling) ELSE 0
  BY DEF Store!SelectInSeq
<1>2. CASE settling = {}
  BY <1>1, <1>2
<1>3. CASE settling # {}
  <2>0. settling \subseteq Nat
    OBVIOUS
  <2>1. PICK x \in settling : \A y \in settling : x <= y
    BY <1>3, <2>0, Smallest
  <2>2. Store!Min(settling) \in settling
    BY <2>1 DEF Store!Min
  <2>3. \A i \in settling : i # 0 /\ i \in DOMAIN fronts /\ Store!Settles(fronts[i])
    OBVIOUS
  <2> QED BY <1>1, <1>3, <2>2, <2>3
<1> QED BY <1>2, <1>3

\* A link that neither failed nor gave an image has none.
LEMMA NeitherIsNone ==
  ASSUME NEW answer, ~Store!IsNote(answer), ~(Store!IsImage(answer) /\ Store!Usable(answer))
  PROVE  answer = NoCover
  BY DEF Store!IsNote, Store!IsImage

LEMMA ArchiveSays ==
  ASSUME NEW facts, NEW r
  PROVE  \/ Store!FromArchive(facts, r) = Store!FailedAnswer
         \/ \E f \in Store!FrontsOf(facts, r) : Store!FromArchive(facts, r) = Store!FoundAnswer(f)
         \/ Store!FromArchive(facts, r) = Store!NotFoundAnswer(FALSE)
         \/ /\ Store!FromArchive(facts, r) = Store!NotFoundAnswer(TRUE)
            /\ ~Store!IsNote(facts.own) /\ Store!FrontsOf(facts, r) = {NoCover}
<1> PICK fronts : fronts = Store!Fronts(facts, r)
  OBVIOUS
<1> PICK first : first = Store!SelectInSeq(fronts, Store!Settles)
  OBVIOUS
<1>1. /\ Len(fronts) \in Nat /\ DOMAIN fronts = 1..Len(fronts)
      /\ \A i \in DOMAIN fronts : fronts[i] \in Store!FrontsOf(facts, r)
      /\ \A f \in Store!FrontsOf(facts, r) : \E i \in DOMAIN fronts : fronts[i] = f
  BY FrontsAre
<1>2. \/ first = 0 /\ \A i \in DOMAIN fronts : ~Store!Settles(fronts[i])
      \/ first # 0 /\ first \in DOMAIN fronts /\ Store!Settles(fronts[first])
  BY <1>1, FirstIs
<1>3. CASE first # 0 /\ fronts[first] = Broken
  <2>1. Store!FromArchive(facts, r) = Store!FailedAnswer
    BY <1>3 DEF Store!FromArchive
  <2> QED BY <2>1
<1>4. CASE first # 0 /\ fronts[first] # Broken
  <2>1. Store!FromArchive(facts, r) = Store!FoundAnswer(fronts[first])
    BY <1>4 DEF Store!FromArchive
  <2> QED BY <1>1, <1>2, <1>4, <2>1
<1>5. CASE first = 0
  <2> PICK clean \in BOOLEAN : clean = (~Store!IsNote(facts.own) /\ \A i \in DOMAIN fronts : ~Store!IsNote(fronts[i]))
    OBVIOUS
  <2>1. Store!FromArchive(facts, r) = Store!NotFoundAnswer(clean)
    BY <1>5 DEF Store!FromArchive
  <2>2. CASE clean
    <3>1. ~Store!IsNote(facts.own) /\ \A i \in DOMAIN fronts : ~Store!IsNote(fronts[i])
      BY <2>2
    <3>2. \A i \in DOMAIN fronts : fronts[i] = NoCover
      <4> TAKE i \in DOMAIN fronts
      <4>1. ~Store!Settles(fronts[i]) /\ ~Store!IsNote(fronts[i])
        BY <1>2, <1>5, <3>1
      <4> QED BY <4>1, NeitherIsNone DEF Store!Settles
    <3>3. Store!FrontsOf(facts, r) = {NoCover}
      <4>1. \A f \in Store!FrontsOf(facts, r) : f = NoCover
        BY <1>1, <3>2
      <4>2. facts.front[r.id] \in Store!FrontsOf(facts, r)
        BY DEF Store!FrontsOf
      <4> QED BY <4>1, <4>2
    <3>4. clean = TRUE
      BY <2>2
    <3> QED BY <2>1, <3>1, <3>3, <3>4
  <2>3. CASE ~clean
    <3>1. clean = FALSE
      BY <2>3
    <3> QED BY <2>1, <3>1
  <2> QED BY <2>2, <2>3
<1> QED BY <1>3, <1>4, <1>5

---------------------------------------------------------------------------
(* The chain: what it answers.                                             *)

LEMMA ThirdPartiesSay ==
  ASSUME NEW facts, Store!WorldAssumption(facts)
  PROVE  \/ Store!ThirdParties(facts) = Store!FailedAnswer
         \/ \E r \in Store!Offered(facts) :
              Store!ThirdParties(facts) = Store!FromArchive(facts, r) /\ facts.releases # Broken
         \/ Store!ThirdParties(facts) = Store!NotFoundAnswer(FALSE)
         \/ /\ Store!ThirdParties(facts) = Store!NotFoundAnswer(TRUE) /\ ~Store!IsNote(facts.own) /\ facts.releases # Broken
            /\ Store!Offered(facts) = {} /\ (facts.album # Absent => facts.search # Broken)
<1> DEFINE album == facts.album
           clean == ~Store!IsNote(facts.own)
           nothing == \/ Store!ThirdParties(facts) = Store!NotFoundAnswer(FALSE)
                      \/ Store!ThirdParties(facts) = Store!NotFoundAnswer(TRUE) /\ clean
<1>1. CASE facts.releases = Broken
  BY <1>1 DEF Store!ThirdParties
<1>0. NoCover # Broken /\ NoCover # Absent /\ Broken # Absent /\ Absent \notin Nat
  BY DEF Store!WorldAssumption
\* What was offered, list by list.
<1>a. ASSUME NEW list, list \in {facts.releases} \cup (IF album = Absent THEN {} ELSE {facts.search}),
             list \notin {Broken, Absent, Store!NoPayload}, Store!Listed(list), NEW i \in Store!Titled(list, album)
      PROVE  list[i] \in Store!Offered(facts)
  <2>1. i \in DOMAIN list /\ list[i].id # Absent
    BY <1>0, <1>a, TitledAre
  <2>2. album \in {Absent, Store!Untitled, list[i].title}
    BY <1>a DEF Store!Titled
  <2> QED BY <1>a, <2>1, <2>2 DEF Store!Offered, Store!ToSet
<1>b. ASSUME NEW list, list \notin {Broken, Absent, Store!NoPayload}, Store!Titled(list, album) = {},
             NEW r \in Store!ToSet(list), r.id # Absent, album \in {Absent, Store!Untitled, r.title}
      PROVE  FALSE
  <2>1. PICK i \in DOMAIN list : list[i] = r
    BY DEF Store!ToSet
  <2>2. i \in Store!Titled(list, album)
    BY <1>b, <2>1 DEF Store!Titled, Store!CollectReleases
  <2> QED BY <1>b, <2>2
<1>2. CASE facts.releases # Broken /\ Store!ByRecording(facts) # Absent
  <2>1. facts.releases # Absent /\ Store!ByRecording(facts) = Store!ChooseRelease(facts.releases, album)
    BY <1>2 DEF Store!ByRecording
  <2>2. PICK i \in Store!Titled(facts.releases, album) :
          facts.releases # Store!NoPayload /\ Store!ChooseRelease(facts.releases, album) = facts.releases[i]
    <3>1. facts.releases = Store!NoPayload \/ Store!Listed(facts.releases)
      BY <1>2, <2>1 DEF Store!WorldAssumption
    <3> QED BY <1>0, <1>2, <2>1, <3>1, ChosenIsOffered
  <2>3. facts.releases[i] \in Store!Offered(facts)
    <3>1. Store!Listed(facts.releases)
      BY <1>2, <2>1, <2>2 DEF Store!WorldAssumption
    <3> QED BY <1>2, <1>a, <2>1, <2>2, <3>1
  <2>4. Store!ThirdParties(facts) = Store!FromArchive(facts, facts.releases[i])
    BY <1>2, <2>1, <2>2 DEF Store!ThirdParties
  <2> QED BY <1>2, <2>3, <2>4
<1>3. CASE facts.releases # Broken /\ Store!ByRecording(facts) = Absent
  <2>0. Store!ThirdParties(facts) = Store!BySearch(facts)
    BY <1>3 DEF Store!ThirdParties
  \* The recording's releases offer nothing.
  <2>1. facts.releases \in {Absent, Store!NoPayload} \/ Store!Titled(facts.releases, album) = {}
    <3>1. CASE facts.releases \notin {Absent, Store!NoPayload}
      <4>1. Store!Listed(facts.releases)
        BY <1>3, <3>1 DEF Store!WorldAssumption
      <4>2. Store!ChooseRelease(facts.releases, album) = Absent
        BY <1>3, <3>1 DEF Store!ByRecording
      <4> QED BY <1>0, <4>1, <4>2, ChosenIsOffered
    <3> QED BY <3>1
  <2> PICK note \in BOOLEAN : note = ~Store!IsNote(facts.own)
    OBVIOUS
  <2>n. note \in {TRUE, FALSE} /\ (note = TRUE => ~Store!IsNote(facts.own))
    OBVIOUS
  <2>2. CASE album = Absent
    <3>1. Store!BySearch(facts) = Store!NotFoundAnswer(note)
      BY <2>2 DEF Store!BySearch
    <3>2. Store!Offered(facts) = {}
      <4> SUFFICES ASSUME NEW r \in Store!Offered(facts) PROVE FALSE
        OBVIOUS
      <4>1. /\ r \in Store!ToSet(facts.releases) /\ facts.releases \notin {Broken, Absent, Store!NoPayload}
            /\ r.id # Absent /\ album \in {Absent, Store!Untitled, r.title}
        BY <2>2 DEF Store!Offered
      <4> QED BY <1>b, <2>1, <4>1
    <3> QED BY <1>3, <2>0, <2>2, <2>n, <3>1, <3>2
  <2>3. CASE album # Absent /\ facts.search = Broken
    <3>1. Store!BySearch(facts) = Store!FailedAnswer
      BY <2>3 DEF Store!BySearch
    <3> QED BY <2>0, <3>1
  <2>4. CASE album # Absent /\ facts.search # Broken
    <3>0. facts.search = Store!NoPayload \/ Store!Listed(facts.search)
      BY <2>4 DEF Store!WorldAssumption
    <3> PICK release : release = Store!ChooseRelease(facts.search, album)
      OBVIOUS
    <3>1. Store!BySearch(facts) = IF release = Absent THEN Store!NotFoundAnswer(note) ELSE Store!FromArchive(facts, release)
      BY <2>4 DEF Store!BySearch
    <3>2. CASE release = Absent
      <4>1. Store!BySearch(facts) = Store!NotFoundAnswer(note)
        BY <3>1, <3>2
      <4>2. Store!Titled(facts.search, album) = {}
        BY <1>0, <3>0, <3>2, ChosenIsOffered
      <4>3. Store!Offered(facts) = {}
        <5> SUFFICES ASSUME NEW r \in Store!Offered(facts) PROVE FALSE
          OBVIOUS
        <5>1. PICK list \in {facts.releases, facts.search} :
                /\ r \in Store!ToSet(list) /\ list \notin {Broken, Absent, Store!NoPayload}
                /\ r.id # Absent /\ album \in {Absent, Store!Untitled, r.title}
          BY <2>4 DEF Store!Offered
        <5>2. CASE list = facts.releases
          BY <1>b, <2>1, <5>1, <5>2
        <5>3. CASE list = facts.search
          BY <1>b, <4>2, <5>1, <5>3
        <5> QED BY <5>1, <5>2, <5>3
      <4> QED BY <1>3, <2>0, <2>4, <2>n, <4>1, <4>3
    <3>3. CASE release # Absent
      <4>1. Store!BySearch(facts) = Store!FromArchive(facts, release)
        BY <3>1, <3>3
      <4>2. PICK i \in Store!Titled(facts.search, album) :
              facts.search # Store!NoPayload /\ release = facts.search[i]
        BY <1>0, <3>0, <3>3, ChosenIsOffered
      <4>3. facts.search # Absent
        <5>1. Store!Listed(facts.search)
          BY <3>0, <4>2
        <5> QED BY <5>1, ListedIsThere
      <4>4. release \in Store!Offered(facts)
        BY <1>a, <2>4, <3>0, <4>2, <4>3
      <4> QED BY <1>3, <2>0, <4>1, <4>4
    <3> QED BY <3>2, <3>3
  <2> QED BY <2>2, <2>3, <2>4
<1> QED BY <1>1, <1>2, <1>3

LEMMA FoundIsTheAlbums ==
  ASSUME NEW facts, Store!WorldAssumption(facts)
  PROVE  Store!CoverIsTheAlbums(facts) /\ Store!KeptIsCertain(facts)
<1> PICK answer : answer = Store!Outcome(facts)
  OBVIOUS
<1>s. /\ \A image : Store!FoundAnswer(image).status = "found" /\ Store!FoundAnswer(image).image = image
      /\ \A clean : Store!NotFoundAnswer(clean).status = "notFound" /\ Store!NotFoundAnswer(clean).kept = clean
      /\ Store!FailedAnswer.status = "failed" /\ Store!OfflineAnswer.status = "notCheckedOffline"
  BY DEF Store!FoundAnswer, Store!NotFoundAnswer, Store!FailedAnswer, Store!OfflineAnswer
<1>1. CASE Store!IsImage(facts.own) /\ Store!Usable(facts.own)
  <2>1. answer = Store!FoundAnswer(facts.own)
    BY <1>1 DEF Store!Outcome
  <2>2. answer.status = "found" /\ answer.image = facts.own
    BY <1>s, <2>1
  <2> QED BY <2>2 DEF Store!CoverIsTheAlbums, Store!KeptIsCertain
<1>2. CASE ~(Store!IsImage(facts.own) /\ Store!Usable(facts.own)) /\ ~facts.online
  <2>1. answer \in {Store!FailedAnswer, Store!OfflineAnswer}
    BY <1>2 DEF Store!Outcome
  <2>2. answer.status \notin {"found", "notFound"}
    BY <1>s, <2>1
  <2> QED BY <2>2 DEF Store!CoverIsTheAlbums, Store!KeptIsCertain
<1>3. CASE ~(Store!IsImage(facts.own) /\ Store!Usable(facts.own)) /\ facts.online
  <2>1. answer = Store!ThirdParties(facts)
    BY <1>3 DEF Store!Outcome
  <2>2. ASSUME ~Store!IsNote(facts.own) PROVE facts.own = NoCover
    BY <1>3, <2>2, NeitherIsNone
  <2> DEFINE right ==
        \/ answer.status = "failed"
        \/ answer.status = "found" /\ \E r \in Store!Offered(facts) : answer.image \in Store!FrontsOf(facts, r)
        \/ answer.status = "notFound" /\ answer.kept = FALSE
        \/ /\ answer.status = "notFound" /\ facts.own = NoCover /\ facts.releases # Broken
           /\ \/ Store!Offered(facts) = {} /\ (facts.album # Absent => facts.search # Broken)
              \/ \E r \in Store!Offered(facts) : Store!FrontsOf(facts, r) = {NoCover}
  <2>3. right
    <3>1. CASE answer \in {Store!FailedAnswer, Store!NotFoundAnswer(FALSE)}
      BY <1>s, <3>1
    <3>2. CASE /\ answer = Store!NotFoundAnswer(TRUE) /\ ~Store!IsNote(facts.own) /\ facts.releases # Broken
               /\ Store!Offered(facts) = {} /\ (facts.album # Absent => facts.search # Broken)
      BY <1>s, <2>2, <3>2
    <3>3. ASSUME NEW r \in Store!Offered(facts), answer = Store!FromArchive(facts, r), facts.releases # Broken
          PROVE  right
      <4>1. CASE \E f \in Store!FrontsOf(facts, r) : answer = Store!FoundAnswer(f)
        BY <1>s, <4>1
      <4>2. CASE answer = Store!NotFoundAnswer(TRUE) /\ ~Store!IsNote(facts.own) /\ Store!FrontsOf(facts, r) = {NoCover}
        BY <1>s, <2>2, <3>3, <4>2
      <4> QED BY <3>1, <3>3, <4>1, <4>2, ArchiveSays
    <3> QED BY <2>1, <3>1, <3>2, <3>3, ThirdPartiesSay
  <2> QED BY <1>3, <2>3 DEF Store!CoverIsTheAlbums, Store!KeptIsCertain
<1> QED BY <1>1, <1>2, <1>3

\* A list in another order is as much there, and leads to the same release.
LEMMA Reordered ==
  ASSUME NEW list, list \in {Broken, Absent, Store!NoPayload} \/ Store!Listed(list), Absent \notin Nat,
         NEW of \in Store!Reorderings(list)
  PROVE  /\ (of = Broken) <=> (list = Broken)
         /\ (of = Absent) <=> (list = Absent)
         /\ \A album : Store!ChooseRelease(of, album) = Store!ChooseRelease(list, album)
<1>1. CASE list \in {Broken, Absent, Store!NoPayload}
  BY <1>1 DEF Store!Reorderings
<1>2. CASE list \notin {Broken, Absent, Store!NoPayload}
  <2>1. Store!Listed(list)
    BY <1>2
  <2>2. PICK p \in [DOMAIN list -> DOMAIN list] :
          Store!IsInjective(p) /\ of = [i \in DOMAIN list |-> list[p[i]]]
    BY <1>2 DEF Store!Reorderings
  <2>3. \A album : Store!ChooseRelease(of, album) = Store!ChooseRelease(list, album)
    BY <2>1, <2>2, AnyOrder
  <2>4. of \in [DOMAIN list -> Store!ToSet(list)]
    BY <2>2 DEF Store!ToSet
  <2>5. of \notin {Broken, Absent, Store!NoPayload}
    BY <2>1, <2>4 DEF Store!Listed
  <2> QED BY <1>2, <2>3, <2>5
<1> QED BY <1>1, <1>2

LEMMA OrderIsNothing ==
  ASSUME NEW facts, Store!WorldAssumption(facts)
  PROVE  Store!OrderDecidesNothing(facts)
<1> SUFFICES ASSUME NEW of \in Store!Reorderings(facts.releases), NEW found \in Store!Reorderings(facts.search)
             PROVE  Store!Outcome([facts EXCEPT !.releases = of, !.search = found]) = Store!Outcome(facts)
  BY DEF Store!OrderDecidesNothing
<1> PICK other : other = [facts EXCEPT !.releases = of, !.search = found]
  OBVIOUS
<1>1. /\ other.releases = of /\ other.search = found /\ other.own = facts.own /\ other.online = facts.online
      /\ other.album = facts.album /\ other.front = facts.front
  BY DEF Store!WorldAssumption
<1>2. /\ (of = Broken) <=> (facts.releases = Broken)
      /\ (of = Absent) <=> (facts.releases = Absent)
      /\ Store!ChooseRelease(of, facts.album) = Store!ChooseRelease(facts.releases, facts.album)
  BY Reordered DEF Store!WorldAssumption
<1>3. /\ (found = Broken) <=> (facts.search = Broken)
      /\ Store!ChooseRelease(found, facts.album) = Store!ChooseRelease(facts.search, facts.album)
  BY Reordered DEF Store!WorldAssumption
<1>4. Store!ByRecording(other) = Store!ByRecording(facts)
  BY <1>1, <1>2 DEF Store!ByRecording
<1>5. ASSUME NEW r PROVE Store!FromArchive(other, r) = Store!FromArchive(facts, r)
  <2>1. Store!Fronts(other, r) = Store!Fronts(facts, r)
    BY <1>1 DEF Store!Fronts
  <2> QED BY <1>1, <2>1 DEF Store!FromArchive
<1>6. Store!BySearch(other) = Store!BySearch(facts)
  BY <1>1, <1>3, <1>5 DEF Store!BySearch
<1>7. Store!ThirdParties(other) = Store!ThirdParties(facts)
  BY <1>1, <1>2, <1>4, <1>5, <1>6 DEF Store!ThirdParties
<1> QED BY <1>1, <1>7 DEF Store!Outcome

\* What the chain answers of a track is what its links know, for every answer of
\* theirs: the order in which MusicBrainz lists its releases decides nothing, a
\* cover is the link's own or of a release titled like the album - of any release
\* offered, if the album has no title - and "not found" is kept only when every
\* link that was asked said so (choose_release of lookup.rs, Chain::third_parties
\* of chain.rs).
THEOREM TheChainIsRight == Store!WorldAssumption(world) => AnswersAreJustified
BY FoundIsTheAlbums, OrderIsNothing DEF AnswersAreJustified, Store!AnswersAreJustified

---------------------------------------------------------------------------
(* The calls: where the last reservation of a service lies. No further     *)
(* back than a thread's own last call, but for the time it may have woken  *)
(* late.                                                                   *)

Requests == {"none", "resolve", "releases", "search", "front", "group", "sound"}

Job == [pc : {"idle", "turn", "sleep", "call", "pause"},
        kind : {"none", "ask", "file", "import", "cover"},
        step : Requests, album : BOOLEAN, tracks : Int, attempt : Int]

NetTypes ==
  /\ Net!LookupsAssumption
  /\ slot \in [Services -> Int] /\ left \in [Threads -> Int]
  /\ since \in [Threads -> [Services -> Int]] /\ lookup \in [Threads -> Job]

\* The reservation of a service is not older than a thread's last call.
Reserved ==
  \A t \in Threads, s \in Limited : slot[s] + since[t][s] >= -MaxLate

\* A thread that sleeps for a service will have waited long enough.
Sleeping ==
  \A t \in Threads, s \in Limited :
    lookup[t].pc = "sleep" /\ Net!ServiceOf(lookup[t].step) = s =>
      /\ left[t] + since[t][s] >= Interval[s] - MaxLate
      /\ left[t] >= -MaxLate
      /\ slot[s] >= left[t]

NetInv == NetTypes /\ Net!TypeOK /\ Reserved /\ Sleeping

---------------------------------------------------------------------------
(* The calls: the steps.                                                   *)

LEMMA LargerIs ==
  ASSUME NEW a \in Int, NEW b \in Int
  PROVE  Net!Larger(a, b) \in Int /\ Net!Larger(a, b) >= a /\ Net!Larger(a, b) >= b /\ Net!Larger(a, b) \in {a, b}
  BY DEF Net!Larger

LEMMA SmallerIs ==
  ASSUME NEW a \in Int, NEW b \in Int
  PROVE  Net!Smaller(a, b) \in Int /\ Net!Smaller(a, b) <= a /\ Net!Smaller(a, b) <= b /\ Net!Smaller(a, b) \in {a, b}
  BY DEF Net!Smaller

LEMMA Overridden ==
  ASSUME NEW S, NEW f \in [S -> Int], NEW x, NEW n \in Int
  PROVE  /\ [f EXCEPT ![x] = n] \in [S -> Int]
         /\ \A y \in S : [f EXCEPT ![x] = n][y] = IF y = x THEN n ELSE f[y]
  OBVIOUS

\* A reservation is never moved back, and lies within an interval of now.
LEMMA WaitMovesOn ==
  ASSUME NEW s \in Services, NetTypes, Net!TypeOK
  PROVE  /\ Net!Wait(s) \in 0..Interval[s] /\ Net!Wait(s) >= slot[s]
         /\ Net!Wait(s) >= Interval[s] + slot[s] \/ Net!Wait(s) = Interval[s]
<1>1. Interval[s] \in Nat /\ slot[s] \in Int /\ slot[s] >= -Interval[s] /\ slot[s] <= Interval[s]
  BY DEF NetTypes, Net!TypeOK, Net!LookupsAssumption
<1> QED BY <1>1 DEF Net!Wait, Net!Larger

LEMMA NetInit == Net!LookupsAssumption /\ Net!Init => NetInv
<1> SUFFICES ASSUME Net!LookupsAssumption, Net!Init PROVE NetInv
  OBVIOUS
<1> USE DEF Net!Init, Net!LookupsAssumption
<1>1. Net!Idle \in Job /\ Net!Idle.pc = "idle"
  BY DEF Net!Idle, Job, Requests
<1>2. NetTypes
  BY <1>1 DEF NetTypes
<1>3. Net!TypeOK
  BY DEF Net!TypeOK
<1>4. Reserved
  BY DEF Reserved
<1>5. Sleeping
  BY <1>1 DEF Sleeping
<1> QED BY <1>2, <1>3, <1>4, <1>5 DEF NetInv

\* Jobs stay jobs.
LEMMA JobTurns ==
  ASSUME NEW job \in Job, NEW step \in Requests, NEW n \in Int
  PROVE  /\ [job EXCEPT !.pc = "turn", !.step = step, !.attempt = n] \in Job
         /\ [job EXCEPT !.pc = "turn", !.step = step, !.attempt = n].pc = "turn"
  BY DEF Job

LEMMA JobSleeps ==
  ASSUME NEW job \in Job
  PROVE  /\ [job EXCEPT !.pc = "sleep"] \in Job
         /\ [job EXCEPT !.pc = "sleep"].step = job.step
  BY DEF Job

LEMMA JobCalls ==
  ASSUME NEW job \in Job
  PROVE  [job EXCEPT !.pc = "call"] \in Job /\ [job EXCEPT !.pc = "call"].pc # "sleep"
  BY DEF Job

LEMMA JobResumes ==
  ASSUME NEW job \in Job
  PROVE  [job EXCEPT !.pc = "turn"] \in Job /\ [job EXCEPT !.pc = "turn"].pc # "sleep"
  BY DEF Job

LEMMA JobPauses ==
  ASSUME NEW job \in Job, NEW n \in Int
  PROVE  /\ [job EXCEPT !.pc = "pause", !.attempt = n] \in Job
         /\ [job EXCEPT !.pc = "pause", !.attempt = n].pc # "sleep"
  BY DEF Job

LEMMA JobStarts ==
  ASSUME NEW kind \in {"ask", "file", "import", "cover"}, NEW album \in BOOLEAN, NEW n \in Int
  PROVE  /\ [Net!Idle EXCEPT !.pc = "turn", !.kind = kind, !.step = "resolve", !.album = album,
                         !.tracks = n] \in Job
         /\ [Net!Idle EXCEPT !.pc = "turn", !.kind = kind, !.step = "resolve", !.album = album,
                         !.tracks = n].pc # "sleep"
<1>1. Net!Idle \in Job /\ "resolve" \in Requests
  BY DEF Net!Idle, Job, Requests
<1> QED BY <1>1 DEF Job

\* A thread that starts, or goes on after an answer, is not asleep.
LEMMA GoesOnAwake ==
  ASSUME NEW t \in Threads, NEW useful \in BOOLEAN, NetTypes, Net!GoesOn(t, useful)
  PROVE  /\ lookup' \in [Threads -> Job] /\ lookup'[t].pc # "sleep"
         /\ \A u \in Threads \ {t} : lookup'[u] = lookup[u]
<1>1. Net!Idle \in Job /\ Net!Idle.pc = "idle"
  BY DEF Net!Idle, Job, Requests
<1>2. lookup[t] \in Job /\ lookup \in [Threads -> Job]
  BY DEF NetTypes
<1>3. CASE Net!Rest(t)
  BY <1>1, <1>2, <1>3 DEF Net!Rest
<1>4. ASSUME NEW step \in Requests, Net!Turn(t, step)
      PROVE  /\ lookup' \in [Threads -> Job] /\ lookup'[t].pc # "sleep"
             /\ \A u \in Threads \ {t} : lookup'[u] = lookup[u]
  <2> DEFINE job == [lookup[t] EXCEPT !.pc = "turn", !.step = step, !.attempt = 0]
  <2>1. job \in Job /\ job.pc = "turn"
    <3>1. 0 \in Int
      OBVIOUS
    <3> QED BY <1>2, <3>1, JobTurns, Zenon
  <2>2. lookup' = [lookup EXCEPT ![t] = job]
    BY <1>2, <1>4 DEF Net!Turn
  <2> HIDE DEF job
  <2> QED BY <1>2, <2>1, <2>2
<1>5. CASE lookup' = [lookup EXCEPT ![t].pc = "turn", ![t].attempt = 0, ![t].tracks = @ - 1]
  BY <1>2, <1>5 DEF Job
<1>6. \/ Net!Rest(t) \/ Net!Turn(t, "sound") \/ Net!Turn(t, "releases") \/ Net!Turn(t, "search") \/ Net!Turn(t, "front")
      \/ Net!Turn(t, "group")
      \/ lookup' = [lookup EXCEPT ![t].pc = "turn", ![t].attempt = 0, ![t].tracks = @ - 1]
  BY DEF Net!GoesOn
<1>7. \A step \in {"sound", "releases", "search", "front", "group"} : step \in Requests
  BY DEF Requests
<1> QED BY <1>3, <1>4, <1>5, <1>6, <1>7

\* What keeps the times alone and puts no thread to sleep keeps the invariant.
LEMMA AwakeKeeps ==
  ASSUME NetInv, NEW t \in Threads, UNCHANGED <<slot, left, since>>,
         lookup' \in [Threads -> Job], lookup'[t].pc # "sleep",
         \A u \in Threads \ {t} : lookup'[u] = lookup[u]
  PROVE  NetInv'
<1>1. NetTypes'
  BY DEF NetInv, NetTypes
<1>2. Net!TypeOK' /\ Reserved'
  BY DEF NetInv, Net!TypeOK, Reserved
<1>3. Sleeping'
  BY DEF NetInv, Sleeping
<1> QED BY <1>1, <1>2, <1>3 DEF NetInv

LEMMA TickHolds == NetInv /\ Net!Tick => NetInv'
<1> SUFFICES ASSUME NetInv, Net!Tick PROVE NetInv'
  OBVIOUS
<1>a. Net!LookupsAssumption
  BY DEF NetInv, NetTypes
<1> USE <1>a DEF Net!LookupsAssumption
<1>1. /\ slot \in [Services -> Int] /\ left \in [Threads -> Int]
      /\ since \in [Threads -> [Services -> Int]] /\ lookup \in [Threads -> Job]
  BY DEF NetInv, NetTypes
<1>2. ASSUME NEW s \in Services
      PROVE  /\ slot'[s] \in Int /\ slot'[s] >= slot[s] - 1 /\ slot'[s] >= -Interval[s]
             /\ slot'[s] \in -Interval[s]..Interval[s]
  BY <1>1, <1>2 DEF Net!Tick, Net!Larger, NetInv, Net!TypeOK
<1>3. ASSUME NEW t \in Threads, NEW s \in Services
      PROVE  /\ since'[t][s] \in 0..Interval[s]
             /\ since'[t][s] = since[t][s] + 1 \/ since'[t][s] = Interval[s]
  BY <1>1, <1>3 DEF Net!Tick, Net!Smaller, NetInv, Net!TypeOK
<1>4. NetTypes'
  <2>1. slot' \in [Services -> Int]
    BY <1>1 DEF Net!Tick, Net!Larger
  <2>2. since' \in [Threads -> [Services -> Int]]
    BY <1>1 DEF Net!Tick, Net!Smaller
  <2>3. left' \in [Threads -> Int]
    BY <1>1 DEF Net!Tick
  <2> QED BY <1>1, <2>1, <2>2, <2>3 DEF NetTypes, Net!Tick
<1>5. Net!TypeOK'
  BY <1>2, <1>3 DEF Net!TypeOK
<1>6. Reserved'
  <2> SUFFICES ASSUME NEW t \in Threads, NEW s \in Limited
               PROVE  slot'[s] + since'[t][s] >= -MaxLate
    BY DEF Reserved
  <2>1. slot[s] + since[t][s] >= -MaxLate /\ since[t][s] \in Int /\ slot[s] \in Int
    BY <1>1 DEF NetInv, Reserved
  <2> QED BY <1>2, <1>3, <2>1
<1>7. Sleeping'
  <2> SUFFICES ASSUME NEW t \in Threads, NEW s \in Limited,
                      lookup[t].pc = "sleep", Net!ServiceOf(lookup[t].step) = s
               PROVE  /\ left'[t] + since'[t][s] >= Interval[s] - MaxLate
                      /\ left'[t] >= -MaxLate /\ slot'[s] >= left'[t]
    BY DEF Sleeping, Net!Tick
  <2>1. /\ left[t] + since[t][s] >= Interval[s] - MaxLate
        /\ left[t] >= -MaxLate /\ slot[s] >= left[t]
    BY DEF NetInv, Sleeping
  <2>2. left'[t] = left[t] - 1 /\ left[t] > -MaxLate
    BY <1>1 DEF Net!Tick, Net!Due
  <2>3. left[t] \in Int /\ slot[s] \in Int /\ since[t][s] \in Int
    BY <1>1
  <2> QED BY <1>2, <1>3, <2>1, <2>2, <2>3
<1> QED BY <1>4, <1>5, <1>6, <1>7 DEF NetInv

LEMMA AcquireHolds == ASSUME NEW t \in Threads PROVE NetInv /\ Net!Acquire(t) => NetInv'
<1> SUFFICES ASSUME NetInv, Net!Acquire(t) PROVE NetInv'
  OBVIOUS
<1>a. Net!LookupsAssumption
  BY DEF NetInv, NetTypes
<1> USE <1>a DEF Net!LookupsAssumption
<1> DEFINE s == Net!ServiceOf(lookup[t].step)
<1>1. /\ slot \in [Services -> Int] /\ left \in [Threads -> Int]
      /\ since \in [Threads -> [Services -> Int]] /\ lookup \in [Threads -> Job]
  BY DEF NetInv, NetTypes
<1>2. s \in Limited /\ s \in Services
  BY DEF Net!Acquire
<1>3. /\ Net!Wait(s) \in 0..Interval[s] /\ Net!Wait(s) >= slot[s]
      /\ Net!Wait(s) >= Interval[s] + slot[s] \/ Net!Wait(s) = Interval[s]
  BY <1>2, WaitMovesOn DEF NetInv
<1>4. /\ slot' = [slot EXCEPT ![s] = Net!Wait(s)] /\ left' = [left EXCEPT ![t] = Net!Wait(s)]
      /\ since' = since /\ lookup' = [lookup EXCEPT ![t].pc = "sleep"]
  BY DEF Net!Acquire
<1> HIDE DEF s
<1>5. /\ lookup'[t].step = lookup[t].step /\ lookup' \in [Threads -> Job]
      /\ \A u \in Threads \ {t} : lookup'[u] = lookup[u]
  <2>1. lookup' = [lookup EXCEPT ![t] = [lookup[t] EXCEPT !.pc = "sleep"]] /\ lookup[t] \in Job
    BY <1>1, <1>4
  <2> QED BY <1>1, <2>1, JobSleeps
<1>6. NetTypes' /\ Net!TypeOK'
  <2>1. Net!Wait(s) \in Int /\ Net!Wait(s) \in -Interval[s]..Interval[s]
    BY <1>2, <1>3
  <2>2. slot' \in [Services -> Int] /\ left' \in [Threads -> Int]
    BY <1>1, <1>4, <2>1
  <2>3. NetTypes'
    BY <1>1, <1>4, <1>5, <2>2 DEF NetTypes
  <2>4. Net!TypeOK'
    BY <1>1, <1>2, <1>4, <2>1 DEF NetInv, Net!TypeOK
  <2> QED BY <2>3, <2>4
<1>7. Reserved'
  BY <1>1, <1>2, <1>3, <1>4 DEF NetInv, Reserved
<1>8. Sleeping'
  <2> SUFFICES ASSUME NEW u \in Threads, NEW r \in Limited,
                      lookup'[u].pc = "sleep", Net!ServiceOf(lookup'[u].step) = r
               PROVE  /\ left'[u] + since'[u][r] >= Interval[r] - MaxLate
                      /\ left'[u] >= -MaxLate /\ slot'[r] >= left'[u]
    BY DEF Sleeping
  <2>1. CASE u = t
    <3>1. r = s
      BY <1>5, <2>1 DEF s
    <3>2. slot[s] + since[t][s] >= -MaxLate /\ since[t][s] \in 0..Interval[s]
      BY <1>2 DEF NetInv, Reserved, Net!TypeOK
    <3> QED BY <1>1, <1>2, <1>3, <1>4, <2>1, <3>1, <3>2
  <2>2. CASE u # t
    <3>1. /\ left[u] + since[u][r] >= Interval[r] - MaxLate
          /\ left[u] >= -MaxLate /\ slot[r] >= left[u]
      BY <1>5, <2>2 DEF NetInv, Sleeping
    <3> QED BY <1>1, <1>2, <1>3, <1>4, <2>2, <3>1
  <2> QED BY <2>1, <2>2
<1> QED BY <1>6, <1>7, <1>8 DEF NetInv

LEMMA CallHolds == ASSUME NEW t \in Threads PROVE NetInv /\ Net!Call(t) => NetInv'
<1> SUFFICES ASSUME NetInv, Net!Call(t) PROVE NetInv'
  OBVIOUS
<1>a. Net!LookupsAssumption
  BY DEF NetInv, NetTypes
<1> USE <1>a DEF Net!LookupsAssumption
<1> DEFINE s == Net!ServiceOf(lookup[t].step)
<1>1. /\ slot \in [Services -> Int] /\ left \in [Threads -> Int]
      /\ since \in [Threads -> [Services -> Int]] /\ lookup \in [Threads -> Job]
  BY DEF NetInv, NetTypes
<1>2. /\ since' = [since EXCEPT ![t][s] = 0] /\ left' = [left EXCEPT ![t] = 0]
      /\ slot' = slot /\ lookup' = [lookup EXCEPT ![t].pc = "call"] /\ lookup[t].pc = "sleep"
      /\ left[t] <= 0
  BY DEF Net!Call
<1>3. /\ lookup' \in [Threads -> Job] /\ lookup'[t].pc # "sleep"
      /\ \A u \in Threads \ {t} : lookup'[u] = lookup[u]
  <2>1. lookup' = [lookup EXCEPT ![t] = [lookup[t] EXCEPT !.pc = "call"]] /\ lookup[t] \in Job
    BY <1>1, <1>2
  <2> QED BY <1>1, <2>1, JobCalls
<1>4. ASSUME s \in Limited PROVE slot[s] >= -MaxLate
  <2>1. left[t] >= -MaxLate /\ slot[s] >= left[t]
    BY <1>2, <1>4 DEF NetInv, Sleeping
  <2> QED BY <1>1, <1>4, <2>1
<1> HIDE DEF s
<1>5. /\ since' \in [Threads -> [Services -> Int]]
      /\ \A u \in Threads, r \in Services : since'[u][r] = IF u = t /\ r = s THEN 0 ELSE since[u][r]
  <2> DEFINE own == [since[t] EXCEPT ![s] = 0]
  <2>1. own \in [Services -> Int] /\ \A r \in Services : own[r] = IF r = s THEN 0 ELSE since[t][r]
    <3>1. 0 \in Int /\ since[t] \in [Services -> Int]
      BY <1>1
    <3> QED BY <3>1, Overridden, Zenon
  <2>2. since' = [since EXCEPT ![t] = own]
    BY <1>1, <1>2
  <2> HIDE DEF own
  <2> QED BY <1>1, <2>1, <2>2
<1>6. NetTypes' /\ Net!TypeOK'
  BY <1>1, <1>2, <1>3, <1>5 DEF NetInv, NetTypes, Net!TypeOK
<1>7. Reserved'
  BY <1>1, <1>2, <1>4, <1>5 DEF NetInv, Reserved
<1>8. Sleeping'
  BY <1>1, <1>2, <1>3, <1>5 DEF NetInv, Sleeping
<1> QED BY <1>6, <1>7, <1>8 DEF NetInv

LEMMA NoLimiterHolds == ASSUME NEW t \in Threads PROVE NetInv /\ Net!NoLimiter(t) => NetInv'
<1> SUFFICES ASSUME NetInv, Net!NoLimiter(t) PROVE NetInv'
  OBVIOUS
<1>1. /\ slot \in [Services -> Int] /\ left \in [Threads -> Int]
      /\ since \in [Threads -> [Services -> Int]] /\ lookup \in [Threads -> Job]
  BY DEF NetInv, NetTypes
<1>2. /\ left' = [left EXCEPT ![t] = 0] /\ slot' = slot /\ since' = since
      /\ lookup' = [lookup EXCEPT ![t].pc = "sleep"] /\ Net!ServiceOf(lookup[t].step) \notin Limited
  BY DEF Net!NoLimiter
<1>3. /\ lookup'[t].step = lookup[t].step /\ lookup' \in [Threads -> Job]
      /\ \A u \in Threads \ {t} : lookup'[u] = lookup[u]
  <2>1. lookup' = [lookup EXCEPT ![t] = [lookup[t] EXCEPT !.pc = "sleep"]] /\ lookup[t] \in Job
    BY <1>1, <1>2
  <2> QED BY <1>1, <2>1, JobSleeps
<1>4. NetTypes' /\ Net!TypeOK' /\ Reserved'
  BY <1>1, <1>2, <1>3 DEF NetInv, NetTypes, Net!TypeOK, Reserved
<1>5. Sleeping'
  BY <1>1, <1>2, <1>3 DEF NetInv, Sleeping
<1> QED BY <1>4, <1>5 DEF NetInv

LEMMA AwakeHolds ==
  ASSUME NEW t \in Threads
  PROVE  NetInv /\ (Net!Start(t) \/ Net!Answered(t) \/ Net!Refused(t) \/ Net!Failed(t) \/ Net!Resume(t)) => NetInv'
<1> SUFFICES ASSUME NetInv, Net!Start(t) \/ Net!Answered(t) \/ Net!Refused(t) \/ Net!Failed(t) \/ Net!Resume(t)
             PROVE  NetInv'
  OBVIOUS
<1>a. Net!LookupsAssumption
  BY DEF NetInv, NetTypes
<1> USE <1>a DEF Net!LookupsAssumption
<1>1. lookup \in [Threads -> Job] /\ lookup[t] \in Job /\ NetTypes
  BY DEF NetInv, NetTypes
<1>2. UNCHANGED <<slot, left, since>>
  BY DEF Net!Start, Net!Answered, Net!Refused, Net!Failed, Net!Resume
<1>3. ASSUME NEW job \in Job, lookup' = [lookup EXCEPT ![t] = job], job.pc # "sleep"
      PROVE  NetInv'
  BY <1>1, <1>2, <1>3, AwakeKeeps
<1>4. CASE Net!Start(t)
  <2>1. PICK kind \in {"ask", "file", "import", "cover"}, album \in BOOLEAN :
          lookup' = [lookup EXCEPT ![t] =
            [Net!Idle EXCEPT !.pc = "turn", !.kind = kind, !.step = "resolve", !.album = album,
                         !.tracks = IF kind = "import" THEN MaxTracks ELSE 1]]
    BY <1>4 DEF Net!Start
  <2>2. (IF kind = "import" THEN MaxTracks ELSE 1) \in Int
    OBVIOUS
  <2> QED BY <1>3, <2>1, <2>2, JobStarts
<1>5. CASE Net!Answered(t)
  BY <1>1, <1>2, <1>5, GoesOnAwake, AwakeKeeps DEF Net!Answered
<1>6. CASE Net!Refused(t)
  <2> DEFINE job == [lookup[t] EXCEPT !.pc = "pause", !.attempt = lookup[t].attempt + 1]
  <2>1. lookup[t].attempt + 1 \in Int
    BY <1>1 DEF Job
  <2>2. job \in Job /\ job.pc # "sleep"
    BY <1>1, <2>1, JobPauses, Zenon
  <2>3. lookup' = [lookup EXCEPT ![t] = job]
    BY <1>1, <1>6 DEF Net!Refused
  <2> HIDE DEF job
  <2> QED BY <1>3, <2>2, <2>3
<1>7. CASE Net!Failed(t)
  <2>1. Net!Idle \in Job /\ Net!Idle.pc # "sleep"
    BY DEF Net!Idle, Job, Requests
  <2> QED BY <1>3, <1>7, <2>1 DEF Net!Failed, Net!Rest
<1>8. CASE Net!Resume(t)
  BY <1>1, <1>3, <1>8, JobResumes DEF Net!Resume
<1> QED BY <1>4, <1>5, <1>6, <1>7, <1>8

\* The reservations and the sleeps of every thread keep to the invariant,
\* whoever else waits for a service (RateLimiter::acquire).
THEOREM ReservationsHold == Net!LookupsAssumption => (Net!Spec => []NetInv)
<1>1. NetInv /\ [Net!Next]_(Net!vars) => NetInv'
  <2> SUFFICES ASSUME NetInv, [Net!Next]_(Net!vars) PROVE NetInv'
    OBVIOUS
  <2>1. CASE Net!Tick
    BY <2>1, TickHolds
  <2>2. ASSUME NEW t \in Threads, Net!Start(t) \/ Net!Step(t) PROVE NetInv'
    BY <2>2, AcquireHolds, CallHolds, NoLimiterHolds, AwakeHolds DEF Net!Step
  <2>3. CASE UNCHANGED Net!vars
    BY <2>3 DEF Net!vars, NetInv, NetTypes, Net!TypeOK, Reserved, Sleeping
  <2> QED BY <2>1, <2>2, <2>3 DEF Net!Next
<1> QED BY NetInit, <1>1, PTL DEF Net!Spec

\* A thread's own calls to a service are an interval apart but for one late
\* wake-up, however many threads share the limiter (RateLimiter::acquire).
THEOREM OwnSpacing == Net!LookupsAssumption => (Net!Spec => OwnCallsAreSpaced)
<1> DEFINE Spaced == \A t \in Threads, s \in Limited :
             Net!Call(t) /\ Net!ServiceOf(lookup[t].step) = s => since[t][s] >= Interval[s] - MaxLate
<1>1. NetInv => Spaced
  <2> SUFFICES ASSUME NetInv, NEW t \in Threads, NEW s \in Limited,
                      Net!Call(t), Net!ServiceOf(lookup[t].step) = s
               PROVE  since[t][s] >= Interval[s] - MaxLate
    OBVIOUS
  <2>1. left[t] <= 0 /\ left[t] + since[t][s] >= Interval[s] - MaxLate
    BY DEF Net!Call, NetInv, Sleeping
  <2>2. left[t] \in Int /\ since[t][s] \in Int /\ Interval[s] \in Int /\ MaxLate \in Int
    BY DEF NetInv, NetTypes, Net!LookupsAssumption
  <2> QED BY <2>1, <2>2
<1>2. Net!LookupsAssumption => (Net!Spec => [][Spaced]_(Net!vars))
  BY ReservationsHold, <1>1, PTL
<1> QED BY <1>2 DEF OwnCallsAreSpaced, Net!OwnCallsAreSpaced
=============================================================================
