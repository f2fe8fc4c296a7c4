------------------------------- MODULE Covers -------------------------------
(***************************************************************************)
(* The cover worker (artwork/worker.rs), the chain it walks for one track  *)
(* (artwork/chain.rs) and the index of the cover cache (artwork/cache.rs). *)
(* The core thread hands its queue over and drains the answers; the worker *)
(* thread looks up one row at a time; another program - the command line,  *)
(* an `artwork` command - keeps covers in the same directory.              *)
(*                                                                         *)
(* A cover is looked up for an album, the artwork key; a row is a queue    *)
(* item.  What a link of the chain answers is left open.  The cache is     *)
(* what the worker sees of it; CoverStore has its files, and the month     *)
(* after which "not found" is asked again.                                 *)
(***************************************************************************)
EXTENDS Integers, FiniteSets, SequencesExt

CONSTANTS
  Album,      \* artwork keys
  MaxRows,    \* bound of the model: rows of a queue
  MaxQueues,  \* bound of the model: queues handed over
  MaxOther    \* bound of the model: covers kept by the other program

ASSUME CoversAssumption == {MaxRows, MaxQueues, MaxOther} \subseteq Nat

VARIABLES
  \* State, under its mutex; registry 0: picked up
  generation, rows, todo, ready, registry, stop,
  \* the cache: its index in memory, on disk, and its mutex
  entries, disk, cacheHeld,
  \* who acts
  core,       \* the core thread
  thread,     \* the worker thread
  writes,     \* what another program did to the index so far
  \* history, read by no action
  owed,       \* the interface was told to read the report and has not yet
  shown       \* rows whose answer the interface has read

state == <<generation, rows, todo, ready, registry, stop>>
cache == <<entries, disk, cacheHeld>>
telling == <<owed, shown>>
vars == <<state, cache, core, thread, writes, telling>>

None == "none"

Known == {"found", "notFound"}

Status == Known \cup {"pending", "failed"}  \* failed, or not asked offline

Index == [Album -> Known \cup {"unknown"}]

Row == [album : Album, status : Status,
        by : 0..MaxQueues]  \* the registry that answered, 0 for the cache

Queues == UNION {[1..n -> Album] : n \in 0..MaxRows}

Core == [pc : {"free", "asking", "handing", "quit"},
         queue : Queues, position : 0..MaxRows, known : UNION {[1..n -> Status] : n \in 0..MaxRows}]

Thread == [pc : {"looking", "asleep", "resolving", "linking", "merging", "writing",
                 "answering", "gone"},
           row : 0..MaxRows, generation : 0..MaxQueues, album : Album \cup {None},
           links : 0..MaxQueues,  \* whose registry the chain has
           status : Status, read : Index]

TypeOK ==
  /\ generation \in 0..MaxQueues
  /\ rows \in Seq(Row) /\ todo \in Seq(1..MaxRows)
  /\ ready \in SUBSET Album
  /\ registry \in 0..MaxQueues /\ stop \in BOOLEAN
  /\ entries \in Index /\ disk \in Index /\ cacheHeld \in BOOLEAN
  /\ core \in Core /\ thread \in Thread
  /\ writes \in 0..MaxOther
  /\ owed \in BOOLEAN /\ shown \in SUBSET (1..MaxRows)

Empty == [a \in Album |-> "unknown"]

Init ==
  /\ generation = 0 /\ rows = <<>> /\ todo = <<>> /\ ready = {}
  /\ registry = 0 /\ stop = FALSE
  /\ entries = Empty /\ disk = Empty /\ cacheHeld = FALSE
  /\ core = [pc |-> "free", queue |-> <<>>, position |-> 0, known |-> <<>>]
  /\ thread = [pc |-> "looking", row |-> 0, generation |-> 0, album |-> None,
               links |-> 0, status |-> "pending", read |-> Empty]
  /\ writes = 0
  /\ owed = FALSE /\ shown = {}

Settled(i) == rows[i].status # "pending"

(* The elements of a list that are in a set, in their order.  It is what   *)
(* SelectSeq gives, without a recursion.                                   *)
Retain(list, wanted) ==
  LET places == {i \in DOMAIN list : list[i] \in wanted}
      nth == CHOOSE f \in [1..Cardinality(places) -> places] :
               \A m, n \in 1..Cardinality(places) : m < n => f[m] < f[n]
  IN  [n \in 1..Cardinality(places) |-> list[nth[n]]]

-----------------------------------------------------------------------------
(* The core thread: submit, in its three critical sections.                *)

coreRest == <<stop, ready, disk, cacheHeld, writes>>

(* "Another process may have filled the cache meanwhile."  A failure to    *)
(* read the index keeps what is in memory.                                 *)
Submit ==
  /\ core.pc = "free"
  /\ generation < MaxQueues
  /\ ~cacheHeld
  /\ \E q \in Queues, p \in 0..MaxRows :
       /\ p < Len(q) \/ p = 0
       /\ core' = [pc |-> "asking", queue |-> q, position |-> p, known |-> <<>>]
  /\ entries' \in {disk, entries}
  /\ UNCHANGED <<coreRest, generation, rows, todo, registry, thread, telling>>

KnownStatus(a) == IF entries[a] \in Known THEN entries[a] ELSE "pending"

AskKnown ==
  /\ core.pc = "asking"
  /\ ~cacheHeld
  /\ core' = [core EXCEPT !.pc = "handing",
                !.known = [i \in DOMAIN core.queue |-> KnownStatus(core.queue[i])]]
  /\ UNCHANGED <<coreRest, generation, rows, todo, registry, entries, thread, telling>>

(* Slip: what was already played is not worked on.                         *)
WorkOrderSlip(n, position) == [i \in 1..(n - position) |-> position + i]

(* The playing track first, then play order, then what was played.         *)
WorkOrder(n, position) ==
  [i \in 1..(n - position) |-> position + i] \o [i \in 1..position |-> i]

Woken == IF thread.pc = "asleep" THEN [thread EXCEPT !.pc = "looking"] ELSE thread

HandOver ==
  /\ core.pc = "handing"
  /\ generation' = generation + 1
  /\ registry' = generation'
  /\ rows' = [i \in DOMAIN core.queue |->
                [album |-> core.queue[i], status |-> core.known[i], by |-> 0]]
  /\ todo' = Retain(WorkOrder(Len(core.queue), core.position),
                    {i \in DOMAIN core.known : core.known[i] = "pending"})
  /\ thread' = Woken
  /\ core' = [core EXCEPT !.pc = "free", !.queue = <<>>, !.position = 0, !.known = <<>>]
  /\ owed' = TRUE /\ shown' = {}
  /\ UNCHANGED <<coreRest, entries>>

(* drain_ready in a tick; an answer sends the interface to the report.     *)
Drain ==
  /\ core.pc = "free" /\ ready # {}
  /\ ready' = {}
  /\ owed' = TRUE
  /\ UNCHANGED <<generation, rows, todo, registry, stop, cache, core, thread,
                 writes, shown>>

Report ==
  /\ core.pc = "free" /\ owed
  /\ owed' = FALSE
  /\ shown' = {i \in DOMAIN rows : Settled(i)}
  /\ UNCHANGED <<state, cache, core, thread, writes>>

(* Drop: the thread is told and not waited for.                            *)
Quit ==
  /\ core.pc = "free"
  /\ stop' = TRUE
  /\ thread' = Woken
  /\ core' = [core EXCEPT !.pc = "quit"]
  /\ UNCHANGED <<generation, rows, todo, ready, registry, cache, writes,
                 telling>>

CoreStep == Submit \/ AskKnown \/ HandOver \/ Drain \/ Report \/ Quit

-----------------------------------------------------------------------------
(* The worker thread.                                                      *)

threadRest == <<generation, stop, core, writes, telling>>

Look ==
  /\ thread.pc = "looking"
  /\ \/ /\ stop
        /\ thread' = [thread EXCEPT !.pc = "gone"]
        /\ UNCHANGED <<registry, todo>>
     \/ /\ ~stop
        /\ registry' = 0
        /\ LET links == IF registry # 0 THEN registry ELSE thread.links
           IN  IF todo = <<>>
                 THEN /\ thread' = [thread EXCEPT !.pc = "asleep", !.links = links]
                      /\ todo' = todo
                 ELSE /\ thread' = [thread EXCEPT !.pc = "resolving", !.links = links,
                                      !.row = Head(todo), !.generation = generation,
                                      !.album = rows[Head(todo)].album]
                      /\ todo' = Tail(todo)
  /\ UNCHANGED <<threadRest, rows, ready, cache>>

(* Chain::resolve: the cache may know by now.                              *)
Resolve ==
  /\ thread.pc = "resolving"
  /\ thread' = IF entries[thread.album] \in Known
                 THEN [thread EXCEPT !.pc = "answering", !.status = entries[thread.album]]
                 ELSE [thread EXCEPT !.pc = "linking"]
  /\ UNCHANGED <<threadRest, rows, todo, ready, registry, cache>>

(* The links answer: an image or a clean "none" is kept; a link that       *)
(* failed on the way, or no link to ask, is not.                           *)
Link ==
  /\ thread.pc = "linking"
  /\ \/ \E s \in Known : thread' = [thread EXCEPT !.pc = "merging", !.status = s]
     \/ \E s \in {"notFound", "failed"} :
          thread' = [thread EXCEPT !.pc = "answering", !.status = s]
  /\ UNCHANGED <<threadRest, rows, todo, ready, registry, cache>>

MergeBase == disk

Merge ==
  /\ thread.pc = "merging"
  /\ cacheHeld' = TRUE
  /\ thread' = [thread EXCEPT !.pc = "writing", !.read = MergeBase]
  /\ UNCHANGED <<threadRest, rows, todo, ready, registry, entries, disk>>

Keep ==
  /\ thread.pc = "writing"
  /\ disk' = [thread.read EXCEPT ![thread.album] = thread.status]
  /\ entries' = disk'
  /\ cacheHeld' = FALSE
  /\ thread' = [thread EXCEPT !.pc = "answering", !.read = Empty]
  /\ UNCHANGED <<threadRest, rows, todo, ready, registry>>

(* The index cannot be read or written: "none" stays the answer; for an    *)
(* image the rest of the chain is walked, and in the end something failed  *)
(* or nothing was found.  An image of a later link is the case of a first  *)
(* attempt: the one that failed left nothing behind.                       *)
KeepFails ==
  /\ thread.pc = "writing"
  /\ cacheHeld' = FALSE
  /\ \E s \in IF thread.status = "found" THEN {"notFound", "failed"} ELSE {"notFound"} :
       thread' = [thread EXCEPT !.pc = "answering", !.status = s, !.read = Empty]
  /\ UNCHANGED <<threadRest, rows, todo, ready, registry, entries, disk>>

(* Slip: a row settled on the way stays in todo.                           *)
StillToDoSlip(settled) == todo

IsCurrent == thread.generation = generation

Answered == {i \in DOMAIN rows : /\ rows[i].album = thread.album
                                 /\ i = thread.row \/ ~Settled(i)}

StillToDo(settled) == Retain(todo, DOMAIN rows \ settled)

IsAnnounced(settled) == settled # {}

Answer ==
  /\ thread.pc = "answering"
  /\ thread' = [thread EXCEPT !.pc = "looking", !.row = 0, !.generation = 0,
                                    !.album = None, !.status = "pending"]
  /\ IF ~IsCurrent
       THEN UNCHANGED <<rows, todo, ready>>
       ELSE /\ rows' = [i \in DOMAIN rows |->
                          IF i \in Answered
                            THEN [rows[i] EXCEPT !.status = thread.status, !.by = thread.links]
                            ELSE rows[i]]
            /\ todo' = StillToDo(Answered)
            /\ ready' = IF IsAnnounced(Answered) THEN ready \cup {thread.album} ELSE ready
  /\ UNCHANGED <<threadRest, registry, cache>>

ThreadStep == Look \/ Resolve \/ Link \/ Merge \/ Keep \/ KeepFails \/ Answer

-----------------------------------------------------------------------------
(* Another program keeps an answer: it is in the index then, and entries   *)
(* of a write that overlapped may be lost (CoverStore has the two writes). *)
OtherWrites ==
  /\ writes < MaxOther
  /\ writes' = writes + 1
  /\ \E a \in Album : \E lost \in SUBSET (Album \ {a}) :
       disk' = [b \in Album |-> IF b = a THEN "found"
                               ELSE IF b \in lost THEN "unknown" ELSE disk[b]]
  /\ UNCHANGED <<state, entries, cacheHeld, core, thread, telling>>

Next == CoreStep \/ ThreadStep \/ OtherWrites

Spec == Init /\ [][Next]_vars

(* The worker runs: its links have time limits; a call of the core thread  *)
(* ends.  The cache's mutex is held for one write at a time.               *)
FairSpec == /\ Spec
            /\ WF_vars(ThreadStep)
            /\ SF_vars(AskKnown) /\ WF_vars(HandOver)

-----------------------------------------------------------------------------
(* "An answer for an older one is not written": every answer in the present *)
(* queue's rows comes from the cache or from a lookup made for that queue   *)
(* with that queue's providers.                                             *)
AnswersAreThisQueues == \A i \in DOMAIN rows : rows[i].by \in {0, generation}

(* "Every row of the same album gets the answer at once."                   *)
SameAlbumSameAnswer ==
  \A i, j \in DOMAIN rows :
    rows[i].album = rows[j].album => rows[i].status = rows[j].status

(* A row is pending exactly as long as somebody will still answer it, and   *)
(* no row is asked twice: the list of work, the lookup under way and the    *)
(* rows agree through new queues and rows settled by another row's answer.  *)
BeingAsked(i) == /\ thread.pc \in {"resolving", "linking", "merging", "writing", "answering"}
                 /\ thread.generation = generation /\ thread.row = i

PendingIsWorkedOn ==
  /\ IsInjective(todo)
  /\ \A i \in DOMAIN rows :
       ~Settled(i) <=> (i \in ToSet(todo) \/ BeingAsked(i))

(* The interface learns of every answer, found or not: a row it has not     *)
(* read yet is announced, or it already owes a look.                        *)
SettledIsTold ==
  \A i \in DOMAIN rows :
    Settled(i) => i \in shown \/ owed \/ rows[i].album \in ready

(* No row of the queue is forgotten and none is answered for another: what  *)
(* the thread, the list of work and the announcements make of a queue that  *)
(* may be replaced at any of their steps (worker.rs).                       *)
NoRowIsForgotten ==
  AnswersAreThisQueues /\ SameAlbumSameAnswer /\ PendingIsWorkedOn /\ SettledIsTold

(* Every row gets its answer: queues replace each other, but the last one   *)
(* handed over is worked through, the tracks already played included.       *)
RowsAreSettled == []<>(stop \/ \A i \in DOMAIN rows : Settled(i))
=============================================================================
