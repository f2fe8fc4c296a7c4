----------------------------- MODULE CoverStore -----------------------------
(***************************************************************************)
(* The cover cache as files (artwork/cache.rs): index.json and two images  *)
(* of each cover, named by their content, in one directory that several    *)
(* openings share - the worker of a desktop, the `artwork` command of      *)
(* another process (Session::artwork) - without a lock between them.       *)
(* Covers has the worker's queue and its threads; here one opening does    *)
(* one thing at a time and every file operation is a step.  What the chain *)
(* makes of the links' answers is CoverChain's.                            *)
(*                                                                         *)
(* A write is to a temporary name and renamed, so that it is done or not   *)
(* done; the temporary files a crash leaves are left out.  Time passes     *)
(* between two lookups, in ticks of more than ORPHAN_GRACE: no write takes *)
(* an hour.                                                                *)
(***************************************************************************)
EXTENDS CoverChain

CONSTANTS
  Keys,       \* artwork keys
  Worlds,     \* what the links of the chain may answer
  Workers,    \* openings by a session's cover worker,
  Commands,   \* and by the `artwork` command
  Month,      \* NOT_FOUND_TTL in ticks
  MaxTime,    \* bound of the model: ticks
  MaxPuts,    \* bound of the model: lookups that go beyond the cache
  MaxMishaps  \* bound of the model: crashes, and indexes nobody can read

VARIABLES
  index,    \* index.json: what it says, Absent, or Unreadable
  files,    \* each image file's time of modification, or Gone
  now,
  open,     \* what each opening is doing
  puts, mishaps,
  \* history, read by no action
  overrun,  \* old images removed while somebody was about to point to them
  lasting      \* entries written that no overlapping write has to answer for

history == <<overrun, lasting>>
vars == <<index, files, now, open, puts, mishaps, history>>

CONSTANTS Unreadable, Gone, None

Openings == Workers \cup Commands

Answers == {Outcome(w) : w \in Worlds}
Pictures == {a.image : a \in {b \in Answers : b.status = "found"}}
FilesOf(image) == {Normalized(image).label, Normalized(image).thumb}
Images == UNION {FilesOf(p) : p \in Pictures}

Unknown == [status |-> "unknown", picture |-> None, at |-> 0]
FoundEntry(p, t) == [status |-> "found", picture |-> p, at |-> t]
NotFoundEntry(t) == [status |-> "notFound", picture |-> None, at |-> t]
Entry == {Unknown} \cup {FoundEntry(p, t) : p \in Pictures, t \in 0..MaxTime}
                   \cup {NotFoundEntry(t) : t \in 0..MaxTime}

(* Neither the time an image lacks nor an index that is not there is taken *)
(* for one.                                                                *)
StoreAssumption ==
  /\ MaxTime \in Nat /\ MaxPuts \in Nat /\ MaxMishaps \in Nat
  /\ Gone \notin Nat
  /\ {Absent, Unreadable} \cap [Keys -> Entry] = {}

Nothing == [k \in Keys |-> Unknown]

Closed == [pc |-> "closed", entries |-> Nothing, then |-> "closed", key |-> None,
           answer |-> Unknown, read |-> Nothing, asked |-> {}]

TypeOK ==
  /\ index \in [Keys -> Entry] \cup {Absent, Unreadable}
  /\ files \in [Images -> 0..MaxTime \cup {Gone}]
  /\ now \in 0..MaxTime
  /\ \A o \in Openings :
       /\ open[o].pc \in {"closed", "reading", "aside", "sweeping", "ready", "linking",
                          "label", "thumb", "merging", "writing"}
       /\ {open[o].entries, open[o].read} \subseteq [Keys -> Entry]
       /\ open[o].key \in Keys \cup {None} /\ open[o].asked \subseteq Keys
  /\ puts \in 0..MaxPuts /\ mishaps \in 0..MaxMishaps
  /\ overrun \subseteq Images /\ lasting \in [Keys -> BOOLEAN]

Init ==
  /\ index = Absent /\ files = [i \in Images |-> Gone] /\ now = 0
  /\ open = [o \in Openings |-> Closed]
  /\ puts = 0 /\ mishaps = 0
  /\ overrun = {} /\ lasting = [k \in Keys |-> FALSE]

Becomes(o, new) == open' = [open EXCEPT ![o] = new]
Goes(o, pc) == Becomes(o, [open[o] EXCEPT !.pc = pc])

ImagesOf(entry) == IF entry.status = "found" THEN FilesOf(entry.picture) ELSE {}
(* The answer at hand is let go; its key may be answered by a later link.  *)
NotKept(o) == [open[o] EXCEPT !.pc = "ready", !.read = Nothing, !.key = None,
                              !.answer = Unknown, !.asked = @ \ {open[o].key}]

Referenced(entries) == UNION {ImagesOf(entries[k]) : k \in Keys}
IsFile(image) == files[image] # Gone

-----------------------------------------------------------------------------
(* read_index, of an opening in `pc` that goes on with `then`.             *)

ReadIndex(o, from, then) ==
  /\ open[o].pc = from
  /\ IF index = Unreadable
       THEN Becomes(o, [open[o] EXCEPT !.pc = "aside", !.then = then])
       ELSE LET said == IF index = Absent THEN Nothing ELSE index
            IN  Becomes(o, [open[o] EXCEPT !.pc = then, !.read = said,
                              !.entries = IF then = "writing" THEN @ ELSE said])
  /\ UNCHANGED <<index, files, now, puts, mishaps, history>>

(* "It was set aside": by its name, whoever wrote what is there by now.  A *)
(* second one finds nothing to rename, and the open or the put fails.      *)
SetAside(o) ==
  /\ open[o].pc = "aside"
  /\ index' = Absent
  /\ IF index # Absent
       THEN Becomes(o, [open[o] EXCEPT !.pc = open[o].then, !.read = Nothing,
                          !.entries = IF open[o].then = "writing" THEN @ ELSE Nothing])
       ELSE Becomes(o, IF open[o].then = "sweeping" THEN Closed
                       ELSE NotKept(o))
  /\ lasting' = IF index \in {Absent, Unreadable} THEN lasting ELSE [k \in Keys |-> FALSE]
  /\ UNCHANGED <<files, now, puts, mishaps, overrun>>

-----------------------------------------------------------------------------
(* ArtworkCache::open.                                                     *)

Open(o) ==
  /\ open[o].pc = "closed"
  /\ Goes(o, "reading")
  /\ UNCHANGED <<index, files, now, puts, mishaps, history>>

OpenReads(o) == ReadIndex(o, "reading", "sweeping")

(* Slip: a file of another process's write is taken for an orphan.         *)
OldEnoughSlip(image) == TRUE

OldEnough(image) == files[image] < now

Orphans(o) == {i \in Images : /\ IsFile(i) /\ OldEnough(i)
                              /\ i \notin Referenced(open[o].entries)}

(* Somebody's write, under way, will point to the image.                   *)
IsAwaited(image) ==
  \E o \in Openings :
    /\ open[o].pc \in {"thumb", "merging", "aside", "writing"}
    /\ image \in ImagesOf(open[o].answer) \cup Referenced(open[o].read)

(* remove_orphans, one file at a time, by the index that was read.         *)
RemoveOrphan(o, image) ==
  /\ open[o].pc = "sweeping"
  /\ image \in Orphans(o)
  /\ files' = [files EXCEPT ![image] = Gone]
  /\ overrun' = IF files[image] < now /\ (IsAwaited(image) \/ index # open[o].entries)
                  THEN overrun \cup {image} ELSE overrun
  /\ UNCHANGED <<index, now, open, puts, mishaps, lasting>>

Opened(o) ==
  /\ open[o].pc = "sweeping"
  /\ Orphans(o) = {}
  /\ Goes(o, "ready")
  /\ UNCHANGED <<index, files, now, puts, mishaps, history>>

(* reload, before the worker takes a new queue.                            *)
Reload(o) == ReadIndex(o, "ready", "ready")

Close(o) ==
  /\ open[o].pc = "ready"
  /\ Becomes(o, Closed)
  /\ UNCHANGED <<index, files, now, puts, mishaps, history>>

-----------------------------------------------------------------------------
(* Chain::resolve for one key.                                             *)

(* get: "not found" is believed for a month, and an entry one of whose     *)
(* files has gone counts as unknown.                                       *)
IsKnown(o, k) ==
  LET entry == open[o].entries[k]
  IN  CASE entry.status = "found" -> \A i \in ImagesOf(entry) : IsFile(i)
        [] entry.status = "notFound" -> now - entry.at < Month
        [] OTHER -> FALSE

Asked(o, k) ==
  [open[o] EXCEPT !.key = k, !.asked = IF o \in Commands THEN @ \cup {k} ELSE @]

(* The links answer a cover or that there is none for certain; of other    *)
(* answers nothing is kept.                                                *)
Look(o, k) ==
  /\ open[o].pc = "ready"
  /\ ~IsKnown(o, k)
  /\ puts < MaxPuts
  /\ puts' = puts + 1
  /\ \E a \in Answers :
       /\ a.kept
       /\ Becomes(o, IF a.status = "found"
            THEN [Asked(o, k) EXCEPT !.pc = "label", !.answer = FoundEntry(a.image, now)]
            ELSE [Asked(o, k) EXCEPT !.pc = "merging", !.answer = NotFoundEntry(now)])
  /\ UNCHANGED <<index, files, now, mishaps, history>>

(* write_image: "named by content: if it is there, it is this image" - and *)
(* stays as old as it is.                                                  *)
WriteImage(o, variant, then) ==
  LET image == Normalized(open[o].answer.picture)[variant]
  IN  /\ open[o].pc = variant
      /\ Goes(o, then)
      /\ files' = IF IsFile(image) THEN files ELSE [files EXCEPT ![image] = now]
      /\ overrun' = overrun \ {image}
      /\ UNCHANGED <<index, now, puts, mishaps, lasting>>

WriteLabel(o) == WriteImage(o, "label", "thumb")
WriteThumb(o) == WriteImage(o, "thumb", "merging")

(* Slip: the entry is merged into the index in memory.                     *)
MergeSlip(o) ==
  /\ open[o].pc = "merging"
  /\ Becomes(o, [open[o] EXCEPT !.pc = "writing", !.read = open[o].entries])
  /\ UNCHANGED <<index, files, now, puts, mishaps, history>>

Merge(o) == ReadIndex(o, "merging", "writing")

Overlaps(o) == \E other \in Openings \ {o} : open[other].pc = "writing"

WriteIndex(o) ==
  LET new == [open[o].read EXCEPT ![open[o].key] = open[o].answer]
  IN  /\ open[o].pc = "writing"
      /\ index' = new
      /\ Becomes(o, [open[o] EXCEPT !.pc = "ready", !.entries = new, !.read = Nothing,
                       !.key = None, !.answer = Unknown])
      /\ lasting' = [lasting EXCEPT ![open[o].key] = ~Overlaps(o)]
      /\ UNCHANGED <<files, now, puts, mishaps, overrun>>

(* The disk is full, or the file is held by somebody: nothing is kept of   *)
(* this answer, and the next link is asked.                                *)
WriteFails(o) ==
  /\ open[o].pc \in {"label", "thumb", "writing"}
  /\ mishaps < MaxMishaps
  /\ mishaps' = mishaps + 1
  /\ Becomes(o, NotKept(o))
  /\ UNCHANGED <<index, files, now, puts, history>>

-----------------------------------------------------------------------------
(* What happens to the process and to the directory.                       *)

Crash(o) ==
  /\ open[o].pc \notin {"closed", "ready"}
  /\ mishaps < MaxMishaps
  /\ mishaps' = mishaps + 1
  /\ Becomes(o, Closed)
  /\ UNCHANGED <<index, files, now, puts, history>>

(* Another version of the program, or a hand, leaves an index this one     *)
(* cannot read.                                                            *)
IndexIsSpoilt ==
  /\ index \notin {Absent, Unreadable}
  /\ mishaps < MaxMishaps
  /\ mishaps' = mishaps + 1
  /\ index' = Unreadable
  /\ lasting' = [k \in Keys |-> FALSE]
  /\ UNCHANGED <<files, now, open, puts, overrun>>

TimePasses ==
  /\ now < MaxTime
  /\ \A o \in Openings : open[o].pc \in {"closed", "ready"}
  /\ now' = now + 1
  /\ UNCHANGED <<index, files, open, puts, mishaps, history>>

StoreStep(o) ==
  \/ Open(o) \/ OpenReads(o) \/ Opened(o) \/ Close(o) \/ SetAside(o)
  \/ \E i \in Images : RemoveOrphan(o, i)
  \/ WriteLabel(o) \/ WriteThumb(o) \/ Merge(o) \/ WriteIndex(o)
  \/ WriteFails(o) \/ Crash(o)

(* The worker reads the index again with every queue, and asks a key as    *)
(* often as queues have it.                                                *)
WorkerStep(o) == StoreStep(o) \/ Reload(o) \/ \E k \in Keys : Look(o, k)

(* Session::artwork: "an album is looked up once", whatever the answer     *)
(* was.                                                                    *)
CommandStep(o) ==
  \/ StoreStep(o)
  \/ \E k \in Keys \ open[o].asked : Look(o, k)

Next == \/ IndexIsSpoilt \/ TimePasses
        \/ \E o \in Workers : WorkerStep(o)
        \/ \E o \in Commands : CommandStep(o)

Spec == Init /\ [][Next]_vars

-----------------------------------------------------------------------------
Entries == IF index \in {Absent, Unreadable} THEN Nothing ELSE index

(* "A younger one may be another writer's, on its way": whatever the       *)
(* openings do to each other, and wherever one of them dies, an entry that *)
(* says a cover was found has both its images.  The one way to lose them   *)
(* is an image left over for an hour and taken again: write_image does not *)
(* touch it, and an open that read the index before the new entry removes  *)
(* it (`overrun`).                                                         *)
FoundHasItsImages ==
  \A i \in Referenced(Entries) : IsFile(i) \/ i \in overrun

(* "The other's entries are not lost": an answer that was written stays,   *)
(* though other openings write with an older index in memory, unless two   *)
(* writes overlap or somebody spoils the index (`lasting`).                   *)
EntriesSurvive == \A k \in Keys : lasting[k] => Entries[k] # Unknown
=============================================================================
