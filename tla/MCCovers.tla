------------------------------ MODULE MCCovers ------------------------------
(* The cover worker; the files of its cache; and what the chain makes of     *)
(* every combination of answers.  A behaviour is of one of the three.        *)
EXTENDS Covers

CONSTANTS Keys, Worlds, Workers, Commands, Month, MaxTime, MaxPuts, MaxMishaps,
          NoCover, Broken, Absent, Resizes, Unreadable, Gone, NoKey

VARIABLES part, index, files, now, open, puts, mishaps, overrun, lasting, world

(* Retain is what SelectSeq does.                                          *)
ASSUME RetainSelects ==
  \A list \in UNION {[1..n -> 1..3] : n \in 0..4}, wanted \in SUBSET (1..3) :
    Retain(list, wanted) = SelectSeq(list, LAMBDA i : i \in wanted)

---------------------------------------------------------------------------
(* Covers: of a tag, of a folder, of the archive, and one nobody can read.   *)
Picture(content, format, edge) ==
  [content |-> content, format |-> format, edge |-> edge, bytes |-> 1, decodes |-> TRUE]

TagCover == Picture(<<"tag", 1>>, "jpeg", 90)
FolderCover == Picture(<<"folder", 1>>, "webp", 900)
NoPicture == Picture(<<"text", 1>>, "none", 0)
ArchiveCover(n) == Picture(<<"front", n>>, "png", 500)

Store == INSTANCE CoverStore WITH None <- NoKey

Tags == {Broken, <<>>, <<[front |-> FALSE, image |-> NoPicture], [front |-> TRUE, image |-> TagCover]>>}
Folders == {Broken, {}, {[rank |-> 1, path |-> 1, image |-> NoPicture],
                         [rank |-> 0, path |-> 2, image |-> FolderCover]}}
Owns == {Store!FileCover(t, f) : t \in Tags, f \in Folders} \cup {Absent, NoPicture}

Release(id, title, official, group) ==
  [id |-> id, title |-> title, official |-> official, secondary |-> FALSE, kind |-> "album",
   date |-> Absent, group |-> group]

Bootleg == Release(1, "album", FALSE, Absent)
Official == Release(2, "album", TRUE, 4)
Sampler == Release(3, "sampler", TRUE, Absent)
Nameless == Release(Absent, "album", TRUE, Absent)

Archives ==
  {[i \in 1..4 |-> CASE has[i] = "none" -> NoCover [] has[i] = "fails" -> Broken
                     [] has[i] = "junk" -> NoPicture [] has[i] = "cover" -> ArchiveCover(i)] :
     has \in [1..4 -> {"none", "fails", "junk", "cover"}]}

OnlineWorlds ==
  [own : Owns, online : {TRUE}, album : {"album", Store!Untitled, Absent},
   releases : {Broken, Absent, NoCover, <<Sampler>>, <<Nameless, Sampler, Official>>},
   search : {Broken, <<Sampler>>, <<Sampler, Bootleg, Official>>},
   front : Archives]

OfflineWorlds ==
  [own : Owns, online : {FALSE}, album : {"album"}, releases : {Absent}, search : {Broken},
   front : {[i \in 1..4 |-> Broken]}]

\* For the files, a large cover, none, and a failure are enough.
StoreWorlds ==
  [own : {NoCover, Broken}, online : {TRUE}, album : {Absent}, releases : {Absent, <<Official>>},
   search : {Broken}, front : {[i \in 1..4 |-> IF i = 4 THEN ArchiveCover(4) ELSE NoCover]}]

ASSUME WorldsAreWorlds == \A w \in OnlineWorlds \cup OfflineWorlds : Store!WorldAssumption(w)

---------------------------------------------------------------------------
ASSUME StoreConstants == Store!StoreAssumption

storeVars == <<index, files, now, open, puts, mishaps, overrun, lasting>>

OneInit ==
  /\ Init /\ Store!Init
  /\ \/ part \in {"worker", "store"} /\ world = None
     \/ part = "chain" /\ world \in OnlineWorlds \cup OfflineWorlds

OneNext ==
  \/ part = "worker" /\ Next /\ UNCHANGED <<part, world, storeVars>>
  \/ part = "store" /\ Store!Next /\ UNCHANGED <<part, world, vars>>

WorkerRuns(A) == part = "worker" /\ A /\ UNCHANGED <<part, world, storeVars>>

OneSpec ==
  /\ OneInit /\ [][OneNext]_<<part, world, vars, storeVars>>
  /\ WF_vars(WorkerRuns(ThreadStep))
  /\ SF_vars(WorkerRuns(AskKnown)) /\ WF_vars(WorkerRuns(HandOver))

(* See CoverStore: an entry that says a cover was found has its images.     *)
FoundHasItsImages == Store!FoundHasItsImages

(* See CoverStore: an answer that was written stays written.                *)
EntriesSurvive == Store!EntriesSurvive

(* See CoverChain: what the chain answers is what its links know.           *)
AnswersAreJustified == part = "chain" => Store!AnswersAreJustified(world)
=============================================================================
