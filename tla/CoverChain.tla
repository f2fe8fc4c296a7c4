----------------------------- MODULE CoverChain -----------------------------
(***************************************************************************)
(* Which cover a track gets, as a function of what the links of the chain  *)
(* answer: the chain (artwork/chain.rs), the picture of a file             *)
(* (embedded.rs), the release to ask the archive for (lookup.rs) and the   *)
(* check of an image (image.rs).  CoverStore keeps what it answers.        *)
(*                                                                         *)
(* An image is its content, its format, its longer edge in pixels and its  *)
(* size in megabytes; how it is decoded is left out.  A title is what      *)
(* normalize_text makes of it (Identity has the rest): nothing, of one     *)
(* that is all brackets or punctuation.                                    *)
(***************************************************************************)
EXTENDS Naturals, Sequences, SequencesExt

CONSTANTS
  NoCover,  \* asked, and there is none: Ok(None)
  Broken,   \* the link failed: an Err
  Absent,   \* not there to be asked: no album, no match, no provider, no id
  Resizes   \* the build decodes images (`artwork-resize`)

NoPayload == NoCover  \* a 404: MusicBrainz does not know what it was asked

IsImage(answer) == answer \notin {NoCover, Broken, Absent}

-----------------------------------------------------------------------------
(* image.rs: the check of every image, and the files it is kept as.        *)

MAX_BYTES == 16
MAX_EDGE == 8000
PASS_THROUGH_LIMIT == 2
LABEL_EDGE == 320
THUMB_EDGE == 96

Probed(image) == image.format \in {"jpeg", "png", "gif", "webp"} /\ image.edge > 0

Resized(image) == Resizes /\ image.format \in {"jpeg", "png"}

Usable(image) ==
  /\ image.bytes <= MAX_BYTES /\ Probed(image) /\ image.edge <= MAX_EDGE
  /\ IF Resized(image) THEN image.decodes ELSE image.bytes <= PASS_THROUGH_LIMIT

(* "An image already within the edge is kept as it came", and so is one    *)
(* that is passed through: both variants may be one file.                  *)
FileOf(image, edge) ==
  IF Resized(image) /\ image.edge > edge THEN <<image.content, edge>> ELSE <<image.content, 0>>

Normalized(image) ==
  [label |-> FileOf(image, LABEL_EDGE), thumb |-> FileOf(image, THUMB_EDGE)]

-----------------------------------------------------------------------------
(* embedded.rs.                                                            *)

(* The first picture of a revision that has one marked as the front cover, *)
(* else the first picture of all.                                          *)
EmbeddedCover(visuals) ==
  LET front == SelectInSeq(visuals, LAMBDA v : v.front)
  IN  CASE visuals = <<>> -> NoCover
        [] front # 0 -> visuals[front].image
        [] OTHER -> visuals[1].image

(* "Directory order differs between systems: the choice must not."         *)
FolderCover(listing) ==
  IF listing = {} THEN NoCover
  ELSE (CHOOSE best \in listing : \A other \in listing :
          \/ best.rank < other.rank
          \/ best.rank = other.rank /\ best.path <= other.path).image

(* "A folder image wins over a tag that could not be read": a tag is       *)
(* Broken, or the pictures in it, and a folder Broken or its images.       *)
FileCover(tag, folder) ==
  LET inTag == IF tag = Broken THEN Broken ELSE EmbeddedCover(tag)
      inFolder == IF folder = Broken THEN Broken ELSE FolderCover(folder)
  IN  CASE IsImage(inTag) -> inTag
        [] ~IsImage(inTag) /\ inFolder # NoCover -> inFolder
        [] ~IsImage(inTag) /\ inFolder = NoCover -> inTag

-----------------------------------------------------------------------------
(* lookup.rs.                                                              *)

TypeRank(kind) ==
  CASE kind = "album" -> 0 [] kind = "ep" -> 1 [] kind = "single" -> 2 [] OTHER -> 3

(* The order of releases, as the tuple the code compares: a release with a *)
(* date comes before one without, and the identifier decides last.         *)
ReleaseKey(r) ==
  <<IF r.official THEN 0 ELSE 1, IF r.secondary THEN 1 ELSE 0, TypeRank(r.kind),
    IF r.date = Absent THEN 1 ELSE 0, IF r.date = Absent THEN 0 ELSE r.date, r.id>>

Precedes(a, b) ==
  \E i \in DOMAIN a : a[i] < b[i] /\ \A j \in 1..(i - 1) : a[j] = b[j]

(* collect_releases, as places in the answer: a release without a valid    *)
(* identifier is passed over, and a payload that is not there has none.    *)
CollectReleases(payload) ==
  IF payload = NoPayload THEN {} ELSE {i \in DOMAIN payload : payload[i].id # Absent}

(* An album whose title normalises to nothing.                             *)
Untitled == ""

(* Slip: the album only says which of the releases are looked at first.    *)
TitledSlip(payload, album) == CollectReleases(payload)

(* With an album, only a release titled like it; an album without a title  *)
(* is no album here, though it is one to the chain.                        *)
Titled(payload, album) ==
  {i \in CollectReleases(payload) : album \in {Absent, Untitled} \/ payload[i].title = album}

(* min_by_key: of several that are least, the first.                       *)
Leads(payload, i, j) ==
  LET Earlier(a, b) == Precedes(ReleaseKey(payload[a]), ReleaseKey(payload[b]))
  IN  ~Earlier(j, i) /\ (j < i => Earlier(i, j))

ChooseRelease(payload, album) ==
  LET titled == Titled(payload, album)
  IN  IF titled = {} THEN Absent
      ELSE payload[CHOOSE i \in titled : \A j \in titled \ {i} : Leads(payload, i, j)]

-----------------------------------------------------------------------------
(* chain.rs.  A world is what every link would answer: `own` an image,     *)
(* NoCover, Broken, or Absent for a provider that is no longer registered; *)
(* `releases` what MusicBrainz answers of the recording the identity chain *)
(* matches, Absent without a match, or Broken; `search` what it answers of *)
(* the artist and the album, or Broken; `front` what the archive has for a *)
(* release or a group.                                                     *)

FoundAnswer(image) == [status |-> "found", image |-> image, kept |-> TRUE]
NotFoundAnswer(clean) == [status |-> "notFound", image |-> NoCover, kept |-> clean]
FailedAnswer == [status |-> "failed", image |-> NoCover, kept |-> FALSE]
OfflineAnswer == [status |-> "notCheckedOffline", image |-> NoCover, kept |-> FALSE]

(* A note: the link failed, or what it gave is unusable.                   *)
IsNote(answer) == answer \in {Broken, Absent} \/ (IsImage(answer) /\ ~Usable(answer))

Settles(answer) == answer = Broken \/ (IsImage(answer) /\ Usable(answer))

ByRecording(world) ==
  IF world.releases = Absent THEN Absent
  ELSE ChooseRelease(world.releases, world.album)

Fronts(world, release) ==
  <<world.front[release.id]>> \o
  (IF release.group = Absent THEN <<>> ELSE <<world.front[release.group]>>)

(* The release's front, then its group's; the first that settles it does.  *)
FromArchive(world, release) ==
  LET fronts == Fronts(world, release)
      first == SelectInSeq(fronts, Settles)
  IN  CASE first = 0 ->
             NotFoundAnswer(~IsNote(world.own) /\ \A i \in DOMAIN fronts : ~IsNote(fronts[i]))
        [] first # 0 /\ fronts[first] = Broken -> FailedAnswer
        [] first # 0 /\ fronts[first] # Broken -> FoundAnswer(fronts[first])

BySearch(world) ==
  CASE world.album = Absent -> NotFoundAnswer(~IsNote(world.own))
    [] world.album # Absent /\ world.search = Broken -> FailedAnswer
    [] world.album # Absent /\ world.search # Broken ->
         LET release == ChooseRelease(world.search, world.album)
         IN  IF release = Absent THEN NotFoundAnswer(~IsNote(world.own))
             ELSE FromArchive(world, release)

ThirdParties(world) ==
  IF world.releases = Broken THEN FailedAnswer
  ELSE IF ByRecording(world) = Absent THEN BySearch(world)
  ELSE FromArchive(world, ByRecording(world))

(* resolve and resolve_file, once the cache does not know.                 *)
Outcome(world) ==
  CASE IsImage(world.own) /\ Usable(world.own) -> FoundAnswer(world.own)
    [] ~(IsImage(world.own) /\ Usable(world.own)) ->
         IF world.online THEN ThirdParties(world)
         ELSE IF IsNote(world.own) THEN FailedAnswer ELSE OfflineAnswer

(* MusicBrainz tells its releases apart by their identifiers, and a list   *)
(* of them is not taken for an answer that is missing.                     *)
Listed(payload) ==
  /\ payload \in Seq(ToSet(payload)) /\ Absent \notin ToSet(payload)
  /\ {Broken, Absent, NoPayload} \cap [DOMAIN payload -> ToSet(payload)] = {}
  /\ \A i \in DOMAIN payload : payload[i].id # Absent =>
       /\ payload[i].id \in Nat /\ payload[i].date \in Nat \cup {Absent}
       /\ \A j \in DOMAIN payload : payload[j].id = payload[i].id => payload[j] = payload[i]

(* What a world is, and that nothing else is NoCover, Broken or Absent.    *)
WorldAssumption(world) ==
  /\ NoCover # Broken /\ NoCover # Absent /\ Broken # Absent /\ Absent \notin Nat
  /\ DOMAIN world = {"own", "online", "album", "releases", "search", "front"}
  /\ world.releases \in {Broken, Absent, NoPayload} \/ Listed(world.releases)
  /\ world.search \in {Broken, NoPayload} \/ Listed(world.search)

-----------------------------------------------------------------------------
(* What an answer must be, whatever the links say.                         *)

(* "The same album gives the same cover every time": the order of the      *)
(* releases in MusicBrainz's answers decides nothing.                      *)
Reorderings(releases) ==
  IF releases \in {Broken, Absent, NoPayload} THEN {releases}
  ELSE {[i \in DOMAIN releases |-> releases[p[i]]] :
          p \in {q \in [DOMAIN releases -> DOMAIN releases] : IsInjective(q)}}

OrderDecidesNothing(world) ==
  \A of \in Reorderings(world.releases), found \in Reorderings(world.search) :
    Outcome([world EXCEPT !.releases = of, !.search = found]) = Outcome(world)

(* The releases MusicBrainz offered that may be this album's: of an album  *)
(* without a title, all.                                                   *)
Offered(world) ==
  LET answers == {world.releases} \cup (IF world.album = Absent THEN {} ELSE {world.search})
      lists == answers \ {Broken, Absent, NoPayload}
  IN  {r \in UNION {ToSet(l) : l \in lists} : r.id # Absent /\ world.album \in {Absent, Untitled, r.title}}

FrontsOf(world, r) ==
  {world.front[r.id]} \cup (IF r.group = Absent THEN {} ELSE {world.front[r.group]})

(* "Its compilation's cover shown for the album would be a wrong answer    *)
(* that looks right": a cover is the link's own, or that of a release      *)
(* titled like the album.  Of an album whose title normalises to nothing   *)
(* it may be any release's that was found (lookup.rs:99-101), whatever     *)
(* choose_release says ("With an album, only a release titled like it").   *)
CoverIsTheAlbums(world) ==
  LET answer == Outcome(world)
  IN  answer.status = "found" =>
        answer.image = world.own \/ \E r \in Offered(world) : answer.image \in FrontsOf(world, r)

(* "Not looked up because offline and errors are not kept": "not found" is *)
(* kept, for a month, only when every link that was asked said so.         *)
KeptIsCertain(world) ==
  LET answer == Outcome(world)
  IN  (answer.kept /\ answer.status = "notFound") =>
        /\ world.online /\ world.own = NoCover /\ world.releases # Broken
        /\ \/ Offered(world) = {} /\ (world.album # Absent => world.search # Broken)
           \/ \E r \in Offered(world) : FrontsOf(world, r) = {NoCover}

(* What the chain answers of a track, whatever the links answered: three   *)
(* things the doc comments of lookup.rs and artwork/mod.rs promise.        *)
AnswersAreJustified(world) ==
  OrderDecidesNothing(world) /\ CoverIsTheAlbums(world) /\ KeptIsCertain(world)
=============================================================================
