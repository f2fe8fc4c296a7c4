------------------------------ MODULE Identity ------------------------------
(***************************************************************************)
(* Which recording a track is: the chain of identity/mod.rs over the       *)
(* scores of identity/fuzzy.rs and the keys of identity/normalize.rs.      *)
(*                                                                         *)
(* A title is its name and the words of each bracket after it.  Case,      *)
(* diacritics, punctuation and the "feat." tail, which normalize_text      *)
(* takes away, are not kept, and a name is one word that is no marker.     *)
(* The likeness of two normalised texts, Jaro-Winkler in the code, is a    *)
(* constant between 0 and 100, so that a score is a whole number: a score  *)
(* of 1.0 is Scale.                                                        *)
(***************************************************************************)
EXTENDS Naturals, Integers, Sequences, FiniteSets, SequencesExt

CONSTANTS
  Alike(_, _),      \* strsim::jaro_winkler of two normalised texts
  VariantMarkers,   \* words that make another recording: live, remix, ...
  ReissueMarkers,   \* words that do not: remaster, deluxe, ...
  ShortWords        \* words too short to say anything

Unknown == -1       \* a duration nobody gave
NoIsrc == "none"
NoNote == {}        \* an empty note is none

---------------------------------------------------------------------------
(* Normalisation.                                                          *)

Droppable(bracket) == bracket \cap VariantMarkers = {} /\ bracket \cap ReissueMarkers # {}

\* strip_edition_suffixes, and the words that are left.
NormalizeText(title) ==
  [name |-> title.name, words |-> UNION {b \in title.brackets : ~Droppable(b)}]

\* normalize_artist drops a leading "the".
NormalizeArtist(artist) == [name |-> artist.name, words |-> {}]

WordsOf(text) == {text.name} \cup text.words

TrackKey(track) == <<NormalizeArtist(track.artist), NormalizeText(track.title)>>

Markers(words) == words \cap VariantMarkers

---------------------------------------------------------------------------
(* The fuzzy score.                                                        *)

Scale == 40000
BestSim == 100

\* The parts of the score: two fifths artist, three fifths title.
BaseScore(artistSim, titleSim) == 40 * (4 * artistSim + 6 * titleSim)

Distance(a, b) == IF a <= b THEN b - a ELSE a - b

\* Nothing is known of a duration that is not there.
DurationScore(base, a, b) ==
  CASE a = Unknown \/ b = Unknown -> base
    [] a # Unknown /\ b # Unknown ->
         IF Distance(a, b) <= 3 THEN base + 3200
         ELSE IF Distance(a, b) >= 15 THEN (base * 7) \div 10 ELSE base

\* The candidate's note stands next to its title: MusicBrainz says there that
\* a recording is a live one.
ContextWords(candidate) ==
  WordsOf(NormalizeText(candidate.title)) \cup candidate.note

\* A word the user gave that the candidate does not have.
UnmatchedDetail(words, candidate) ==
  words \ (ShortWords \cup VariantMarkers \cup ContextWords(candidate)) # {}

Contradicts(words, candidate) ==
  \/ Markers(words) # Markers(ContextWords(candidate))
  \/ Markers(words) # {} /\ UnmatchedDetail(words, candidate)

Similarity(track, candidate) ==
  LET artistSim == Alike(NormalizeArtist(track.artist), NormalizeArtist(candidate.artist))
      titleSim == Alike(NormalizeText(track.title), NormalizeText(candidate.title))
      known == DurationScore(BaseScore(artistSim, titleSim), track.duration, candidate.duration)
      floor == IF artistSim < 70 THEN known \div 2 ELSE known
      scored == IF Contradicts(WordsOf(NormalizeText(track.title)), candidate)
                THEN floor \div 2 ELSE floor
  IN  IF scored > Scale THEN Scale ELSE scored

MinFuzzy == 35200      \* 0.88
ExactMatch == 39200    \* 0.98

---------------------------------------------------------------------------
(* The chain.                                                              *)

\* Evidence that separates candidates of the same score: no note, a known
\* duration, and how far that is from the one asked for.
TiebreakRank(candidate) ==
  (IF candidate.note = NoNote THEN 2 ELSE 0) + (IF candidate.duration # Unknown THEN 1 ELSE 0)

NoGap == 1000000

DurationGap(a, b) == IF a = Unknown \/ b = Unknown THEN NoGap ELSE Distance(a, b)

Scored(track, candidate) ==
  [candidate |-> candidate, score |-> Similarity(track, candidate),
   rank |-> TiebreakRank(candidate), gap |-> DurationGap(track.duration, candidate.duration)]

\* A slip: only the score is compared, and the order of the answer does the
\* rest.
RanksBeforeSlip(a, b) == a.score > b.score

\* The order of the candidates; the identifier only makes it a fixed one.
RanksBefore(a, b) ==
  \/ a.score > b.score
  \/ a.score = b.score /\ a.rank > b.rank
  \/ a.score = b.score /\ a.rank = b.rank /\ a.gap < b.gap
  \/ a.score = b.score /\ a.rank = b.rank /\ a.gap = b.gap /\ a.candidate.mbid < b.candidate.mbid

SameEvidence(a, b) == a.score = b.score /\ a.rank = b.rank /\ a.gap = b.gap

Sorted(track, answer) ==
  SortSeq([i \in DOMAIN answer |-> Scored(track, answer[i])], RanksBefore)

\* How many nothing tells from the first.
CountTied(sorted) == Cardinality({i \in DOMAIN sorted : SameEvidence(sorted[i], sorted[1])})

FromMbid(mbid) == <<"mbid", mbid>>
FromIsrc(isrc) == <<"isrc", isrc>>
FromLocalKey(key) == <<"key", key>>

Ambiguous(track) ==
  [id |-> FromLocalKey(TrackKey(track)), method |-> "LocalKey", confidence |-> Scale \div 5]

\* Resolver::resolve, given what the source answers: the recording of the ISRC
\* when there is one to ask for, the candidates of a search otherwise.
Resolve(track, answer) ==
  IF track.isrc # NoIsrc
  THEN IF answer # <<>>
       THEN [id |-> FromMbid(answer[1].mbid), method |-> "Isrc", confidence |-> Scale]
       ELSE [id |-> FromIsrc(track.isrc), method |-> "Isrc", confidence |-> 38000]
  ELSE LET sorted == Sorted(track, answer)
       IN  IF answer = <<>> THEN Ambiguous(track)
           ELSE IF sorted[1].score < MinFuzzy \/ CountTied(sorted) > 1 THEN Ambiguous(track)
           ELSE [id |-> FromMbid(sorted[1].candidate.mbid),
                 method |-> IF sorted[1].score >= ExactMatch THEN "Mbid" ELSE "Fuzzy",
                 confidence |-> sorted[1].score]

\* Resolver::resolve_file: the sound is asked when the text says nothing, and
\* a choice among equals is no exact match.  "heard" is what the service
\* answered, best first, or nothing when the file gives no fingerprint.
ResolveFile(track, answer, heard) ==
  LET text == Resolve(track, answer)
      tied == Cardinality({i \in DOMAIN heard : heard[i].score = heard[1].score})
  IN  IF text.method # "LocalKey" \/ heard = <<>> THEN text
      ELSE [id |-> FromMbid(heard[1].mbid), method |-> "Fingerprint",
            confidence |-> IF tied > 1 /\ heard[1].score > ExactMatch - 400
                           THEN ExactMatch - 400 ELSE heard[1].score]

\* Resolver::resolve_all asks once for a key: the first track that has it.
FirstWith(tracks, key) ==
  tracks[CHOOSE i \in DOMAIN tracks :
           /\ TrackKey(tracks[i]) = key
           /\ \A j \in 1..(i - 1) : TrackKey(tracks[j]) # key]

ResolveAll(tracks, answers) ==
  [key \in {TrackKey(tracks[i]) : i \in DOMAIN tracks} |->
     Resolve(FirstWith(tracks, key), answers[key])]

\* The share of tracks that have an authority, in hundredths.
AuthoritativeRatio(tracks, resolutions) ==
  IF tracks = <<>> THEN 0
  ELSE (100 * Cardinality({i \in DOMAIN tracks :
                             resolutions[TrackKey(tracks[i])].method # "LocalKey"}))
       \div Len(tracks)
=============================================================================
