------------------------------- MODULE Import -------------------------------
(***************************************************************************)
(* A listening history read from an export: import/mod.rs, the archives of *)
(* import/archive.rs and the two Spotify formats of import/spotify.rs.     *)
(*                                                                         *)
(* An archive is a sequence of entries in its own order.  An entry has the *)
(* kind of file its name says, its place among the entries sorted by name, *)
(* and its records, or a body that is no JSON.  A record's fields are      *)
(* those of the format; a name that is missing or blank is "none", a time  *)
(* or a length that is missing or cannot be read is negative.              *)
(***************************************************************************)
EXTENDS Integers, Sequences, FiniteSets, SequencesExt

Nothing == "none"

---------------------------------------------------------------------------
(* The archive.                                                            *)

\* A directory lists its files sorted, a zip as they were packed, without its
\* directories.
EntryNames(archive) == SelectSeq(archive, LAMBDA e : e.kind # "directory")

\* The parsers, in the order they are tried.
Parsers == <<"spotify_extended", "spotify_account">>

MatchingEntries(archive, parser) ==
  SortSeq(SelectSeq(EntryNames(archive), LAMBDA e : e.kind = parser),
          LAMBDA a, b : a.place < b.place)

\* The first format with a matching entry; "none" is UnsupportedExport.
Detect(archive) ==
  LET found == SelectSeq(Parsers, LAMBDA p : MatchingEntries(archive, p) # <<>>)
  IN  IF found = <<>> THEN Nothing ELSE Head(found)

---------------------------------------------------------------------------
(* The records.                                                            *)

\* Why a record is no listen: the checks in their order, the first of which
\* only the extended format has.
SkipReason(record, export) ==
  IF export = "spotify_extended" /\ record.spoken THEN "NotMusic"
  ELSE IF record.title = Nothing THEN "MissingTitle"
  ELSE IF record.artist = Nothing THEN "MissingArtist"
  ELSE IF record.at < 0 THEN "BadTimestamp"
  ELSE IF record.ms < 0 THEN "BadDuration"
  ELSE Nothing

Accepted(record, export) ==
  ~(export = "spotify_extended" /\ record.spoken)
  /\ record.title # Nothing /\ record.artist # Nothing /\ record.at >= 0 /\ record.ms >= 0

\* The account export knows neither album nor identifier, and its time is the
\* minute the track ended.
ListenOf(record, export, tracks) ==
  [track |-> [tracks[record.title] EXCEPT
                !.album = IF export = "spotify_extended" THEN record.album ELSE Nothing],
   at |-> record.at, ms |-> record.ms, source |-> export]

ParseEntry(entry, export, tracks) ==
  LET good == SelectSeq(entry.records, LAMBDA r : Accepted(r, export))
  IN  [i \in DOMAIN good |-> ListenOf(good[i], export, tracks)]

\* One entry that cannot be read or parsed fails the import.
Readable(archive) ==
  /\ Detect(archive) # Nothing
  /\ \A i \in DOMAIN archive : archive[i].kind = Detect(archive) => archive[i].json

ImportListens(archive, tracks) ==
  LET matched == MatchingEntries(archive, Detect(archive))
  IN  FlattenSeq([i \in DOMAIN matched |-> ParseEntry(matched[i], Detect(archive), tracks)])
=============================================================================
