------------------------------- MODULE Answers -------------------------------
(***************************************************************************)
(* What the services say about a track, and what the clients make of it:   *)
(* identity/musicbrainz.rs for a code or a text, identity/acoustid.rs for  *)
(* a sound, identity/fingerprint.rs for the sound of a file.  A reply is   *)
(* what came over the wire, with whatever is missing or malformed in it;   *)
(* an answer is the sequence of candidates Identity chooses from.          *)
(*                                                                         *)
(* How often a call is made, how it is spaced and repeated, is the module  *)
(* Lookups; here a reply is the last one.                                  *)
(***************************************************************************)
EXTENDS Identity

CONSTANTS
  WellFormed,   \* the identifiers Mbid::parse and Isrc::parse take
  SearchLimit   \* how many recordings a search asks for

Blank == "blank"       \* a text of nothing but spaces
Nowhere == "none"      \* a field that is not in the reply

Unanswered == [ok |-> FALSE]
Answer(value) == [ok |-> TRUE, value |-> value]

UpTo(seq, n) == SubSeq(seq, 1, IF Len(seq) < n THEN Len(seq) ELSE n)

---------------------------------------------------------------------------
(* MusicBrainz.                                                            *)

\* MbRecording as it becomes a candidate: every field but the identifier may
\* be missing.
CandidateOf(recording) ==
  [mbid |-> recording.id, artist |-> recording.artist, title |-> recording.title,
   note |-> recording.note, duration |-> recording.length]

\* A recording whose identifier is no identifier is left out.
CollectCandidates(recordings) ==
  LET parsed == SelectSeq(recordings, LAMBDA r : r.id \in WellFormed)
  IN  [i \in DOMAIN parsed |-> CandidateOf(parsed[i])]

\* get_json: 404 is an answer of nothing; any other refusal, and a body that
\* cannot be read, is an error.
Payload(reply) ==
  CASE reply.status = 404 -> Answer(<<>>)
    [] reply.status = 200 /\ reply.json -> Answer(reply.recordings)
    [] OTHER -> Unanswered

\* A code may be tied to several recordings: the first one is taken.
RecordingByIsrc(reply) ==
  LET payload == Payload(reply)
  IN  IF payload.ok THEN Answer(UpTo(CollectCandidates(payload.value), 1)) ELSE payload

\* build_query: what is blank is not asked for.
BuildQuery(track) ==
  {<<"artist", track.artist.name>>, <<"recording", track.title.name>>}
    \ {<<field, Blank>> : field \in {"artist", "recording"}}

\* Nothing to ask, no request; and the service tells at most what was asked.
SearchRecordings(track, reply) ==
  LET payload == Payload(reply)
  IN  IF BuildQuery(track) = {} THEN Answer(<<>>)
      ELSE IF payload.ok
           THEN Answer(CollectCandidates(UpTo(payload.value, SearchLimit)))
           ELSE payload

\* OfflineLookup.
Offline == [status |-> 404, json |-> TRUE, recordings |-> <<>>]

\* What Resolver::resolve asks for a track.
Asked(track, reply) ==
  IF track.isrc # NoIsrc THEN RecordingByIsrc(reply) ELSE SearchRecordings(track, reply)

---------------------------------------------------------------------------
(* The fingerprint of a file.                                              *)

\* fingerprint_file: the packets of the audio track, one after the other.  One
\* that cannot be decoded is left out, one that cannot be read is an error, and
\* so is a file with too little sound for a print.
FingerprintFile(file) ==
  LET audio == SelectSeq(file.packets, LAMBDA p : p # "other track")
      decoded == Cardinality({i \in DOMAIN audio : audio[i] = "sound"})
  IN  IF file.opens /\ "unreadable" \notin ToSet(audio) /\ decoded >= file.shortest
      THEN [ok |-> TRUE, seconds |-> decoded] ELSE [ok |-> FALSE]

---------------------------------------------------------------------------
(* AcoustID.                                                               *)

MinAcoustidScore == 20000    \* 0.5

\* duration_secs_to_ms: a length that cannot be one is unknown.
DurationOf(secs) == IF secs > 0 /\ secs <= 86400 THEN secs ELSE Unknown

\* The recordings of one result have its score.  One without an identifier or
\* without a title is left out.
RecordingsOf(result) ==
  LET usable == IF result.score < MinAcoustidScore THEN <<>>
                ELSE SelectSeq(result.recordings,
                               LAMBDA r : r.id \in WellFormed /\ r.title # Nowhere)
  IN  [i \in DOMAIN usable |-> [mbid |-> usable[i].id, score |-> result.score,
                                duration |-> DurationOf(usable[i].duration)]]

HeardBefore(a, b) ==
  \/ a.score > b.score
  \/ a.score = b.score /\ a.mbid < b.mbid

\* lookup: without a key nothing is asked; a reply that names a reason of its
\* own is refused whatever its HTTP status; the best come first, and the
\* identifier settles what the scores do not.
AcoustidAnswer(service) ==
  IF ~service.key \/ service.status # "ok" THEN Unanswered
  ELSE Answer(SortSeq(FlattenSeq([i \in DOMAIN service.results |->
                                    RecordingsOf(service.results[i])]),
                      HeardBefore))

---------------------------------------------------------------------------
(* The whole chain for one file.                                           *)

\* Resolver::resolve_file with the session's own rule of when there is a
\* service to ask for a sound: offline there is none.  An error of the service
\* is an error of the command; a file without a print is not.
ResolveSound(track, answer, file, service) ==
  LET text == Resolve(track, answer)
      print == FingerprintFile(file)
      heard == AcoustidAnswer(service)
  IN  IF text.method # "LocalKey" \/ ~service.wired \/ ~print.ok
      THEN Answer(ResolveFile(track, answer, <<>>))
      ELSE IF heard.ok THEN Answer(ResolveFile(track, answer, heard.value))
           ELSE Unanswered
=============================================================================
