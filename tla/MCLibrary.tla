------------------------------ MODULE MCLibrary ------------------------------
(* The two ways something comes into the library: what was listened to      *)
(* (Library) and what lies in the music directories (MCScan).  They write   *)
(* different tables: a behaviour is of one of them.                         *)
EXTENDS Library, MCScan

VARIABLE part

scanVars == <<music, dirTime, closed, clock, changes, catalog, scan, quiet, unseen, edited>>

---------------------------------------------------------------------------
LibraryInit == Init /\ Scans!Init /\ part \in {"library", "scan"}

LibraryNext ==
  \/ part = "library" /\ Next /\ UNCHANGED <<part, scanVars>>
  \/ part = "scan" /\ Scans!Next /\ UNCHANGED <<part, vars>>

\* Neither Library nor Scan states fairness: nothing is claimed to happen.
LibrarySpec == LibraryInit /\ [][LibraryNext]_<<part, vars, scanVars>>

---------------------------------------------------------------------------

\* Texts that begin with the same name, or nearly, are much alike; only one that
\* is the same is wholly so.
MCAlike(a, b) ==
  IF a = b THEN 100
  ELSE IF a.name = b.name \/ {a.name, b.name} = {"creep", "creeps"} THEN 90 ELSE 40

Title(name, brackets) == [name |-> name, brackets |-> brackets]
Artist(name) == [name |-> name]
Track(artist, title, duration, isrc) ==
  [artist |-> Artist(artist), title |-> title, album |-> Nothing, duration |-> duration,
   isrc |-> isrc]

\* The same recording under two spellings, and one of a short track.
MCTracks ==
  [creep |-> Track("radiohead", Title("creep", {}), Unknown, NoIsrc),
   remaster |-> Track("radiohead", Title("creep", {{"remaster", "2011"}}), 8, NoIsrc),
   creeps |-> Track("radiohead", Title("creeps", {{"live"}}), 8, NoIsrc),
   coded |-> Track("radiohead", Title("creeps", {{"live"}}), 8, "isrc1")]

Reply(status, recordings) == [status |-> status, json |-> TRUE, recordings |-> recordings]

Recording(id, title, note, length) ==
  [id |-> id, artist |-> Artist("radiohead"), title |-> title, note |-> note, length |-> length]

Studio == Recording(1, Title("creep", {}), NoNote, 8)
Again == Recording(2, Title("creep", {}), NoNote, 8)
Astoria == Recording(3, Title("creep", {}), {"live", "astoria"}, 9)
Sparse == Recording(4, Title("creep", {}), NoNote, Unknown)
Malformed == Recording(9, Title("creep", {}), NoNote, 8)

Heard(score, ids) ==
  [score |-> score,
   recordings |-> [i \in DOMAIN ids |-> [id |-> ids[i], title |-> "creep", duration |-> 8]]]

Service(key, status, results) ==
  [wired |-> TRUE, key |-> key, status |-> status, results |-> results]

Silent == [Service(FALSE, "ok", <<>>) EXCEPT !.wired = FALSE]

File(packets) == [opens |-> TRUE, packets |-> packets, shortest |-> 1]
Whole == File(<<"other track", "sound", "undecodable">>)

Question(title, reply, file, service) ==
  [title |-> title, reply |-> reply, file |-> file, service |-> service]

Twice == Reply(200, <<Malformed, Studio, Again>>)
Told == Reply(200, <<Astoria, Sparse, Studio>>)
\* Two nothing tells apart, one of each kind of evidence, and a service that
\* is down.
MCReplies == {Offline, Twice, Told, Reply(500, <<>>)}

Tie == Service(TRUE, "ok", <<Heard(39800, <<9, 2>>), Heard(39800, <<1>>), Heard(10000, <<3>>)>>)

\* Two recordings of the same score and a worse one; a reply that is refused;
\* no key; no print; and what the text alone tells.
MCQuestions ==
  {Question("creep", Twice, Whole, Tie), Question("creep", Twice, Whole, Silent),
   Question("creep", Offline, Whole, Service(TRUE, "error", <<>>)),
   Question("creep", Twice, Whole, Service(FALSE, "ok", <<>>)),
   Question("remaster", Twice, File(<<"undecodable">>), Tie),
   Question("remaster", Told, Whole, Tie), Question("coded", Twice, Whole, Silent),
   Question("creeps", Reply(500, <<>>), Whole, Silent)}

Record(title, at, ms) ==
  [spoken |-> FALSE, title |-> title, artist |-> "a", album |-> "album", at |-> at, ms |-> ms]

Export(kind, place, records) == [kind |-> kind, place |-> place, json |-> TRUE, records |-> records]

\* The extended history, with a record of each kind that is none; the account
\* history of the same days; and a file that is no JSON.
MCArchives ==
  {<<Export("spotify_extended", 2, <<Record("creeps", 12, 5), [Record("creep", 1, 1) EXCEPT !.spoken = TRUE],
                                   [Record("creep", 1, 1) EXCEPT !.at = -1], Record("creep", 3, -1)>>),
     Export("spotify_extended", 1, <<Record("remaster", 3, 2)>>), [Export("directory", 3, <<>>) EXCEPT !.json = FALSE]>>,
   <<Export("spotify_account", 1, <<Record("creep", 3, 2), [Record("creep", 1, 1) EXCEPT !.artist = Nothing]>>)>>,
   <<[Export("spotify_account", 1, <<>>) EXCEPT !.json = FALSE]>>}

MCPlayed == {[track |-> MCTracks["creep"], at |-> 14, ms |-> 4, source |-> "playback"]}

MCMigrations == <<2, 1>>

ProcsAlike == Permutations(Procs)
=============================================================================
