------------------------------- MODULE Library -------------------------------
(***************************************************************************)
(* The library of one user: the SQLite file of library/mod.rs, and what    *)
(* Session (session.rs) does with it - opening it, importing an archive    *)
(* with its tracks resolved, writing what was played, asking which         *)
(* recording a track or a file is.  Searching and the statistics only      *)
(* read: they are operators on the rows.                                   *)
(*                                                                         *)
(* Several processes have the file open, each with a connection of its     *)
(* own.  A statement outside a transaction is one step.  A transaction     *)
(* reads first: it is refused when another connection has written since.   *)
(* A process may end after any step, by an error or a crash.               *)
(***************************************************************************)
EXTENDS Stats, Import, Answers

CONSTANTS
  Procs,
  Migrations,  \* how many statements each migration has
  Tracks,      \* the track behind each title a record may name
  Archives,    \* the archives there are to import
  Replies,     \* what the source may reply; Offline is one
  Questions,   \* a title to ask about, a file of it, and what the services reply
  Played,      \* listens the player may write
  MaxCrashes   \* bound of the model

Keys == {TrackKey(Tracks[n]) : n \in DOMAIN Tracks}

\* A list of listens to tracks there are.
OfTracks(offered) ==
  /\ Len(offered) \in Nat /\ DOMAIN offered = 1..Len(offered)
  /\ \A i \in DOMAIN offered :
       /\ {"artist", "title"} \subseteq DOMAIN offered[i].track
       /\ TrackKey(offered[i].track) \in Keys /\ offered[i].ms \in Nat

\* Tracks has every track that an archive or the player tells of.
ASSUME LibraryAssumption ==
  /\ Migrations \in Seq(Nat \ {0}) /\ MaxCrashes \in Nat /\ IsFiniteSet(Keys)
  /\ \A archive \in Archives : Readable(archive) => OfTracks(ImportListens(archive, Tracks))
  /\ \A listen \in Played : OfTracks(<<listen>>)

VARIABLES
  schema,   \* user_version, and the statements of migrations that took effect
  rows,     \* the table tracks, by norm_key
  listens,  \* the table listens: track, time, length, source
  writes,   \* for each connection, whether anybody wrote since it last read
  proc,
  crashes

vars == <<schema, rows, listens, writes, proc, crashes>>

NoRow == [known |-> FALSE, track |-> Tracks[CHOOSE n \in DOMAIN Tracks : TRUE],
          id |-> NoId, method |-> "none"]

Closed == [pc |-> "closed", at |-> <<1, 1>>, offered |-> <<>>, answers |-> <<>>,
           found |-> <<>>, todo |-> <<>>]

Init ==
  /\ schema = [version |-> 0, done |-> {}]
  /\ rows = [k \in Keys |-> NoRow] /\ listens = {}
  /\ writes = [p \in Procs |-> FALSE]
  /\ proc = [p \in Procs |-> Closed] /\ crashes = 0

---------------------------------------------------------------------------
(* Rows.                                                                   *)

Coalesce(old, new, none) == IF old = none THEN new ELSE old

\* A track keeps what it has and takes what it lacks.
Completed(old, new) ==
  [old EXCEPT !.album = Coalesce(@, new.album, Nothing),
              !.duration = Coalesce(@, new.duration, Unknown),
              !.isrc = Coalesce(@, new.isrc, NoIsrc)]

\* upsert_track
Upsert(table, track) ==
  LET row == table[TrackKey(track)]
  IN  [table EXCEPT ![TrackKey(track)] =
         IF row.known THEN [row EXCEPT !.track = Completed(row.track, track)]
         ELSE [NoRow EXCEPT !.known = TRUE, !.track = track]]

\* INSERT OR IGNORE: one listen for a track, a time and a length.
InsertListen(table, listen) ==
  LET key == TrackKey(listen.track)
  IN  IF \E l \in table : l.key = key /\ l.at = listen.at /\ l.ms = listen.ms
      THEN table
      ELSE table \cup {[key |-> key, at |-> listen.at, ms |-> listen.ms, source |-> listen.source]}

\* all_listens joins each with its track, whose identity it takes.
AllListens ==
  {[track |-> rows[l.key].track, at |-> l.at, ms |-> l.ms, id |-> rows[l.key].id] : l \in listens}

---------------------------------------------------------------------------
(* Searching.                                                              *)

\* A slip: a play is long enough, and half a short track is none.
PlayPredicateSqlSlip(listen) == listen.ms >= MinPlayed

\* play_predicate_sql, in the words of the table.
PlayPredicateSql(listen) ==
  \/ listen.ms >= MinPlayed
  \/ /\ rows[listen.key].track.duration # Unknown /\ rows[listen.key].track.duration > 0
     /\ listen.ms * 2 >= rows[listen.key].track.duration

\* A hit for each track, not for each identity.
Hit(key) ==
  LET counted == {l \in listens : l.key = key /\ PlayPredicateSql(l)}
  IN  [key |-> key, id |-> rows[key].id, plays |-> Cardinality(counted), ms |-> Total(counted),
       events |-> Cardinality({l \in listens : l.key = key})]

Hits == {Hit(k) : k \in {key \in Keys : rows[key].known}}

---------------------------------------------------------------------------
(* Opening: SqliteLibrary::open.                                           *)

Goto(p, pc) == proc' = [proc EXCEPT ![p].pc = pc]

Fail(p) == proc' = [proc EXCEPT ![p] = Closed]

\* Whoever reads sees all that was written before.
Read(p) == writes' = [writes EXCEPT ![p] = FALSE]
Wrote == writes' = [p \in Procs |-> TRUE]

Open(p) ==
  /\ proc[p].pc = "closed"
  /\ IF schema.version < Len(Migrations)
     THEN proc' = [proc EXCEPT ![p].pc = "migrate", ![p].at = <<schema.version + 1, 1>>]
     ELSE Goto(p, "ready")
  /\ UNCHANGED <<schema, rows, listens, writes, crashes>>

\* A slip: the version is written before the statements are.
MigrateSlip(p) ==
  LET m == proc[p].at[1]
      s == proc[p].at[2]
  IN  /\ proc[p].pc = "migrate"
      /\ IF <<m, s>> \in schema.done
         THEN Fail(p) /\ UNCHANGED schema
         ELSE /\ schema' = [version |-> m, done |-> schema.done \cup {<<m, s>>}]
              /\ IF s < Migrations[m]
                 THEN proc' = [proc EXCEPT ![p].at = <<m, s + 1>>]
                 ELSE Goto(p, "version")
      /\ UNCHANGED <<rows, listens, writes, crashes>>

\* One statement of execute_batch; a table that is there already is an error.
Migrate(p) ==
  LET m == proc[p].at[1]
      s == proc[p].at[2]
  IN  /\ proc[p].pc = "migrate"
      /\ IF <<m, s>> \in schema.done
         THEN Fail(p) /\ UNCHANGED schema
         ELSE /\ schema' = [schema EXCEPT !.done = @ \cup {<<m, s>>}]
              /\ IF s < Migrations[m]
                 THEN proc' = [proc EXCEPT ![p].at = <<m, s + 1>>]
                 ELSE Goto(p, "version")
      /\ UNCHANGED <<rows, listens, writes, crashes>>

MarkVersion(p) ==
  LET m == proc[p].at[1]
  IN  /\ proc[p].pc = "version"
      /\ schema' = [schema EXCEPT !.version = m]
      /\ IF m < Len(Migrations)
         THEN proc' = [proc EXCEPT ![p].pc = "migrate", ![p].at = <<m + 1, 1>>]
         ELSE Goto(p, "ready")
      /\ UNCHANGED <<rows, listens, writes, crashes>>

---------------------------------------------------------------------------
(* Importing: Session::import_inner.                                       *)

KeysOf(offered) == {TrackKey(offered[i].track) : i \in DOMAIN offered}

\* Each key where it is first seen.
WithKey(seen, l) ==
  IF TrackKey(l.track) \in ToSet(seen) THEN seen ELSE Append(seen, TrackKey(l.track))

KeysInOrder(offered) == FoldLeft(WithKey, <<>>, offered)

TracksOf(offered) == [i \in DOMAIN offered |-> offered[i].track]

\* The archive is read and parsed, and nothing of it is written when a part
\* of it cannot be.
BeginImport(p) ==
  /\ proc[p].pc = "ready"
  /\ \E archive \in Archives :
       IF Readable(archive)
       THEN proc' = [proc EXCEPT ![p].pc = "resolve", ![p].offered = ImportListens(archive, Tracks)]
       ELSE Fail(p)
  /\ UNCHANGED <<schema, rows, listens, writes, crashes>>

Candidates(answers) == [key \in DOMAIN answers |-> answers[key].value]

\* All tracks are asked for before anything is written, and one that cannot be
\* asked for ends the import.
ResolveTracks(p) ==
  LET tracks == TracksOf(proc[p].offered)
  IN  /\ proc[p].pc = "resolve"
      /\ \E replies \in [KeysOf(proc[p].offered) -> Replies] :
           LET answers == [key \in DOMAIN replies |-> Asked(FirstWith(tracks, key), replies[key])]
           IN  IF \E key \in DOMAIN answers : ~answers[key].ok THEN Fail(p)
               ELSE proc' = [proc EXCEPT ![p].pc = "begin", ![p].answers = Candidates(answers),
                               ![p].found = ResolveAll(tracks, Candidates(answers))]
  /\ UNCHANGED <<schema, rows, listens, writes, crashes>>

\* insert_listens begins with a read ...
BeginWrite(p) ==
  /\ proc[p].pc = "begin"
  /\ proc' = [proc EXCEPT ![p].pc = "write", ![p].answers = <<>>] /\ Read(p)
  /\ UNCHANGED <<schema, rows, listens, crashes>>

\* ... and writes it all, or nothing when its read is out of date.
InsertListens(p, next) ==
  IF writes[p]
  THEN Fail(p) /\ UNCHANGED <<rows, listens, writes>>
  ELSE LET offered == proc[p].offered
       IN  /\ rows' = FoldLeft(Upsert, rows, TracksOf(offered))
           /\ listens' = FoldLeft(InsertListen, listens, offered)
           /\ Wrote
           /\ proc' = [proc EXCEPT ![p].pc = next, ![p].offered = <<>>,
                        ![p].todo = IF next = "set" THEN KeysInOrder(offered) ELSE <<>>]

WriteImport(p) ==
  /\ proc[p].pc = "write" /\ proc[p].found # <<>>
  /\ InsertListens(p, "set")
  /\ UNCHANGED <<schema, crashes>>

\* A slip: a row is told its method and the identity is left to the listens.
SetResolutionSlip(p) ==
  /\ proc[p].pc = "set" /\ proc[p].todo # <<>>
  /\ LET key == Head(proc[p].todo)
     IN  rows' = [rows EXCEPT ![key] = IF @.known /\ @.method = "none"
                                       THEN [@ EXCEPT !.method = proc[p].found[key].method] ELSE @]
  /\ proc' = [proc EXCEPT ![p].todo = Tail(@)] /\ Wrote
  /\ UNCHANGED <<schema, listens, crashes>>

\* set_resolution, once for each key and whatever the row held before.
SetResolution(p) ==
  /\ proc[p].pc = "set" /\ proc[p].todo # <<>>
  /\ LET key == Head(proc[p].todo)
     IN  rows' = [rows EXCEPT ![key] = IF @.known
                                       THEN [@ EXCEPT !.id = proc[p].found[key].id,
                                                      !.method = proc[p].found[key].method]
                                       ELSE @]
  /\ proc' = [proc EXCEPT ![p].todo = Tail(@)] /\ Wrote
  /\ UNCHANGED <<schema, listens, crashes>>

FinishImport(p) ==
  /\ proc[p].pc = "set" /\ proc[p].todo = <<>>
  /\ Goto(p, "done")
  /\ UNCHANGED <<schema, rows, listens, writes, crashes>>

---------------------------------------------------------------------------
(* The other commands.                                                     *)

\* A listen of the player, which no import resolves; when the write fails the
\* player still has it and tries again.
BeginPlayed(p) ==
  /\ proc[p].pc = "ready"
  /\ \E listen \in Played : proc' = [proc EXCEPT ![p].pc = "begin", ![p].offered = <<listen>>]
  /\ UNCHANGED <<schema, rows, listens, writes, crashes>>

WritePlayed(p) ==
  /\ proc[p].pc = "write" /\ proc[p].found = <<>>
  /\ InsertListens(p, "done")
  /\ UNCHANGED <<schema, crashes>>

\* resolve_track and resolve_file tell what the chain says and write nothing.
Ask(p) ==
  /\ proc[p].pc = "ready"
  /\ \E q \in Questions :
       LET track == Tracks[q.title]
           answer == Asked(track, q.reply)
           told == ResolveSound(track, answer.value, q.file, q.service)
       IN  IF answer.ok /\ told.ok
           THEN proc' = [proc EXCEPT ![p].pc = "asked",
                           ![p].offered = <<[track |-> track, sound |-> q]>>,
                           ![p].answers = [k \in {TrackKey(track)} |-> answer.value],
                           ![p].found = [k \in {TrackKey(track)} |-> told.value]]
           ELSE Fail(p)
  /\ UNCHANGED <<schema, rows, listens, writes, crashes>>

\* The command has reported.
End(p) ==
  /\ proc[p].pc \in {"done", "asked"}
  /\ Fail(p)
  /\ UNCHANGED <<schema, rows, listens, writes, crashes>>

\* The source cannot be reached, the disk is full, the process is killed.
Crash(p) ==
  /\ proc[p].pc \notin {"closed", "done", "asked"} /\ crashes < MaxCrashes
  /\ crashes' = crashes + 1
  /\ Fail(p)
  /\ UNCHANGED <<schema, rows, listens, writes>>

---------------------------------------------------------------------------
Step(p) ==
  \/ Open(p) \/ Migrate(p) \/ MarkVersion(p)
  \/ BeginImport(p) \/ ResolveTracks(p) \/ BeginWrite(p) \/ WriteImport(p)
  \/ SetResolution(p) \/ FinishImport(p)
  \/ BeginPlayed(p) \/ WritePlayed(p) \/ Ask(p) \/ End(p) \/ Crash(p)

Next == \E p \in Procs : Step(p)

Spec == Init /\ [][Next]_vars

---------------------------------------------------------------------------
\* Whoever has the library open has every table and index of it: no crash in
\* a migration and no second process migrating at the same time lets a
\* session start on half a schema (SqliteLibrary::migrate).
OpenMeansMigrated ==
  \A p \in Procs : proc[p].pc \notin {"closed", "migrate", "version"} =>
    \A m \in DOMAIN Migrations : \A s \in 1..Migrations[m] : <<m, s>> \in schema.done

\* When an import reports its numbers, every track it brought has an identity
\* in the library, whatever other processes imported, played or crashed in
\* the middle of meanwhile (Session::import_inner).
FinishedImportIsResolved ==
  \A p \in Procs : proc[p].pc = "done" /\ proc[p].found # <<>> =>
    \A key \in DOMAIN proc[p].found : rows[key].known /\ rows[key].id # NoId

\* The hits of one group of the statistics.
Grouped(hit) == IF hit.id # NoId THEN <<"c", hit.id>> ELSE <<"k", hit.key>>
HitsOf(group) == {h \in Hits : Grouped(h) = group}

\* The search and the statistics tell one number: what the hits of an identity
\* count together is what the statistics count for it (play_predicate_sql and
\* PlayRule::counts, joined by all_listens and by the search's own query).
SearchAgreesWithStats ==
  LET stats == Compute(AllListens, AllTime, 1)
      counted == {g \in {Grouped(h) : h \in Hits} : TotalPlays(HitsOf(g)) > 0}
  IN  /\ stats.tracks = {[group |-> g, plays |-> TotalPlays(HitsOf(g)), ms |-> Total(HitsOf(g))] :
                           g \in counted}
      /\ stats.plays = TotalPlays(stats.byYear)

Reordered(answer) ==
  {[i \in DOMAIN answer |-> answer[perm[i]]] : perm \in Permutations(DOMAIN answer)}

\* Candidates a person could not tell apart.
Twins(c, d) ==
  /\ c.mbid # d.mbid /\ c.artist = d.artist /\ c.title = d.title
  /\ c.note = d.note /\ c.duration = d.duration

\* Replies that say the same in another order.
SameSound(sound) ==
  {[sound EXCEPT !.service.results = other] : other \in Reordered(sound.service.results)}

\* An identity follows from evidence: by text and sound, not from the order of
\* the reply, never from a choice among candidates nothing tells apart, and a
\* choice among recordings that sound the same is not reported as an exact hit;
\* by a code, from a recording tied to it and from nothing else - which of several
\* the order of the reply decides, for the code takes the first, with confidence
\* 1.0 (musicbrainz.rs:312-323; Resolver::resolve, resolve_file, AcoustId::lookup).
IdentityIsEvidence ==
  \A p \in Procs : proc[p].answers # <<>> =>
    \A i \in DOMAIN proc[p].offered :
      LET track == proc[p].offered[i].track
          answer == proc[p].answers[TrackKey(track)]
          found == proc[p].found[TrackKey(track)]
          sounds == IF proc[p].pc = "asked" THEN SameSound(proc[p].offered[i].sound) ELSE {}
      IN  /\ track.isrc = NoIsrc =>
               \A other \in Reordered(answer) :
                 /\ sounds = {} => Resolve(track, other) = found
                 /\ \A s \in sounds :
                      ResolveSound(track, other, s.file, s.service) = Answer(found)
          /\ track.isrc # NoIsrc =>
               /\ found.method = "Isrc"
               /\ found.id \in {FromMbid(c.mbid) : c \in ToSet(answer)}
                    \cup (IF answer = <<>> THEN {FromIsrc(track.isrc)} ELSE {})
          /\ found.method \in {"Mbid", "Fuzzy"} =>
               ~\E c, d \in ToSet(answer) : Twins(c, d) /\ FromMbid(c.mbid) = found.id
          /\ found.method = "Fingerprint" =>
               \A s \in sounds :
                 LET heard == AcoustidAnswer(s.service).value
                 IN  Len(heard) > 1 /\ heard[1].score = heard[2].score => found.confidence < ExactMatch
=============================================================================
