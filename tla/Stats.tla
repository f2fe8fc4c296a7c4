-------------------------------- MODULE Stats --------------------------------
(***************************************************************************)
(* What counts as a play, and the numbers made of it: model.rs (PlayRule), *)
(* stats/mod.rs and the card of sleeve/data.rs.                            *)
(*                                                                         *)
(* A listen is a record with its track, its canonical id or NoId, when it  *)
(* was played and for how long.  The listens are a set: the store keeps no *)
(* two that agree on track, time and length.                               *)
(***************************************************************************)
EXTENDS Identity, FiniteSetsExt

CONSTANTS
  YearLength,  \* model time in a calendar year
  MinPlayed    \* DEFAULT_MIN_MS_PLAYED

NoId == <<"none">>
AllTime == -1

\* PlayRule::counts: long enough, or half of a track of known length.
Counts(ms, duration) ==
  ms >= MinPlayed \/ (duration # Unknown /\ duration > 0 /\ 2 * ms >= duration)

CountsAsPlay(listen) == Counts(listen.ms, listen.track.duration)

YearOf(listen) == listen.at \div YearLength

InScope(listen, year) == year = AllTime \/ YearOf(listen) = year

\* group_key: the identity, or the key of a track that has none yet.
GroupKey(listen) ==
  IF listen.id # NoId THEN <<"c", listen.id>> ELSE <<"k", TrackKey(listen.track)>>

ArtistKey(listen) == NormalizeArtist(listen.track.artist)

Total(listens) == MapThenSumSet(LAMBDA l : l.ms, listens)
TotalPlays(rows) == MapThenSumSet(LAMBDA r : r.plays, rows)

\* The rows of one list: what the listens of each group add up to, with the
\* group each listen is in.
Rows(listens, group) ==
  {LET members == {l \in listens : group[l] = g}
   IN  [group |-> g, plays |-> Cardinality(members), ms |-> Total(members)] :
     g \in {group[l] : l \in listens}}

\* The rows a list of "top" rows may show: those that fewer than that many
\* outrank.  Which of two equals is shown is not decided here.
Outranks(a, b) == a.plays > b.plays \/ (a.plays = b.plays /\ a.ms > b.ms)

Top(rows, top) == {r \in rows : Cardinality({s \in rows : Outranks(s, r)}) < top}

Compute(listens, year, top) ==
  LET scope == {l \in listens : InScope(l, year)}
      played == {l \in scope : CountsAsPlay(l)}
      tracks == Rows(played, [l \in played |-> GroupKey(l)])
      artists == Rows(played, [l \in played |-> ArtistKey(l)])
  IN  [plays |-> Cardinality(played),
       skipped |-> Cardinality(scope) - Cardinality(played),
       outOfScope |-> Cardinality(listens) - Cardinality(scope),
       withoutId |-> Cardinality({l \in played : l.id = NoId}),
       ms |-> Total(played),
       tracks |-> tracks,
       artists |-> {[r EXCEPT !.group = <<r.group,
                       Cardinality({GroupKey(l) : l \in {p \in played : ArtistKey(p) = r.group}})>>] :
                      r \in artists},
       topTracks |-> Top(tracks, top),
       byYear |-> Rows(played, [l \in played |-> YearOf(l)])]

---------------------------------------------------------------------------
(* The card: the first listen of the year and the artists first heard in   *)
(* it, short listens included in both.                                     *)

FirstYear(listens, artist) == Min({YearOf(l) : l \in {m \in listens : ArtistKey(m) = artist}})

Discoveries(listens, year) ==
  LET played == {l \in listens : InScope(l, year) /\ CountsAsPlay(l)}
  IN  {[artist |-> a, first |-> FirstYear(listens, a),
        plays |-> Cardinality({l \in played : ArtistKey(l) = a})] :
         a \in {b \in {ArtistKey(l) : l \in played} :
                  year = AllTime \/ FirstYear(listens, b) = year}}

CardData(listens, year) ==
  [plays |-> Compute(listens, year, 1).plays,
   topTrack |-> Compute(listens, year, 1).topTracks,
   firstListen |-> {l.at : l \in {m \in listens : InScope(m, year)}},
   discoveries |-> Discoveries(listens, year)]
=============================================================================
