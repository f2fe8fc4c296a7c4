---------------------------- MODULE ShellsProofs ----------------------------
(***************************************************************************)
(* What `headshell play` and a session promise of the history, for every   *)
(* list, every number of engines, keys and faults.                         *)
(*                                                                         *)
(* The argument: an engine numbers the tracks it is given, so what the     *)
(* player calls the playing track (its item and its number) is the line's  *)
(* entry of that number, and so is whatever sounded under it.  Closing the *)
(* playing track therefore names the track that sounded, and every track   *)
(* that passed the rule while it was the playing one is either that track  *)
(* or has its listen already.  A new engine has a new number, and nothing  *)
(* is playing for the player while one is being opened.  What the shells   *)
(* add moves the listens from the player to `pending` and the store, and   *)
(* drops none.                                                             *)
(***************************************************************************)
EXTENDS Shells, QueueProofs

(* What the player calls playing is the line's entry of that number.       *)
OnLine(np) == np.seq \in DOMAIN engine.line /\ engine.line[np.seq].item = np.item

(* The player's numbers, the line and what sounded agree; the last track   *)
(* that sounded on the engine is the one it is on.                         *)
EngineInv ==
  /\ engine.id <= engines /\ Len(engine.line) <= MaxLine
  /\ now # None => OnLine(now)
  /\ prefetched # None => OnLine(prefetched)
  /\ \A i \in DOMAIN plays : plays[i].eng = engine.id =>
       plays[i].seq \in DOMAIN engine.line /\ plays[i].item = engine.line[plays[i].seq].item
  /\ plays # <<>> /\ Last(plays).eng = engine.id => Last(plays).seq = engine.heard

(* Between calls and inside them: engines grow, so an old play is never    *)
(* taken for one of the engine that plays now.                             *)
PlayerInv ==
  /\ PlayerTypeOK /\ QInv(queue)
  /\ \A i \in DOMAIN plays : plays[i].eng <= engines
  /\ engine # None => EngineInv
  /\ core.pc \in {"sampled", "prefetching"} => engine # None
  /\ core.pc = "starting" => now = None /\ queue.items # <<>>
  /\ core.pc = "prefetching" => PeekAfterFinish(queue) # NoTrack
  /\ core.pc \in {"gone", "closed"} => engine = None

(* NoticedPlayBecomesListen without its condition.                         *)
Noticed == \A i \in DOMAIN plays :
             plays[i].enough = "yes" => ListenOf(plays[i]) \in closed \/ IsNow(plays[i])

(* A session holds every listen until it is dropped without shutdown.      *)
SessionInv ==
  /\ core.pc # "gone" => Noticed /\ ListensAreKept
  /\ pending \in Seq(Listen) /\ storeFaults \in Nat

(* `headshell play` writes once, after the loop.                           *)
CliInv ==
  /\ phase \in {"searching", "looping", "done", "failed"}
  /\ phase = "searching" => core = Free /\ now = None /\ engine = None
  /\ phase \in {"searching", "looping"} => Noticed /\ stored = {} /\ closed = ToSet(listens)
  /\ phase \in {"done", "failed"} => core.pc = "closed"
  /\ Cli!DoneMeansWritten

(* The inductive invariant.                                                *)
ShellsInv ==
  /\ shell \in {"play", "session"}
  /\ PlayerInv /\ ListensAreTrue /\ WrittenEveryRound
  /\ shell = "session" => SessionInv
  /\ shell = "play" => CliInv

USE PlayerAssumption

(* What a batch put behind another holds.                                  *)
LEMMA Joined ==
  ASSUME NEW S, NEW q \in Seq(S), NEW r \in Seq(S)
  PROVE  q \o r \in Seq(S) /\ ToSet(q \o r) = ToSet(q) \cup ToSet(r)
<1>1. /\ DOMAIN q = 1..Len(q) /\ DOMAIN r = 1..Len(r)
      /\ Len(q) \in Nat /\ Len(r) \in Nat
  OBVIOUS
<1>2. /\ q \o r \in Seq(S) /\ Len(q \o r) = Len(q) + Len(r)
      /\ \A i \in 1..Len(q) : (q \o r)[i] = q[i]
      /\ \A i \in (Len(q) + 1)..(Len(q) + Len(r)) : (q \o r)[i] = r[i - Len(q)]
  OBVIOUS
<1>3. DOMAIN (q \o r) = 1..(Len(q) + Len(r))
  BY <1>2
<1>4. ASSUME NEW x \in ToSet(q \o r) PROVE x \in ToSet(q) \cup ToSet(r)
  <2>1. PICK i \in 1..(Len(q) + Len(r)) : x = (q \o r)[i]
    BY <1>3, <1>4 DEF ToSet
  <2>2. CASE i <= Len(q)
    BY <2>1, <2>2, <1>1, <1>2 DEF ToSet
  <2>3. CASE i > Len(q)
    <3>1. i \in (Len(q) + 1)..(Len(q) + Len(r)) /\ i - Len(q) \in 1..Len(r)
      BY <2>1, <2>3, <1>1
    <3> QED BY <3>1, <2>1, <1>1, <1>2 DEF ToSet
  <2> QED BY <2>1, <2>2, <2>3, <1>1
<1>5. ASSUME NEW x \in ToSet(q) PROVE x \in ToSet(q \o r)
  <2>1. PICK i \in 1..Len(q) : x = q[i]
    BY <1>1, <1>5 DEF ToSet
  <2>2. i \in 1..(Len(q) + Len(r))
    BY <1>1, <2>1
  <2> QED BY <2>1, <2>2, <1>2, <1>3 DEF ToSet
<1>6. ASSUME NEW x \in ToSet(r) PROVE x \in ToSet(q \o r)
  <2>1. PICK i \in 1..Len(r) : x = r[i]
    BY <1>1, <1>6 DEF ToSet
  <2>2. Len(q) + i \in (Len(q) + 1)..(Len(q) + Len(r)) /\ Len(q) + i \in 1..(Len(q) + Len(r))
        /\ (Len(q) + i) - Len(q) = i
    BY <1>1, <2>1
  <2> QED BY <2>1, <2>2, <1>2, <1>3 DEF ToSet
<1> QED BY <1>2, <1>4, <1>5, <1>6

(* The listens of a call that closes none, or one.                         *)
LEMMA EmptyAndOne == ToSet(<<>>) = {} /\ \A x : ToSet(<<x>>) = {x}
<1>1. ToSet(<<>>) = {}
  BY DEF ToSet
<1>2. ASSUME NEW x PROVE ToSet(<<x>>) = {x}
  <2>1. DOMAIN <<x>> = {1} /\ <<x>>[1] = x
    OBVIOUS
  <2> QED BY <2>1 DEF ToSet
<1> QED BY <1>1, <1>2

(* The listen a call closes.                                               *)
LEMMA Closes ==
  ASSUME NEW np \in Numbered \cup {None}, PlayerInv, engine # None /\ np # None => OnLine(np)
  PROVE  /\ FinishedListen(np) \in Seq(Listen)
         /\ \A l \in ToSet(FinishedListen(np)) : \E i \in DOMAIN plays :
              ListenOf(plays[i]) = l /\ plays[i].enough # "no"
<1>1. CASE np # None /\ PlayedEnough(np)
  <2>1. PICK i \in DOMAIN plays : /\ plays[i].eng = engine.id /\ plays[i].seq = np.seq
                                  /\ plays[i].enough # "no"
    BY <1>1 DEF PlayedEnough
  <2>2. engine # None /\ OnLine(np) /\ plays[i].item = engine.line[plays[i].seq].item
    BY <1>1, <2>1 DEF PlayedEnough, PlayerInv, EngineInv
  <2> DEFINE l == [eng |-> engine.id, seq |-> np.seq, item |-> np.item]
  <2>3. ListenOf(plays[i]) = l
    BY <2>1, <2>2 DEF ListenOf, OnLine
  <2>4. FinishedListen(np) = <<l>>
    BY <1>1 DEF FinishedListen
  <2>5. l \in Listen
    BY <1>1, <2>2 DEF PlayerInv, PlayerTypeOK, Engine, Numbered, Listen
  <2> HIDE DEF l
  <2>6. <<l>> \in Seq(Listen)
    BY <2>5
  <2> QED BY <2>1, <2>3, <2>4, <2>6, EmptyAndOne
<1>2. CASE ~(np # None /\ PlayedEnough(np))
  <2>1. FinishedListen(np) = <<>>
    BY <1>2 DEF FinishedListen
  <2> QED BY <2>1, EmptyAndOne
<1> QED BY <1>1, <1>2

(* Closing the playing track's listen: nobody's is lost.                   *)
LEMMA Closing ==
  ASSUME PlayerInv, ListensAreTrue, Noticed, NEW more,
         more \in {<<>>, FinishedListen(prefetched)},
         plays' = plays, closed' = closed \cup ToSet(FinishedListen(now) \o more)
  PROVE  /\ ListensAreTrue' /\ Noticed'
         /\ FinishedListen(now) \o more \in Seq(Listen) /\ closed' \in SUBSET Listen
<1>1. /\ engine # None /\ now # None => OnLine(now)
      /\ engine # None /\ prefetched # None => OnLine(prefetched)
      /\ now \in Numbered \cup {None} /\ prefetched \in Numbered \cup {None}
      /\ closed \in SUBSET Listen
  BY DEF PlayerInv, EngineInv, PlayerTypeOK
<1>2. /\ FinishedListen(now) \in Seq(Listen) /\ more \in Seq(Listen)
      /\ \A l \in ToSet(FinishedListen(now)) \cup ToSet(more) : \E i \in DOMAIN plays :
           ListenOf(plays[i]) = l /\ plays[i].enough # "no"
  <2> DEFINE Sound(q) == \A l \in ToSet(q) : \E i \in DOMAIN plays :
                            ListenOf(plays[i]) = l /\ plays[i].enough # "no"
  <2>1. FinishedListen(now) \in Seq(Listen) /\ Sound(FinishedListen(now))
    BY <1>1, Closes
  <2>2. FinishedListen(prefetched) \in Seq(Listen) /\ Sound(FinishedListen(prefetched))
    BY <1>1, Closes
  <2>3. <<>> \in Seq(Listen) /\ Sound(<<>>)
    BY EmptyAndOne
  <2>4. more \in Seq(Listen) /\ Sound(more)
    BY <2>2, <2>3
  <2> QED BY <2>1, <2>4
<1>3. FinishedListen(now) \o more \in Seq(Listen)
      /\ ToSet(FinishedListen(now) \o more) = ToSet(FinishedListen(now)) \cup ToSet(more)
  BY <1>2, Joined
<1>4. ListensAreTrue'
  BY <1>2, <1>3 DEF ListensAreTrue, ListenOf
<1>5. ASSUME NEW i \in DOMAIN plays, plays[i].enough = "yes" PROVE ListenOf(plays[i]) \in closed'
  <2>1. CASE ListenOf(plays[i]) \in closed
    BY <2>1
  <2>2. CASE IsNow(plays[i])
    <3>1. now # None /\ PlayedEnough(now) /\ engine # None
      BY <1>5, <2>2 DEF IsNow, PlayedEnough
    <3>2. OnLine(now) /\ plays[i].item = engine.line[plays[i].seq].item
      BY <3>1, <2>2 DEF PlayerInv, EngineInv, IsNow
    <3>3. ListenOf(plays[i]) = [eng |-> engine.id, seq |-> now.seq, item |-> now.item]
      BY <3>2, <2>2 DEF ListenOf, OnLine, IsNow
    <3>4. ListenOf(plays[i]) \in ToSet(FinishedListen(now))
      BY <3>1, <3>3, EmptyAndOne DEF FinishedListen
    <3> QED BY <3>4, <1>3
  <2> QED BY <1>5, <2>1, <2>2 DEF Noticed
<1>6. Noticed'
  BY <1>5 DEF Noticed, ListenOf
<1>7. ToSet(FinishedListen(now) \o more) \subseteq Listen
  BY <1>3 DEF ToSet
<1> QED BY <1>1, <1>3, <1>4, <1>6, <1>7

(* A step that closes nothing and keeps the playing track.                 *)
LEMMA Quiet ==
  ASSUME ListensAreTrue, Noticed, UNCHANGED <<plays, closed, now>>,
         now # None => UNCHANGED engine \/ (engine' # None /\ engine'.id = engine.id)
  PROVE  ListensAreTrue' /\ Noticed'
BY DEF ListensAreTrue, Noticed, ListenOf, IsNow

(* What a call of the player keeps.                                        *)
PlayerKeeps ==
  /\ PlayerInv' /\ ListensAreTrue' /\ Noticed'
  /\ \A R : closed = R \cup ToSet(listens) => closed' = R \cup ToSet(listens')

(* The engine playing on: a track that begins is not noticed yet, one that *)
(* passes the rule is the playing one exactly if its number is.            *)
LEMMA EngineKeeps == ASSUME PlayerInv, ListensAreTrue, Noticed, EngineStep PROVE PlayerKeeps
<1>0. /\ engine # None /\ engine \in Engine /\ EngineInv /\ PlayerTypeOK /\ QInv(queue)
      /\ \A i \in DOMAIN plays : plays[i].eng <= engines
      /\ UNCHANGED <<queue, now, listens, prefetched, core, engines, keys, closed>>
      /\ engine.line \in Seq(Line) /\ plays \in Seq(Play) /\ engines \in Nat
      /\ DOMAIN engine.line = 1..Len(engine.line) /\ DOMAIN plays = 1..Len(plays) /\ Len(plays) \in Nat
  <2>1. engine # None /\ UNCHANGED <<queue, now, listens, prefetched, core, engines, keys, closed>>
    BY DEF EngineStep, EngineHears, EngineProgresses, EngineSkips, EngineEnds, EngineEndsEarly,
       CallbackStores, engineRest
  <2>2. engine \in Engine /\ EngineInv /\ PlayerTypeOK /\ QInv(queue)
        /\ (\A i \in DOMAIN plays : plays[i].eng <= engines)
        /\ plays \in Seq(Play) /\ engines \in Nat
    BY <2>1 DEF PlayerInv, PlayerTypeOK
  <2>3. engine.line \in Seq(Line)
    BY <2>2 DEF Engine
  <2> QED BY <2>1, <2>2, <2>3
<1>a. ASSUME PlayerTypeOK', \A i \in DOMAIN plays' : plays'[i].eng <= engines', EngineInv', engine' # None
      PROVE  PlayerInv'
  BY <1>a, <1>0 DEF PlayerInv
<1>1. CASE EngineHears
  <2> DEFINE n == engine.heard + 1
             p == [eng |-> engine.id, seq |-> n, item |-> engine.line[n].item, enough |-> "no"]
  <2>1. /\ n \in DOMAIN engine.line /\ engine' = [engine EXCEPT !.heard = @ + 1, !.ended = FALSE,
                                                             !.stopped = FALSE]
        /\ plays' = Append(plays, p) /\ faults' = faults
    BY <1>1 DEF EngineHears, Waiting, engineRest
  <2>2. n \in 1..MaxLine /\ engine.line[n] \in Line
    BY <2>1, <1>0 DEF EngineInv, Engine
  <2>3. /\ engine'.id = engine.id /\ engine'.line = engine.line /\ engine'.heard = n
        /\ engine' \in Engine /\ engine' # None
    <3>1. n \in 0..MaxLine
      BY <2>2
    <3>2. engine' = [engine EXCEPT !.heard = n, !.ended = FALSE, !.stopped = FALSE]
      BY <2>1
    <3> HIDE DEF n
    <3>3. /\ engine'.id = engine.id /\ engine'.line = engine.line /\ engine'.heard = n
          /\ engine' \in Engine
      BY <3>1, <3>2, <1>0 DEF Engine
    <3> QED BY <3>3
  <2>4. p \in Play
    BY <2>2, <1>0 DEF Play, Engine, Line
  <2>5. p.eng = engine.id /\ p.seq = n /\ p.item = engine.line[n].item /\ p.enough = "no"
    OBVIOUS
  <2> HIDE DEF p
  <2>6. /\ plays' \in Seq(Play) /\ Len(plays') = Len(plays) + 1 /\ plays'[Len(plays) + 1] = p
        /\ DOMAIN plays' = 1..(Len(plays) + 1)
        /\ \A i \in DOMAIN plays : plays'[i] = plays[i]
    BY <2>1, <2>4, <1>0
  <2>7. DOMAIN plays' = DOMAIN plays \cup {Len(plays) + 1}
    BY <2>6, <1>0
  <2>8. PlayerTypeOK'
    BY <2>1, <2>3, <2>6, <1>0 DEF PlayerTypeOK
  <2>9. \A i \in DOMAIN plays' : plays'[i].eng <= engines'
    BY <2>5, <2>6, <2>7, <1>0 DEF EngineInv
  <2>10. EngineInv'
    <3>1. \A i \in DOMAIN plays' : plays'[i].eng = engine.id =>
            plays'[i].seq \in DOMAIN engine.line /\ plays'[i].item = engine.line[plays'[i].seq].item
      <4> TAKE i \in DOMAIN plays'
      <4>1. CASE i \in DOMAIN plays
        BY <4>1, <2>6, <1>0 DEF EngineInv
      <4>2. CASE i = Len(plays) + 1
        BY <4>2, <2>1, <2>5, <2>6
      <4> QED BY <4>1, <4>2, <2>7
    <3>2. Last(plays') = p
      BY <2>6, <1>0 DEF Last
    <3> HIDE DEF n
    <3> QED BY <3>1, <3>2, <2>3, <2>5, <1>0 DEF EngineInv, OnLine
  <2>11. ListensAreTrue'
    BY <2>6, <2>7, <1>0 DEF ListensAreTrue, ListenOf
  <2>12. Noticed'
    <3>1. \A i \in DOMAIN plays : IsNow(plays[i]) => IsNow(plays[i])'
      BY <2>3, <2>6, <1>0 DEF IsNow
    <3>2. \A i \in DOMAIN plays : plays'[i].enough = plays[i].enough
          /\ ListenOf(plays[i])' = ListenOf(plays[i])
      BY <2>6 DEF ListenOf
    <3>3. plays'[Len(plays) + 1].enough = "no"
      BY <2>5, <2>6
    <3> QED BY <3>1, <3>2, <3>3, <2>7, <1>0 DEF Noticed
  <2> QED BY <2>3, <2>8, <2>9, <2>10, <2>11, <2>12, <1>0, <1>a DEF PlayerKeeps
<1>2. CASE EngineProgresses
  <2> DEFINE l == Len(plays)
             e == IF now # None /\ now.seq = engine.heard THEN "yes" ELSE "unnoticed"
  <2>1. /\ plays[l].eng = engine.id /\ plays[l].enough = "no" /\ engine' = engine
        /\ plays' = [plays EXCEPT ![l].enough = e] /\ faults' = faults
    BY <1>2 DEF EngineProgresses, Last, engineRest
  <2>2. /\ plays' \in Seq(Play) /\ Len(plays') = l /\ DOMAIN plays' = DOMAIN plays
        /\ \A i \in DOMAIN plays : /\ plays'[i].eng = plays[i].eng /\ plays'[i].seq = plays[i].seq
                                   /\ plays'[i].item = plays[i].item
                                   /\ plays'[i].enough = IF i = l THEN e ELSE plays[i].enough
    <3>1. CASE l = 0
      <4>1. DOMAIN plays = {}
        BY <3>1, <1>0
      <4>2. plays' = plays
        BY <4>1, <2>1, <1>0
      <4> QED BY <4>1, <4>2, <1>0
    <3>2. CASE l # 0
      <4>1. l \in DOMAIN plays /\ plays[l] \in Play
        BY <3>2, <1>0
      <4> DEFINE p == [plays[l] EXCEPT !.enough = e]
      <4>2. p \in Play /\ p.eng = plays[l].eng /\ p.seq = plays[l].seq /\ p.item = plays[l].item
            /\ p.enough = e
        BY <4>1 DEF Play
      <4>3. plays' = [plays EXCEPT ![l] = p]
        BY <2>1
      <4> HIDE DEF p, e
      <4> QED BY <4>1, <4>2, <4>3, <1>0
    <3> QED BY <3>1, <3>2
  <2> HIDE DEF e
  <2>3. PlayerTypeOK'
    BY <2>1, <2>2, <1>0 DEF PlayerTypeOK
  <2>4. EngineInv'
    <3>1. plays' # <<>> /\ Last(plays').eng = engine.id => Last(plays').seq = engine.heard
      <4> SUFFICES ASSUME plays' # <<>>, Last(plays').eng = engine.id PROVE Last(plays').seq = engine.heard
        OBVIOUS
      <4>1. l \in DOMAIN plays /\ plays # <<>>
        BY <2>2, <1>0
      <4> QED BY <4>1, <2>1, <2>2, <1>0 DEF EngineInv, Last
    <3>2. \A i \in DOMAIN plays' : plays'[i].eng = engine.id =>
            plays'[i].seq \in DOMAIN engine.line /\ plays'[i].item = engine.line[plays'[i].seq].item
      BY <2>2, <1>0 DEF EngineInv
    <3> HIDE DEF l
    <3> QED BY <3>1, <3>2, <2>1, <1>0 DEF EngineInv, OnLine
  <2>5. ListensAreTrue'
    <3>1. \A i \in DOMAIN plays : /\ ListenOf(plays[i])' = ListenOf(plays[i])
                                  /\ plays[i].enough # "no" => plays'[i].enough # "no"
      BY <2>1, <2>2 DEF ListenOf, e
    <3> QED BY <3>1, <2>2, <1>0 DEF ListensAreTrue
  <2>6. Noticed'
    <3> SUFFICES ASSUME NEW i \in DOMAIN plays, plays'[i].enough = "yes"
                 PROVE  (ListenOf(plays[i]) \in closed \/ IsNow(plays[i]))'
      BY <2>2 DEF Noticed
    <3>1. ListenOf(plays[i])' = ListenOf(plays[i]) /\ (IsNow(plays[i])' <=> IsNow(plays[i]))
      BY <2>1, <2>2, <1>0 DEF ListenOf, IsNow
    <3>2. CASE i # l
      BY <3>1, <3>2, <2>2, <1>0 DEF Noticed
    <3>3. CASE i = l
      <4>1. plays # <<>>
        BY <1>0, <3>3
      <4>2. plays[l].seq = engine.heard
        BY <4>1, <2>1, <1>0 DEF EngineInv, Last
      <4> QED BY <3>1, <3>3, <4>2, <2>1, <2>2, <1>0 DEF IsNow, e
    <3> QED BY <3>2, <3>3
  <2>7. \A i \in DOMAIN plays' : plays'[i].eng <= engines'
    BY <2>2, <1>0
  <2> QED BY <2>1, <2>3, <2>4, <2>5, <2>6, <2>7, <1>0, <1>a DEF PlayerKeeps
<1>3. CASE EngineSkips \/ EngineEnds \/ EngineEndsEarly \/ CallbackStores
  <2>1. /\ engine' \in Engine /\ engine'.id = engine.id /\ DOMAIN engine'.line = DOMAIN engine.line
        /\ Len(engine'.line) = Len(engine.line) /\ engine'.heard = engine.heard
        /\ \A k \in DOMAIN engine.line : engine'.line[k].item = engine.line[k].item
        /\ faults' \in 0..MaxFaults /\ plays' = plays
    <3>1. CASE EngineSkips
      <4> DEFINE n == engine.heard + 1
                 new == [engine.line[n] EXCEPT !.bad = TRUE]
                 line == [engine.line EXCEPT ![n] = new]
      <4>1. n \in DOMAIN engine.line /\ engine' = [engine EXCEPT !.line[n].bad = TRUE] /\ plays' = plays
            /\ faults' = faults + 1 /\ faults < MaxFaults /\ faults \in Nat
        BY <3>1, <1>0 DEF EngineSkips, Waiting, PlayerTypeOK
      <4>2. new \in Line /\ new.item = engine.line[n].item
        <5>1. engine.line[n] \in Line
          BY <4>1, <1>0
        <5> QED BY <5>1 DEF Line
      <4>3. engine' = [engine EXCEPT !.line = line]
        BY <4>1
      <4> HIDE DEF new
      <4>4. line \in Seq(Line) /\ DOMAIN line = DOMAIN engine.line /\ Len(line) = Len(engine.line)
            /\ \A k \in DOMAIN engine.line : line[k].item = engine.line[k].item
        BY <4>1, <4>2, <1>0
      <4> HIDE DEF line
      <4>5. engine' \in Engine /\ engine'.id = engine.id /\ engine'.line = line
            /\ engine'.heard = engine.heard
        BY <4>3, <4>4, <1>0 DEF Engine
      <4> QED BY <4>1, <4>4, <4>5
    <3>2. CASE EngineEnds \/ CallbackStores
      BY <3>2, <1>0 DEF EngineEnds, CallbackStores, engineRest, Engine, PlayerTypeOK
    <3>3. CASE EngineEndsEarly
      <4>1. engine' = [engine EXCEPT !.ended = TRUE] /\ plays' = plays
            /\ faults' = faults + 1 /\ faults < MaxFaults /\ faults \in Nat
        BY <3>3, <1>0 DEF EngineEndsEarly, PlayerTypeOK
      <4>2. engine' \in Engine /\ engine'.id = engine.id /\ engine'.line = engine.line
            /\ engine'.heard = engine.heard
        BY <4>1, <1>0 DEF Engine
      <4> QED BY <4>1, <4>2
    <3> QED BY <1>3, <3>1, <3>2, <3>3
  <2>2. engine' # None
    BY <2>1
  <2>3. PlayerTypeOK'
    BY <2>1, <1>0 DEF PlayerTypeOK
  <2>4. EngineInv'
    BY <2>1, <1>0 DEF EngineInv, OnLine
  <2>5. ListensAreTrue' /\ Noticed'
    BY <2>1, <2>2, <1>0, Quiet
  <2> QED BY <2>1, <2>2, <2>3, <2>4, <2>5, <1>0, <1>a DEF PlayerKeeps
<1> QED BY <1>1, <1>2, <1>3 DEF EngineStep

(* The same where only the playing track is closed.                        *)
LEMMA ClosingNow ==
  ASSUME PlayerInv, ListensAreTrue, Noticed, plays' = plays,
         closed' = closed \cup ToSet(FinishedListen(now))
  PROVE  /\ ListensAreTrue' /\ Noticed'
         /\ FinishedListen(now) \in Seq(Listen) /\ closed' \in SUBSET Listen
<1>1. now \in Numbered \cup {None} /\ (engine # None /\ now # None => OnLine(now))
  BY DEF PlayerInv, PlayerTypeOK, EngineInv
<1>2. FinishedListen(now) \in Seq(Listen)
  BY <1>1, Closes
<1>3. FinishedListen(now) \o <<>> = FinishedListen(now)
  BY <1>2
<1> QED BY <1>2, <1>3, Closing

(* A new engine with its first track.                                      *)
LEMMA Opened ==
  ASSUME PlayerInv, NEW t \in Track, engines < MaxEngines, engines' = engines + 1,
         engine' = NewEngine(t), now' = FirstOn(t), prefetched' = None, plays' = plays
  PROVE  /\ EngineInv' /\ engine' \in Engine /\ engine' # None
         /\ now' \in Numbered /\ now' # None /\ engines' \in 0..MaxEngines
         /\ \A i \in DOMAIN plays' : plays'[i].eng <= engines'
<1>1. /\ engines \in Nat /\ plays \in Seq(Play) /\ DOMAIN plays = 1..Len(plays) /\ Len(plays) \in Nat
      /\ \A i \in DOMAIN plays : plays[i].eng <= engines
  BY DEF PlayerInv, PlayerTypeOK
<1>2. \A i \in DOMAIN plays : plays[i].eng \in Nat /\ plays[i].eng # engines + 1
  <2> TAKE i \in DOMAIN plays
  <2>1. plays[i] \in Play /\ plays[i].eng <= engines
    BY <1>1
  <2>2. plays[i].eng \in Nat
    BY <2>1 DEF Play
  <2> QED BY <2>1, <2>2, <1>1
<1> DEFINE first == [item |-> t, bad |-> FALSE]
<1>3. first \in Line /\ first.item = t
  BY DEF Line
<1> HIDE DEF first
<1>4. /\ <<first>> \in Seq(Line) /\ Len(<<first>>) = 1 /\ DOMAIN <<first>> = {1} /\ <<first>>[1] = first
  BY <1>3
<1>5. engine' = [id |-> engines + 1, line |-> <<first>>, heard |-> 0, ended |-> FALSE, stopped |-> FALSE]
  BY DEF NewEngine, first
<1>6. /\ engine'.id = engines + 1 /\ engine'.line = <<first>> /\ engine' \in Engine
  BY <1>4, <1>5, <1>1 DEF Engine
<1>7. now' = [item |-> t, seq |-> 1] /\ now' \in Numbered /\ now'.seq = 1 /\ now'.item = t
  BY DEF FirstOn, Numbered
<1>8. engine' # None /\ now' # None
  BY <1>6, <1>7
<1>9. OnLine(now)'
  BY <1>3, <1>4, <1>6, <1>7 DEF OnLine
<1>10. plays # <<>> => Last(plays).eng # engines + 1
  BY <1>1, <1>2 DEF Last
<1>11. EngineInv'
  BY <1>2, <1>3, <1>4, <1>6, <1>8, <1>9, <1>10, <1>1 DEF EngineInv
<1> QED BY <1>1, <1>2, <1>6, <1>7, <1>8, <1>11

(* What may change while the engine plays on.                              *)
LEMMA EngineStays ==
  ASSUME PlayerInv, engine' = engine, plays' = plays, engines' = engines, engine # None,
         now' \in {None, now, prefetched}, prefetched' \in {None, prefetched}
  PROVE  EngineInv'
BY DEF PlayerInv, EngineInv, OnLine

(* Where a call leaves the core thread.                                    *)
LEMMA CoreTypes ==
  /\ Free \in Core /\ Free.pc = "free"
  /\ \A op \in {"key", "tick"}, err \in BOOLEAN :
       Returned(op, err) \in Core /\ Returned(op, err).pc \in {"free", "ticked"}
  /\ \A pc \in {"searching", "closed", "gone"} :
       [Free EXCEPT !.pc = pc] \in Core /\ [Free EXCEPT !.pc = pc].pc = pc
<1>1. Free \in Core /\ Free.pc = "free"
  BY DEF Free, Core
<1>2. ASSUME NEW op \in {"key", "tick"}, NEW err \in BOOLEAN
      PROVE  Returned(op, err) \in Core /\ Returned(op, err).pc \in {"free", "ticked"}
  <2>1. CASE op = "tick"
    <3>1. Returned(op, err) = [pc |-> "ticked", op |-> "key", failed |-> err, seq |-> 0, finished |-> FALSE]
      BY <2>1 DEF Returned, Free
    <3> QED BY <3>1 DEF Core
  <2>2. CASE op # "tick"
    BY <2>2, <1>1 DEF Returned
  <2> QED BY <2>1, <2>2
<1>3. ASSUME NEW p \in {"searching", "closed", "gone"}
      PROVE  [Free EXCEPT !.pc = p] \in Core /\ [Free EXCEPT !.pc = p].pc = p
  BY <1>1, <1>3 DEF Core
<1> QED BY <1>1, <1>2, <1>3

(* The second half of start_current.                                       *)
LEMMA StartKeeps == ASSUME PlayerInv, ListensAreTrue, Noticed, StartStep PROVE PlayerKeeps
<1>0. /\ PlayerTypeOK /\ QInv(queue) /\ core \in Core /\ core.pc = "starting" /\ core.op \in {"key", "tick"}
      /\ now = None /\ queue.items # <<>>
      /\ \A i \in DOMAIN plays : plays[i].eng <= engines
  BY DEF StartStep, StartSucceeds, StartFails, PlayerInv, PlayerTypeOK, Core
<1>1. CASE StartSucceeds
  <2>1. Current(queue) \in Track
    BY <1>0, NamesTrack
  <2>2. /\ EngineInv' /\ engine' \in Engine /\ engine' # None
        /\ now' \in Numbered /\ now' # None /\ engines' \in 0..MaxEngines
        /\ \A i \in DOMAIN plays' : plays'[i].eng <= engines'
    BY <2>1, <1>1, Opened DEF StartSucceeds
  <2>3. /\ core' \in Core /\ core'.pc \in {"free", "ticked"} /\ prefetched' = None
        /\ UNCHANGED <<queue, listens, keys, faults, plays, closed>>
    BY <1>0, <1>1, CoreTypes DEF StartSucceeds
  <2>4. PlayerTypeOK'
    BY <1>0, <2>2, <2>3 DEF PlayerTypeOK
  <2>5. PlayerInv'
    BY <1>0, <2>2, <2>3, <2>4 DEF PlayerInv
  <2>6. ListensAreTrue' /\ Noticed'
    BY <1>0, <2>3 DEF ListensAreTrue, Noticed, ListenOf, IsNow
  <2> QED BY <2>3, <2>5, <2>6 DEF PlayerKeeps
<1>2. CASE StartFails
  <2>1. /\ core' \in Core /\ core'.pc \in {"free", "ticked"} /\ faults' \in 0..MaxFaults
        /\ UNCHANGED <<queue, now, listens, prefetched, engine, engines, keys, plays, closed>>
    <3>1. faults' = faults + 1 /\ faults < MaxFaults /\ faults \in 0..MaxFaults
      BY <1>0, <1>2 DEF StartFails, PlayerTypeOK
    <3>2. faults' \in 0..MaxFaults
      BY <3>1
    <3> QED BY <1>0, <1>2, <3>2, CoreTypes DEF StartFails
  <2>2. PlayerTypeOK'
    BY <1>0, <2>1 DEF PlayerTypeOK
  <2>3. engine # None => EngineInv'
    BY <2>1, EngineStays
  <2>4. PlayerInv'
    BY <1>0, <2>1, <2>2, <2>3 DEF PlayerInv
  <2>5. ListensAreTrue' /\ Noticed'
    BY <1>0, <2>1 DEF ListensAreTrue, Noticed, ListenOf, IsNow
  <2> QED BY <2>1, <2>4, <2>5 DEF PlayerKeeps
<1> QED BY <1>1, <1>2 DEF StartStep

(* What Produce does to the listens.                                       *)
LEMMA Produces ==
  ASSUME PlayerInv, NEW finished \in Seq(Listen), Produce(finished)
  PROVE  /\ listens' \in Seq(Listen)
         /\ \A R : closed = R \cup ToSet(listens) => closed' = R \cup ToSet(listens')
<1>1. listens \in Seq(Listen)
  BY DEF PlayerInv, PlayerTypeOK
<1>2. listens' \in Seq(Listen) /\ ToSet(listens') = ToSet(listens) \cup ToSet(finished)
  BY <1>1, Joined DEF Produce
<1> QED BY <1>2 DEF Produce

(* The commands: each closes the playing track or leaves it.               *)
LEMMA UserKeeps == ASSUME PlayerInv, ListensAreTrue, Noticed, UserStep PROVE PlayerKeeps
<1>0. /\ PlayerTypeOK /\ QInv(queue) /\ core \in Core /\ core.pc = "free"
      /\ \A i \in DOMAIN plays : plays[i].eng <= engines
      /\ UNCHANGED <<engines, faults, plays>> /\ keys' \in 0..MaxKeys
  BY DEF UserStep, Stop, NextKey, PreviousKey, JumpKey, Switch, Press, PlayerInv, PlayerTypeOK
<1>1. ASSUME StopPlaying PROVE PlayerKeeps
  <2>1. /\ ListensAreTrue' /\ Noticed' /\ FinishedListen(now) \in Seq(Listen) /\ closed' \in SUBSET Listen
    BY <1>0, <1>1, ClosingNow DEF StopPlaying, Produce
  <2>2. /\ listens' \in Seq(Listen)
        /\ \A R : closed = R \cup ToSet(listens) => closed' = R \cup ToSet(listens')
    BY <1>1, <2>1, Produces DEF StopPlaying
  <2>3. now' = None /\ engine' = None /\ UNCHANGED <<queue, prefetched, core>>
    BY <1>1 DEF StopPlaying
  <2>4. PlayerTypeOK'
    BY <1>0, <2>1, <2>2, <2>3 DEF PlayerTypeOK
  <2>5. PlayerInv'
    BY <1>0, <2>3, <2>4 DEF PlayerInv
  <2> QED BY <2>1, <2>2, <2>5 DEF PlayerKeeps
<1>2. ASSUME BeginStart("key"), QInv(queue'), queue'.items # <<>> PROVE PlayerKeeps
  <2>1. /\ ListensAreTrue' /\ Noticed' /\ FinishedListen(now) \in Seq(Listen) /\ closed' \in SUBSET Listen
    BY <1>0, <1>2, ClosingNow DEF BeginStart, Produce
  <2>2. /\ listens' \in Seq(Listen)
        /\ \A R : closed = R \cup ToSet(listens) => closed' = R \cup ToSet(listens')
    BY <1>2, <2>1, Produces DEF BeginStart
  <2>3. now' = None /\ core' \in Core /\ core'.pc = "starting" /\ UNCHANGED <<prefetched, engine>>
    BY <1>0, <1>2 DEF BeginStart, Core
  <2>4. queue' \in Queue
    BY <1>2 DEF QInv, WellFormed
  <2>5. PlayerTypeOK'
    BY <1>0, <2>1, <2>2, <2>3, <2>4 DEF PlayerTypeOK
  <2>6. engine # None => EngineInv'
    BY <1>0, <2>3, EngineStays
  <2>7. PlayerInv'
    BY <1>0, <1>2, <2>3, <2>5, <2>6 DEF PlayerInv
  <2> QED BY <2>1, <2>2, <2>7 DEF PlayerKeeps
<1>3. CASE Stop
  BY <1>1, <1>3 DEF Stop
<1>4. CASE NextKey
  <2>1. CASE CanNext(queue)
    <3>1. queue' \in NextItem(queue) /\ BeginStart("key")
      BY <1>4, <2>1 DEF NextKey
    <3>2. queue.items # <<>>
      BY <1>0, <2>1, Shape DEF QInv, CanNext
    <3>3. QInv(queue') /\ queue'.items # <<>>
      BY <1>0, <3>1, <3>2, NextKeeps
    <3> QED BY <1>2, <3>1, <3>3
  <2>2. CASE ~CanNext(queue)
    BY <1>1, <1>4, <2>2 DEF NextKey
  <2> QED BY <2>1, <2>2
<1>5. CASE PreviousKey
  <2>1. QInv(queue') /\ queue'.items # <<>>
    BY <1>0, <1>5, PreviousKeeps DEF PreviousKey
  <2> QED BY <1>2, <1>5, <2>1 DEF PreviousKey
<1>6. CASE JumpKey
  <2>1. PICK p \in DOMAIN queue.order : queue' = JumpTo(queue, p)
    BY <1>6 DEF JumpKey
  <2>2. p \in 1..Len(queue.items) /\ queue.items # <<>>
    BY <1>0, <2>1, Shape DEF QInv
  <2>3. QInv(queue') /\ queue'.items # <<>>
    BY <1>0, <2>1, <2>2, MoveKeeps DEF JumpTo
  <2> QED BY <1>2, <1>6, <2>3 DEF JumpKey
<1>7. CASE Switch
  <2>1. UNCHANGED <<now, listens, prefetched, engine, core, closed>>
    BY <1>7 DEF Switch
  <2>2. QInv(queue')
    <3>1. CASE queue' \in SetShuffle(queue, ~queue.shuffle)
      <4>1. (~queue.shuffle) \in BOOLEAN
        <5>1. queue.shuffle \in BOOLEAN
          BY <1>0 DEF QInv, WellFormed, Queue
        <5> QED BY <5>1, Zenon
      <4> QED BY <1>0, <3>1, <4>1, SetShuffleKeeps
    <3>2. CASE \E mode \in RepeatMode \ {queue.repeat} : queue' = SetRepeat(queue, mode)
      BY <1>0, <3>2, SetRepeatKeeps
    <3> QED BY <1>7, <3>1, <3>2 DEF Switch
  <2>3. queue' \in Queue
    BY <2>2 DEF QInv, WellFormed
  <2>4. PlayerTypeOK'
    BY <1>0, <2>1, <2>3 DEF PlayerTypeOK
  <2>5. engine # None => EngineInv'
    BY <1>0, <2>1, EngineStays
  <2>6. PlayerInv'
    BY <1>0, <2>1, <2>2, <2>4, <2>5 DEF PlayerInv
  <2>7. ListensAreTrue' /\ Noticed'
    BY <1>0, <2>1, Quiet
  <2> QED BY <2>1, <2>6, <2>7 DEF PlayerKeeps
<1> QED BY <1>3, <1>4, <1>5, <1>6, <1>7 DEF UserStep

(* The queue after the transition was heard, and after the next advance.   *)
LEMMA AdvancedKeeps ==
  ASSUME NEW q, QInv(q)
  PROVE  /\ \A r \in Advanced(q) : QInv(r)
         /\ CanAdvance(q) => \A r \in AdvanceAfterFinish(q) : QInv(r) /\ r.items # <<>>
BY AdvanceKeeps DEF Advanced

(* A tick: the transition that was heard closes the old track and makes    *)
(* the one handed over the playing one.                                    *)
LEMMA TickKeeps == ASSUME PlayerInv, ListensAreTrue, Noticed, TickStep PROVE PlayerKeeps
<1>0. /\ PlayerTypeOK /\ QInv(queue) /\ core \in Core
      /\ \A i \in DOMAIN plays : plays[i].eng <= engines
      /\ engine # None => engine \in Engine /\ EngineInv
  BY DEF PlayerInv, PlayerTypeOK
<1>a. ASSUME UNCHANGED <<engines, keys, plays>>, faults' \in 0..MaxFaults, QInv(queue'),
             core' \in Core, core'.pc \in {"free", "ticked"},
             UNCHANGED <<listens, closed, now>>, engine' = engine, prefetched' = prefetched
      PROVE  PlayerKeeps
  <2>1. queue' \in Queue
    BY <1>a DEF QInv, WellFormed
  <2>2. PlayerTypeOK'
    BY <1>0, <1>a, <2>1 DEF PlayerTypeOK
  <2>3. engine # None => EngineInv'
    BY <1>a, EngineStays
  <2>4. PlayerInv'
    BY <1>0, <1>a, <2>2, <2>3 DEF PlayerInv
  <2>5. ListensAreTrue' /\ Noticed'
    BY <1>a, Quiet
  <2> QED BY <1>a, <2>4, <2>5 DEF PlayerKeeps
<1>b. Returned("tick", FALSE) \in Core /\ Returned("tick", FALSE).pc \in {"free", "ticked"}
  BY CoreTypes
<1>1. CASE TickSamples
  <2>1. CASE engine = None
    <3>1. core' = Returned("tick", FALSE)
          /\ UNCHANGED <<queue, now, listens, prefetched, engine, closed, tickRest>>
      BY <1>1, <2>1 DEF TickSamples
    <3> QED BY <3>1, <1>0, <1>a, <1>b DEF tickRest, PlayerTypeOK
  <2>2. CASE engine # None
    <3>1. /\ core' = [Free EXCEPT !.pc = "sampled", !.op = "tick", !.seq = engine.heard, !.finished = engine.ended]
          /\ UNCHANGED <<queue, now, listens, prefetched, engine, closed, engines, keys, faults, plays>>
      BY <1>1, <2>2 DEF TickSamples, tickRest
    <3>2. core' \in Core /\ core'.pc = "sampled"
      <4>1. engine.heard \in 0..MaxLine /\ engine.ended \in BOOLEAN
        BY <1>0, <2>2 DEF Engine
      <4>2. core' = [pc |-> "sampled", op |-> "tick", failed |-> FALSE, seq |-> engine.heard, finished |-> engine.ended]
        BY <3>1 DEF Free
      <4> QED BY <4>1, <4>2 DEF Core
    <3>3. PlayerTypeOK'
      BY <1>0, <3>1, <3>2 DEF PlayerTypeOK
    <3>4. EngineInv'
      BY <2>2, <3>1, EngineStays
    <3>5. PlayerInv'
      BY <1>0, <2>2, <3>1, <3>2, <3>3, <3>4 DEF PlayerInv
    <3>6. ListensAreTrue' /\ Noticed'
      BY <3>1, Quiet
    <3> QED BY <3>1, <3>5, <3>6 DEF PlayerKeeps
  <2> QED BY <2>1, <2>2
<1>2. CASE TickFinds
  <2> DEFINE more == IF Heard THEN FinishedListen(prefetched) ELSE <<>>
  <2>1. /\ Produce(FinishedListen(now) \o more) /\ now' = None /\ core.pc = "sampled" /\ engine # None
        /\ UNCHANGED <<engines, keys, faults, plays>>
    BY <1>2 DEF TickFinds, tickRest, PlayerInv
  <2>2. more \in {<<>>, FinishedListen(prefetched)}
    OBVIOUS
  <2>3. closed' = closed \cup ToSet(FinishedListen(now) \o more)
    BY <2>1 DEF Produce
  <2> HIDE DEF more
  <2>4. /\ ListensAreTrue' /\ Noticed'
        /\ FinishedListen(now) \o more \in Seq(Listen) /\ closed' \in SUBSET Listen
    BY <2>1, <2>2, <2>3, Closing
  <2>5. /\ listens' \in Seq(Listen)
        /\ \A R : closed = R \cup ToSet(listens) => closed' = R \cup ToSet(listens')
    BY <2>1, <2>4, Produces
  <2>6. PICK q \in QueuesAfterTransition :
          \/ /\ CanAdvance(q) /\ queue' \in AdvanceAfterFinish(q)
             /\ core' = [core EXCEPT !.pc = "starting"]
             /\ prefetched' = PrefetchedAfterTransition /\ engine' = engine
          \/ /\ queue' = q /\ core' = Returned("tick", FALSE)
             /\ prefetched' = None /\ engine' = None
    BY <1>2 DEF TickFinds
  <2>7. QInv(q)
    BY <1>0, <2>6, AdvancedKeeps DEF QueuesAfterTransition
  <2>8. CASE engine' = engine /\ queue' \in AdvanceAfterFinish(q) /\ CanAdvance(q)
             /\ core' = [core EXCEPT !.pc = "starting"] /\ prefetched' = PrefetchedAfterTransition
    <3>1. QInv(queue') /\ queue'.items # <<>> /\ queue' \in Queue
      BY <2>7, <2>8, AdvancedKeeps DEF QInv, WellFormed
    <3>2. core' \in Core /\ core'.pc = "starting" /\ prefetched' \in {None, prefetched}
      BY <1>0, <2>8 DEF Core, PrefetchedAfterTransition
    <3>3. PlayerTypeOK'
      BY <1>0, <2>1, <2>4, <2>5, <2>8, <3>1, <3>2 DEF PlayerTypeOK
    <3>4. EngineInv'
      BY <2>1, <2>8, <3>2, EngineStays
    <3>5. PlayerInv'
      BY <1>0, <2>1, <2>8, <3>1, <3>2, <3>3, <3>4 DEF PlayerInv
    <3> QED BY <2>4, <2>5, <3>5 DEF PlayerKeeps
  <2>9. CASE queue' = q /\ core' = Returned("tick", FALSE) /\ prefetched' = None /\ engine' = None
    <3>1. core' \in Core /\ core'.pc \in {"free", "ticked"} /\ queue' \in Queue
      BY <1>b, <2>7, <2>9 DEF QInv, WellFormed
    <3>2. PlayerTypeOK'
      BY <1>0, <2>1, <2>4, <2>5, <2>9, <3>1 DEF PlayerTypeOK
    <3>3. PlayerInv'
      BY <1>0, <2>1, <2>7, <2>9, <3>1, <3>2 DEF PlayerInv
    <3> QED BY <2>4, <2>5, <3>3 DEF PlayerKeeps
  <2> QED BY <2>6, <2>8, <2>9
<1>3. CASE TickAdvances
  <2>1. /\ Produce(IF Heard THEN FinishedListen(now) ELSE <<>>)
        /\ now' = NowAfterTransition /\ prefetched' = PrefetchedAfterTransition
        /\ core.pc = "sampled" /\ engine # None /\ queue' \in QueuesAfterTransition
        /\ UNCHANGED <<engine, engines, keys, faults, plays>>
    BY <1>3 DEF TickAdvances, tickRest, PlayerInv
  <2>2. QInv(queue') /\ queue' \in Queue
    BY <1>0, <2>1, AdvancedKeeps DEF QueuesAfterTransition, QInv, WellFormed
  <2>3. \/ core' = [core EXCEPT !.pc = "prefetching"] /\ PeekAfterFinish(queue') # NoTrack
        \/ core' = Returned("tick", FALSE)
    BY <1>3 DEF TickAdvances, MayPrefetch
  <2>4. /\ core' \in Core /\ core'.pc \in {"prefetching", "free", "ticked"}
        /\ core'.pc = "prefetching" => PeekAfterFinish(queue') # NoTrack
    BY <1>0, <1>b, <2>3 DEF Core
  <2>5. PeekAfterFinish(queue)' = PeekAfterFinish(queue')
    BY DEF PeekAfterFinish, Current, AtEnd
  <2>6. now' \in {now, prefetched} /\ prefetched' \in {None, prefetched}
    BY <2>1 DEF NowAfterTransition, PrefetchedAfterTransition
  <2>7. EngineInv'
    BY <2>1, <2>6, EngineStays
  <2>8. /\ ListensAreTrue' /\ Noticed' /\ closed' \in SUBSET Listen /\ listens' \in Seq(Listen)
        /\ \A R : closed = R \cup ToSet(listens) => closed' = R \cup ToSet(listens')
    <3>1. CASE Heard
      <4>1. Produce(FinishedListen(now)) /\ closed' = closed \cup ToSet(FinishedListen(now))
        BY <2>1, <3>1 DEF Produce
      <4>2. ListensAreTrue' /\ Noticed' /\ FinishedListen(now) \in Seq(Listen) /\ closed' \in SUBSET Listen
        BY <2>1, <4>1, ClosingNow
      <4> QED BY <4>1, <4>2, Produces
    <3>2. CASE ~Heard
      <4>1. Produce(<<>>) /\ now' = now /\ <<>> \in Seq(Listen)
        BY <2>1, <3>2 DEF NowAfterTransition
      <4>2. closed' = closed
        BY <4>1, EmptyAndOne DEF Produce
      <4>3. ListensAreTrue' /\ Noticed'
        BY <2>1, <4>1, <4>2, Quiet
      <4> QED BY <1>0, <4>1, <4>2, <4>3, Produces DEF PlayerTypeOK
    <3> QED BY <3>1, <3>2
  <2>9. PlayerTypeOK'
    BY <1>0, <2>1, <2>2, <2>4, <2>6, <2>8 DEF PlayerTypeOK
  <2>10. PlayerInv'
    BY <1>0, <2>1, <2>2, <2>4, <2>5, <2>7, <2>9 DEF PlayerInv
  <2> QED BY <2>8, <2>10 DEF PlayerKeeps
<1>4. CASE PrefetchSucceeds
  <2> DEFINE t == PeekAfterFinish(queue)
             job == [item |-> t, bad |-> FALSE]
             n == Len(engine.line) + 1
             np == [item |-> t, seq |-> n]
  <2>1. /\ core.pc = "prefetching" /\ Len(engine.line) < MaxLine
        /\ engine' = [engine EXCEPT !.line = Append(@, job), !.ended = FALSE]
        /\ prefetched' = np
        /\ core' = Returned("tick", FALSE)
        /\ UNCHANGED <<queue, now, listens, closed, engines, keys, faults, plays>>
    BY <1>4 DEF PrefetchSucceeds, tickRest
  <2>2. engine # None /\ engine \in Engine /\ EngineInv /\ t \in Track
    <3>1. t # NoTrack
      BY <2>1 DEF PlayerInv
    <3> QED BY <1>0, <2>1, <3>1, NamesTrack DEF PlayerInv
  <2>3. job \in Line /\ job.item = t
    BY <2>2 DEF Line
  <2>4. /\ engine.line \in Seq(Line) /\ Len(engine.line) \in Nat /\ DOMAIN engine.line = 1..Len(engine.line)
        /\ plays \in Seq(Play)
    BY <1>0, <2>2 DEF Engine, PlayerTypeOK
  <2>5. n \in 1..MaxLine /\ n <= MaxLine
    BY <2>1, <2>4
  <2>6. np \in Numbered /\ np.item = t /\ np.seq = n /\ np # None
    BY <2>2, <2>5 DEF Numbered
  <2> DEFINE line == Append(engine.line, job)
  <2> HIDE DEF t, job, np
  <2>7. /\ line \in Seq(Line) /\ Len(line) = n /\ DOMAIN line = 1..n /\ line[n] = job
        /\ \A k \in DOMAIN engine.line : k \in DOMAIN line /\ line[k] = engine.line[k]
    BY <2>3, <2>4
  <2>8. engine' = [engine EXCEPT !.line = line, !.ended = FALSE]
    BY <2>1
  <2> HIDE DEF line
  <2>9. /\ engine' \in Engine /\ engine'.id = engine.id /\ engine'.line = line /\ engine'.heard = engine.heard
        /\ engine' # None
    <3>1. engine' \in Engine /\ engine'.id = engine.id /\ engine'.line = line /\ engine'.heard = engine.heard
      BY <2>2, <2>7, <2>8 DEF Engine
    <3> QED BY <3>1
  <2>10. OnLine(prefetched)' /\ (now # None => OnLine(now))'
    <3>1. n \in DOMAIN line /\ line[n].item = t
      BY <2>3, <2>5, <2>7
    <3>2. OnLine(prefetched)'
      BY <3>1, <2>1, <2>6, <2>9 DEF OnLine
    <3>3. (now # None => OnLine(now))'
      BY <2>1, <2>2, <2>7, <2>9 DEF OnLine, EngineInv
    <3> QED BY <3>2, <3>3
  <2>11. EngineInv'
    <3>1. engine'.id <= engines' /\ Len(engine'.line) <= MaxLine
      BY <2>1, <2>2, <2>5, <2>7, <2>9 DEF EngineInv
    <3>2. \A i \in DOMAIN plays' : plays'[i].eng = engine'.id =>
            plays'[i].seq \in DOMAIN engine'.line /\ plays'[i].item = engine'.line[plays'[i].seq].item
      BY <2>1, <2>2, <2>7, <2>9 DEF EngineInv
    <3>3. (plays # <<>> /\ Last(plays).eng = engine.id => Last(plays).seq = engine.heard)'
      <4>1. Last(plays)' = Last(plays)
        BY <2>1 DEF Last
      <4> QED BY <4>1, <2>1, <2>2, <2>9 DEF EngineInv
    <3> QED BY <3>1, <3>2, <3>3, <2>10 DEF EngineInv
  <2>12. core' \in Core /\ core'.pc \in {"free", "ticked"}
    BY <1>b, <2>1
  <2>13. PlayerTypeOK'
    BY <1>0, <2>1, <2>6, <2>9, <2>12 DEF PlayerTypeOK
  <2>14. PlayerInv'
    BY <1>0, <2>1, <2>9, <2>11, <2>12, <2>13 DEF PlayerInv
  <2>15. ListensAreTrue' /\ Noticed'
    BY <2>1, <2>9, Quiet
  <2> QED BY <2>1, <2>14, <2>15 DEF PlayerKeeps
<1>5. CASE PrefetchFails
  <2>1. faults' = faults + 1 /\ faults < MaxFaults /\ faults \in 0..MaxFaults
    BY <1>0, <1>5 DEF PrefetchFails, PlayerTypeOK
  <2>2. faults' \in 0..MaxFaults
    BY <2>1
  <2>3. /\ core' \in Core /\ core'.pc \in {"free", "ticked"}
        /\ UNCHANGED <<queue, now, listens, prefetched, engine, closed, engines, keys, plays>>
    BY <1>5, <1>b DEF PrefetchFails
  <2> QED BY <1>0, <1>a, <2>2, <2>3
<1> QED BY <1>1, <1>2, <1>3, <1>4, <1>5 DEF TickStep

(* The queue a search hands over is a good one and has a track.            *)
LEMMA FoundIsGood ==
  ASSUME NEW q \in FoundQueues
  PROVE  QInv(q) /\ q \in Queue /\ q.items # <<>> /\ Current(q) \in Track
<1>1. PICK on \in BOOLEAN, list \in Lists : q \in Replace([EmptyQueue EXCEPT !.shuffle = on], list)
  BY DEF FoundQueues
<1>2. list \in Seq(Track) /\ list # <<>>
  OBVIOUS
<1>3. QInv(q) /\ q.items = list
  BY <1>1, <1>2, EmptyKeeps, ReplaceKeeps
<1> QED BY <1>2, <1>3, NamesTrack DEF QInv, WellFormed

(* What an end of the player keeps.                                        *)
LEMMA Ended ==
  ASSUME PlayerInv, engine' = None, now' = None, listens' = <<>>, prefetched' \in {None, prefetched},
         queue' \in {queue, EmptyQueue}, core' \in Core, core'.pc \in {"closed", "gone"},
         closed' \in SUBSET Listen, UNCHANGED <<engines, keys, plays>>, faults' \in 0..MaxFaults
  PROVE  PlayerInv'
<1>1. QInv(queue') /\ queue' \in Queue
  BY EmptyKeeps DEF PlayerInv, QInv, WellFormed
<1>2. PlayerTypeOK'
  BY <1>1 DEF PlayerInv, PlayerTypeOK
<1> QED BY <1>1, <1>2 DEF PlayerInv

(* A session's own steps move listens and drop none.                       *)
LEMMA SessionKeeps ==
  ASSUME PlayerInv, ListensAreTrue, WrittenEveryRound, SessionInv, Next
  PROVE  PlayerInv' /\ ListensAreTrue' /\ WrittenEveryRound' /\ SessionInv'
<1>0. /\ PlayerTypeOK /\ QInv(queue) /\ pending \in Seq(Listen) /\ storeFaults \in Nat
         /\ listens \in Seq(Listen)
      /\ \A i \in DOMAIN plays : plays[i].eng <= engines
      /\ core.pc # "gone" => Noticed /\ ListensAreKept
      /\ faults \in 0..MaxFaults /\ closed \in SUBSET Listen
  BY DEF PlayerInv, SessionInv, PlayerTypeOK
<1>a. ASSUME UNCHANGED <<engine, plays, engines, now, prefetched>>, engine # None PROVE EngineInv'
  BY <1>a, EngineStays
<1>b. ASSUME NEW a \in Seq(Listen), NEW b \in Seq(Listen), NEW c \in Seq(Listen)
      PROVE  /\ a \o b \in Seq(Listen) /\ ToSet(a \o b) = ToSet(a) \cup ToSet(b)
             /\ a \o b \o c \in Seq(Listen) /\ ToSet(a \o b \o c) = ToSet(a) \cup ToSet(b) \cup ToSet(c)
  <2>1. a \o b \in Seq(Listen) /\ ToSet(a \o b) = ToSet(a) \cup ToSet(b)
    BY Joined
  <2>2. (a \o b) \o c \in Seq(Listen) /\ ToSet((a \o b) \o c) = ToSet(a \o b) \cup ToSet(c)
    <3> DEFINE ab == a \o b
    <3>1. ab \in Seq(Listen)
      BY <2>1
    <3> HIDE DEF ab
    <3>2. ab \o c \in Seq(Listen) /\ ToSet(ab \o c) = ToSet(ab) \cup ToSet(c)
      BY <3>1, Joined
    <3> QED BY <3>2 DEF ab
  <2> QED BY <2>1, <2>2
<1>c. ASSUME NEW batch \in Seq(Listen), Write(batch)
      PROVE  /\ pending' \in Seq(Listen) /\ stored \subseteq stored'
             /\ stored' \cup ToSet(pending') = stored \cup ToSet(batch)
             /\ storeFaults' = storeFaults => stored' = stored \cup ToSet(batch)
             /\ storeFaults' \in Nat
  <2>1. CASE stored' = stored \cup ToSet(batch) /\ pending' = <<>> /\ storeFaults' = storeFaults
    BY <1>0, <2>1, EmptyAndOne
  <2>2. CASE storeFaults < MaxStoreFaults /\ storeFaults' = storeFaults + 1 /\ pending' = batch
             /\ stored' = stored
    BY <1>0, <2>2
  <2> QED BY <1>c, <2>1, <2>2 DEF Write
<1>1. CASE PlayerStep /\ UNCHANGED sessionRest
  <2>1. core.pc # "gone"
    BY <1>1 DEF PlayerStep, StartStep, StartSucceeds, StartFails, TickStep, TickSamples,
        TickFinds, TickAdvances,
       PrefetchSucceeds, PrefetchFails, UserStep, Stop, NextKey, PreviousKey, JumpKey, Switch, Press,
       PlayerInv,
       EngineStep, EngineHears, EngineProgresses, EngineSkips, EngineEnds,
       EngineEndsEarly, CallbackStores
  <2>2. PlayerKeeps
    BY <1>0, <1>1, <2>1, EngineKeeps, StartKeeps, TickKeeps, UserKeeps DEF PlayerStep
  <2>3. UNCHANGED <<pending, stored, storeFaults, seeded>>
    BY <1>1 DEF sessionRest
  <2>4. closed = (stored \cup ToSet(pending)) \cup ToSet(listens)
    BY <1>0, <2>1 DEF ListensAreKept
  <2>5. closed' = (stored \cup ToSet(pending)) \cup ToSet(listens')
    BY <2>2, <2>4 DEF PlayerKeeps
  <2>6. ListensAreKept'
    BY <2>3, <2>5 DEF ListensAreKept
  <2> QED BY <1>0, <2>2, <2>3, <2>6 DEF PlayerKeeps, SessionInv, WrittenEveryRound
<1>2. CASE TickWrites
  <2>1. /\ core.pc = "ticked" /\ Write(pending \o listens) /\ listens' = <<>> /\ core' = Free
        /\ seeded' = IF storeFaults' = storeFaults THEN closed ELSE seeded
        /\ UNCHANGED <<queue, now, prefetched, engine, engines, keys, faults, plays, closed>>
    BY <1>2 DEF TickWrites
  <2>2. pending \o listens \in Seq(Listen) /\ ToSet(pending \o listens) = ToSet(pending) \cup ToSet(listens)
    BY <1>0, <1>b
  <2>3. /\ pending' \in Seq(Listen) /\ stored \subseteq stored'
        /\ stored' \cup ToSet(pending') = stored \cup ToSet(pending) \cup ToSet(listens)
        /\ storeFaults' = storeFaults => stored' = stored \cup ToSet(pending) \cup ToSet(listens)
        /\ storeFaults' \in Nat
    BY <1>c, <2>1, <2>2
  <2>4. closed = stored \cup ToSet(pending) \cup ToSet(listens) /\ Noticed
    BY <1>0, <2>1 DEF ListensAreKept
  <2>5. ListensAreKept' /\ WrittenEveryRound'
    BY <2>1, <2>3, <2>4, EmptyAndOne DEF ListensAreKept, WrittenEveryRound
  <2>6. ListensAreTrue' /\ Noticed'
    BY <2>1, <2>4, Quiet
  <2>7. core' \in Core /\ core'.pc = "free" /\ <<>> \in Seq(Listen)
    BY <2>1, CoreTypes
  <2>8. PlayerTypeOK'
    BY <1>0, <2>1, <2>7 DEF PlayerTypeOK
  <2>9. PlayerInv'
    BY <1>0, <1>a, <2>1, <2>7, <2>8 DEF PlayerInv
  <2> QED BY <2>3, <2>5, <2>6, <2>9 DEF SessionInv
<1>3. CASE Search \/ SearchFails
  <2>1. /\ core.pc # "gone" /\ core' \in {Free, [Free EXCEPT !.pc = "searching"]} /\ keys' \in 0..MaxKeys
        /\ UNCHANGED <<queue, now, listens, prefetched, engine, engines, faults, plays, closed,
                       pending, stored, storeFaults, seeded>>
    <3>1. keys \in 0..MaxKeys /\ (keys < MaxKeys => keys + 1 \in 0..MaxKeys)
      BY <1>0 DEF PlayerTypeOK
    <3> QED BY <1>3, <3>1 DEF Search, SearchFails, sessionRest
  <2>2. core' \in Core /\ core'.pc \in {"free", "searching"}
    BY <2>1, CoreTypes
  <2>3. PlayerTypeOK'
    BY <1>0, <2>1, <2>2 DEF PlayerTypeOK
  <2>4. PlayerInv'
    BY <1>0, <1>a, <2>1, <2>2, <2>3 DEF PlayerInv
  <2>5. ListensAreTrue' /\ Noticed'
    BY <1>0, <2>1, Quiet
  <2>6. ListensAreKept' /\ WrittenEveryRound'
    BY <1>0, <2>1 DEF ListensAreKept, WrittenEveryRound
  <2> QED BY <1>0, <2>1, <2>4, <2>5, <2>6 DEF SessionInv
<1>4. CASE ReplacePlayer
  <2>1. /\ core.pc = "searching" /\ engines < MaxEngines /\ queue' \in FoundQueues /\ pending' = HandOver
        /\ closed' = closed \cup ToSet(FinishedListen(now)) /\ listens' = <<>> /\ engines' = engines + 1
        /\ engine' = NewEngine(Current(queue')) /\ now' = FirstOn(Current(queue')) /\ prefetched' = None
        /\ core' = Free /\ UNCHANGED <<keys, faults, plays, stored, storeFaults, seeded>>
    BY <1>4 DEF ReplacePlayer
  <2>2. QInv(queue') /\ queue' \in Queue /\ queue'.items # <<>> /\ Current(queue') \in Track
    BY <2>1, FoundIsGood
  <2>3. /\ EngineInv' /\ engine' \in Engine /\ engine' # None
        /\ now' \in Numbered /\ now' # None /\ engines' \in 0..MaxEngines
        /\ \A i \in DOMAIN plays' : plays'[i].eng <= engines'
    BY <2>1, <2>2, Opened
  <2>4. ListensAreTrue' /\ Noticed' /\ FinishedListen(now) \in Seq(Listen) /\ closed' \in SUBSET Listen
    BY <1>0, <2>1, ClosingNow
  <2>5. /\ pending' \in Seq(Listen)
        /\ ToSet(pending') = ToSet(pending) \cup ToSet(listens) \cup ToSet(FinishedListen(now))
    BY <1>0, <1>b, <2>1, <2>4 DEF HandOver
  <2>6. closed = stored \cup ToSet(pending) \cup ToSet(listens)
    BY <1>0, <2>1 DEF ListensAreKept
  <2>7. ListensAreKept' /\ WrittenEveryRound'
    BY <2>1, <2>5, <2>6, EmptyAndOne DEF ListensAreKept, WrittenEveryRound
  <2>8. core' \in Core /\ core'.pc = "free" /\ <<>> \in Seq(Listen)
    BY <2>1, CoreTypes
  <2>9. PlayerTypeOK'
    BY <1>0, <2>1, <2>2, <2>3, <2>4, <2>8 DEF PlayerTypeOK
  <2>10. PlayerInv'
    BY <2>2, <2>3, <2>8, <2>9 DEF PlayerInv
  <2> QED BY <1>0, <2>1, <2>4, <2>5, <2>7, <2>10 DEF SessionInv
<1>5. CASE Quit
  <2>1. /\ core.pc = "free" /\ Write(pending \o listens \o FinishedListen(now))
        /\ closed' = closed \cup ToSet(FinishedListen(now)) /\ listens' = <<>> /\ now' = None
           /\ engine' = None
        /\ core' = [Free EXCEPT !.pc = "closed"] /\ queue' = EmptyQueue /\ prefetched' = None
        /\ UNCHANGED <<engines, keys, faults, plays, seeded>>
    BY <1>5 DEF Quit
  <2>2. ListensAreTrue' /\ Noticed' /\ FinishedListen(now) \in Seq(Listen) /\ closed' \in SUBSET Listen
    BY <1>0, <2>1, ClosingNow
  <2>3. /\ pending \o listens \o FinishedListen(now) \in Seq(Listen)
        /\ ToSet(pending \o listens \o FinishedListen(now))
             = ToSet(pending) \cup ToSet(listens) \cup ToSet(FinishedListen(now))
    BY <1>0, <1>b, <2>2
  <2>4. /\ pending' \in Seq(Listen) /\ stored \subseteq stored' /\ storeFaults' \in Nat
        /\ stored' \cup ToSet(pending')
             = stored \cup (ToSet(pending) \cup ToSet(listens) \cup ToSet(FinishedListen(now)))
    BY <1>c, <2>1, <2>3
  <2>5. closed = stored \cup ToSet(pending) \cup ToSet(listens)
    BY <1>0, <2>1 DEF ListensAreKept
  <2>6. ListensAreKept' /\ WrittenEveryRound'
    BY <2>1, <2>4, <2>5, EmptyAndOne DEF ListensAreKept, WrittenEveryRound
  <2>7. core' \in Core /\ core'.pc = "closed"
    BY <2>1, CoreTypes
  <2>8. PlayerInv'
    BY <1>0, <2>1, <2>2, <2>7, Ended
  <2> QED BY <2>2, <2>4, <2>6, <2>8 DEF SessionInv
<1>6. CASE DropOut
  <2>1. /\ core' = [Free EXCEPT !.pc = "gone"] /\ pending' = <<>> /\ listens' = <<>> /\ now' = None
           /\ engine' = None
        /\ queue' = EmptyQueue /\ prefetched' = None
        /\ UNCHANGED <<engines, keys, faults, plays, closed, stored, storeFaults, seeded>>
    BY <1>6 DEF DropOut
  <2>2. core' \in Core /\ core'.pc = "gone" /\ <<>> \in Seq(Listen)
    BY <2>1, CoreTypes
  <2>3. PlayerInv'
    BY <1>0, <2>1, <2>2, Ended
  <2>4. ListensAreTrue' /\ WrittenEveryRound'
    BY <2>1 DEF ListensAreTrue, ListenOf, WrittenEveryRound
  <2> QED BY <2>1, <2>2, <2>3, <2>4 DEF SessionInv
<1> QED BY <1>1, <1>2, <1>3, <1>4, <1>5, <1>6 DEF Next

(* `headshell play` drives the same player.                                *)
LEMMA SamePlayer ==
  /\ Cli!EngineStep <=> EngineStep
  /\ Cli!TickStep <=> TickStep
  /\ Cli!StartSucceeds <=> StartSucceeds
  /\ Cli!StartFails <=> StartFails
  /\ Cli!FoundQueues = FoundQueues
  /\ Cli!FinishedListen(now) = FinishedListen(now)
  /\ Cli!Free = Free
  /\ Cli!State = State
<1>1. Cli!EngineStep <=> EngineStep
  <2>1. Cli!EngineHears <=> EngineHears
    BY DEF Cli!EngineHears, EngineHears, Cli!engineRest, engineRest, Cli!Waiting, Waiting
  <2>2. Cli!EngineProgresses <=> EngineProgresses
    BY DEF Cli!EngineProgresses, EngineProgresses, Cli!engineRest, engineRest, Cli!Last, Last
  <2>3. Cli!EngineSkips <=> EngineSkips
    BY DEF Cli!EngineSkips, EngineSkips, Cli!Waiting, Waiting
  <2>4. Cli!EngineEnds <=> EngineEnds
    BY DEF Cli!EngineEnds, EngineEnds, Cli!engineRest, engineRest, Cli!Waiting, Waiting
  <2>5. Cli!CallbackStores <=> CallbackStores
    BY DEF Cli!CallbackStores, CallbackStores, Cli!engineRest, engineRest
  <2>6. Cli!EngineEndsEarly <=> EngineEndsEarly
    BY DEF Cli!EngineEndsEarly, EngineEndsEarly, Cli!Waiting, Waiting
  <2> QED BY <2>1, <2>2, <2>3, <2>4, <2>5, <2>6 DEF Cli!EngineStep, EngineStep
<1>2. \A q : /\ Cli!AtEnd(q) = AtEnd(q) /\ Cli!Current(q) = Current(q)
  BY DEF Cli!AtEnd, AtEnd, Cli!Current, Current
<1>3. \A q : Cli!Reshuffle(q) = Reshuffle(q)
  BY DEF Cli!Reshuffle, Reshuffle, Cli!Shuffles, Shuffles
<1>4. \A q : Cli!AdvanceAfterFinish(q) = AdvanceAfterFinish(q) /\ Cli!CanAdvance(q) = CanAdvance(q)
  BY <1>2, <1>3
    DEF Cli!AdvanceAfterFinish, AdvanceAfterFinish, Cli!NextItem, NextItem, Cli!CanAdvance,
        CanAdvance, Cli!CanNext, CanNext
<1>5. Cli!FinishedListen(now) = FinishedListen(now)
      /\ Cli!FinishedListen(prefetched) = FinishedListen(prefetched)
  BY DEF Cli!FinishedListen, FinishedListen, Cli!PlayedEnough, PlayedEnough
<1>6. Cli!Free = Free
  BY DEF Cli!Free, Free
<1>7. /\ Cli!Returned("tick", FALSE) = Returned("tick", FALSE)
      /\ Cli!Returned(core.op, FALSE) = Returned(core.op, FALSE)
         /\ Cli!Returned(core.op, TRUE) = Returned(core.op, TRUE)
  BY <1>6 DEF Cli!Returned, Returned
<1>8. Cli!Heard = Heard /\ Cli!Waiting = Waiting /\ Cli!State = State
  BY DEF Cli!Heard, Heard, Cli!Waiting, Waiting, Cli!State, State
<1>9. \A q : /\ Cli!Advanced(q) = Advanced(q) /\ Cli!PeekAfterFinish(q) = PeekAfterFinish(q)
             /\ Cli!MayPrefetch(q) = MayPrefetch(q)
  BY <1>2, <1>4, <1>8
    DEF Cli!Advanced, Advanced, Cli!PeekAfterFinish, PeekAfterFinish, Cli!MayPrefetch, MayPrefetch,
     Cli!PrefetchedAfterTransition, PrefetchedAfterTransition
<1>10. /\ Cli!QueuesAfterTransition = QueuesAfterTransition
       /\ Cli!PrefetchedAfterTransition = PrefetchedAfterTransition
       /\ Cli!NowAfterTransition = NowAfterTransition
  BY <1>8, <1>9
    DEF Cli!PrefetchedAfterTransition, PrefetchedAfterTransition, Cli!NowAfterTransition,
        NowAfterTransition,
     Cli!QueuesAfterTransition, QueuesAfterTransition
<1>11. \A f : Cli!Produce(f) <=> Produce(f)
  BY DEF Cli!Produce, Produce, Cli!ToSet, ToSet
<1>12. Cli!TickStep <=> TickStep
  <2>1. Cli!TickSamples <=> TickSamples
    BY <1>6, <1>7, <1>8 DEF Cli!TickSamples, TickSamples, Cli!tickRest, tickRest
  <2>2. Cli!TickFinds <=> TickFinds
    BY <1>4, <1>5, <1>7, <1>8, <1>10, <1>11 DEF Cli!TickFinds, TickFinds, Cli!tickRest, tickRest
  <2>3. Cli!TickAdvances <=> TickAdvances
    BY <1>5, <1>7, <1>8, <1>9, <1>10, <1>11
      DEF Cli!TickAdvances, TickAdvances, Cli!tickRest, tickRest
  <2>4. Cli!PrefetchSucceeds <=> PrefetchSucceeds
    BY <1>7, <1>8, <1>9 DEF Cli!PrefetchSucceeds, PrefetchSucceeds, Cli!tickRest, tickRest
  <2>5. Cli!PrefetchFails <=> PrefetchFails
    BY <1>7 DEF Cli!PrefetchFails, PrefetchFails
  <2> QED BY <2>1, <2>2, <2>3, <2>4, <2>5 DEF Cli!TickStep, TickStep
<1>13. Cli!StartSucceeds <=> StartSucceeds
  BY <1>2, <1>7 DEF Cli!StartSucceeds, StartSucceeds, Cli!NewEngine, NewEngine, Cli!FirstOn, FirstOn
<1>14. Cli!StartFails <=> StartFails
  BY <1>7 DEF Cli!StartFails, StartFails
<1>15. Cli!FoundQueues = FoundQueues
  <2>1. Cli!EmptyQueue = EmptyQueue
    BY DEF Cli!EmptyQueue, EmptyQueue
  <2>2. \A q, new : Cli!Replace(q, new) = Replace(q, new)
    BY <1>3 DEF Cli!Replace, Replace, Cli!InOrder, InOrder
  <2> QED BY <2>1, <2>2 DEF Cli!FoundQueues, FoundQueues
<1> QED BY <1>1, <1>5, <1>6, <1>8, <1>12, <1>13, <1>14, <1>15

(* `headshell play` writes everything when its loop ends.                  *)
LEMMA CliKeeps ==
  ASSUME PlayerInv, ListensAreTrue, CliInv, Cli!Next
  PROVE  PlayerInv' /\ ListensAreTrue' /\ CliInv'
<1>0. /\ PlayerTypeOK /\ QInv(queue) /\ core \in Core /\ listens \in Seq(Listen) /\ closed \in SUBSET Listen
      /\ \A i \in DOMAIN plays : plays[i].eng <= engines
      /\ phase \in {"searching", "looping", "done", "failed"}
      /\ phase = "searching" => core = Free /\ now = None /\ engine = None
      /\ phase \in {"searching", "looping"} => Noticed /\ stored = {} /\ closed = ToSet(listens)
      /\ phase \in {"done", "failed"} => core.pc = "closed"
      /\ <<>> \in Seq(Listen) /\ ToSet(<<>>) = {}
  BY EmptyAndOne DEF PlayerInv, PlayerTypeOK, CliInv
<1>a. ASSUME phase' \in {"looping", "failed"}, phase' = "looping" => Noticed' /\ stored' = {}
             /\ closed' = ToSet(listens'),
             phase' = "failed" => core'.pc = "closed"
      PROVE  CliInv'
  BY <1>a DEF CliInv, Cli!DoneMeansWritten
<1>b. ASSUME core.pc = "ticked" PROVE phase = "looping"
  BY <1>0, <1>b, CoreTypes
<1>c. ASSUME Cli!GiveUp, UNCHANGED <<queue, prefetched, engines, keys, plays, closed>>,
             faults' \in 0..MaxFaults
      PROVE  PlayerInv' /\ ListensAreTrue' /\ CliInv'
  <2>1. /\ phase' = "failed" /\ listens' = <<>> /\ now' = None /\ engine' = None
        /\ core' = [Free EXCEPT !.pc = "closed"]
    BY <1>c, SamePlayer DEF Cli!GiveUp
  <2>2. core' \in Core /\ core'.pc = "closed"
    BY <2>1, CoreTypes
  <2>3. PlayerInv'
    BY <1>0, <1>c, <2>1, <2>2, Ended
  <2> QED BY <1>a, <1>c, <2>1, <2>2, <2>3 DEF ListensAreTrue, ListenOf
<1>1. CASE Cli!PlayItems
  <2>1. /\ phase = "searching" /\ phase' = "looping" /\ queue' \in FoundQueues
           /\ core' = [core EXCEPT !.pc = "starting"]
        /\ UNCHANGED <<now, listens, prefetched, engine, engines, keys, faults, plays, closed, stored>>
    BY <1>1, SamePlayer DEF Cli!PlayItems
  <2>2. QInv(queue') /\ queue' \in Queue /\ queue'.items # <<>>
    BY <2>1, FoundIsGood
  <2>3. core' \in Core /\ core'.pc = "starting" /\ now = None /\ engine = None
    BY <1>0, <2>1 DEF Core
  <2>4. PlayerTypeOK'
    BY <1>0, <2>1, <2>2, <2>3 DEF PlayerTypeOK
  <2>5. PlayerInv'
    BY <1>0, <2>1, <2>2, <2>3, <2>4 DEF PlayerInv
  <2>6. ListensAreTrue' /\ Noticed'
    BY <1>0, <2>1, Quiet
  <2> QED BY <1>0, <1>a, <2>1, <2>5, <2>6
<1>2. CASE Cli!Playing
  <2>1. /\ phase = "looping" /\ UNCHANGED <<phase, stored>> /\ (EngineStep \/ TickStep \/ StartStep)
    BY <1>2, SamePlayer DEF Cli!Playing, StartStep
  <2>2. PlayerKeeps
    BY <1>0, <2>1, EngineKeeps, StartKeeps, TickKeeps
  <2>3. closed = {} \cup ToSet(listens) /\ stored = {}
    BY <1>0, <2>1
  <2>4. closed' = {} \cup ToSet(listens')
    BY <2>2, <2>3 DEF PlayerKeeps
  <2> QED BY <1>a, <2>1, <2>2, <2>3, <2>4 DEF PlayerKeeps
<1>3. CASE Cli!PlayItemsFails
  <2>1. /\ Cli!GiveUp /\ faults' = faults + 1 /\ faults < MaxFaults
        /\ UNCHANGED <<queue, prefetched, engines, keys, plays, closed, stored>>
    BY <1>3 DEF Cli!PlayItemsFails
  <2>2. faults \in 0..MaxFaults
    BY <1>0 DEF PlayerTypeOK
  <2>3. faults' \in 0..MaxFaults
    BY <2>1, <2>2
  <2> QED BY <1>c, <2>1, <2>3
<1>4. CASE Cli!TickFails
  <2>1. Cli!GiveUp /\ UNCHANGED <<queue, prefetched, engines, keys, faults, plays, closed, stored>>
    BY <1>4 DEF Cli!TickFails
  <2> QED BY <1>0, <1>c, <2>1 DEF PlayerTypeOK
<1>5. CASE Cli!LoopGoesOn
  <2>1. /\ core.pc = "ticked" /\ core' = Free
        /\ UNCHANGED <<queue, now, listens, prefetched, engine, engines, keys, faults, plays, closed, phase, stored>>
    BY <1>5, SamePlayer DEF Cli!LoopGoesOn
  <2>2. core' \in Core /\ core'.pc = "free" /\ phase = "looping"
    BY <1>b, <2>1, CoreTypes
  <2>3. PlayerTypeOK'
    BY <1>0, <2>1, <2>2 DEF PlayerTypeOK
  <2>4. engine # None => EngineInv'
    BY <2>1, EngineStays
  <2>5. PlayerInv'
    BY <1>0, <2>1, <2>2, <2>3, <2>4 DEF PlayerInv
  <2>6. ListensAreTrue' /\ Noticed'
    BY <1>0, <2>1, <2>2, Quiet
  <2> QED BY <1>0, <1>a, <2>1, <2>2, <2>5, <2>6
<1>6. CASE Cli!LoopEnds \/ Cli!WriteFails
  <2> DEFINE finished == FinishedListen(now)
  <2>1. /\ core.pc = "ticked" /\ phase' \in {"done", "failed"}
        /\ closed' = closed \cup ToSet(finished)
        /\ phase' = "done" => stored' = stored \cup ToSet(listens \o finished)
        /\ listens' = <<>> /\ now' = None /\ engine' = None /\ core' = [Free EXCEPT !.pc = "closed"]
        /\ UNCHANGED <<queue, prefetched, engines, keys, faults, plays>>
    BY <1>6, SamePlayer DEF Cli!LoopEnds, Cli!WriteFails, Cli!Leave, Cli!ToSet, ToSet
  <2>2. Noticed /\ stored = {} /\ closed = ToSet(listens)
    BY <1>0, <1>b, <2>1
  <2>3. ListensAreTrue' /\ Noticed' /\ finished \in Seq(Listen) /\ closed' \in SUBSET Listen
    BY <2>1, <2>2, ClosingNow
  <2> HIDE DEF finished
  <2>4. ToSet(listens \o finished) = ToSet(listens) \cup ToSet(finished)
    BY <1>0, <2>3, Joined
  <2>5. core' \in Core /\ core'.pc = "closed"
    BY <2>1, CoreTypes
  <2>6. PlayerInv'
    BY <1>0, <2>1, <2>3, <2>5, Ended DEF PlayerTypeOK
  <2>7. \A i \in DOMAIN plays' : plays'[i].enough = "yes" => ListenOf(plays[i])' \in closed'
    BY <2>1, <2>3 DEF Noticed, IsNow
  <2>8. phase' = "done" => stored' = closed'
    BY <2>1, <2>2, <2>4
  <2>9. Cli!DoneMeansWritten'
    BY <2>7, <2>8 DEF Cli!DoneMeansWritten, Cli!ListenOf, ListenOf
  <2> QED BY <2>1, <2>3, <2>5, <2>6, <2>9 DEF CliInv
<1> QED BY <1>1, <1>2, <1>3, <1>4, <1>5, <1>6 DEF Cli!Next

(* Player::new, whatever the program was started as.                       *)
LEMMA StartsWell == InitShells => ShellsInv
<1> SUFFICES ASSUME InitShells PROVE ShellsInv
  OBVIOUS
<1>1. /\ queue = EmptyQueue /\ now = None /\ listens = <<>> /\ prefetched = None /\ engine = None
      /\ core = Free /\ engines = 0 /\ keys = 0 /\ faults = 0 /\ plays = <<>> /\ closed = {}
      /\ pending = <<>> /\ stored = {} /\ storeFaults = 0 /\ seeded = {}
      /\ shell \in {"play", "session"} /\ phase = "searching"
  BY DEF InitShells, Init, PlayerInit
<1>2. QInv(queue) /\ queue \in Queue
  BY <1>1, EmptyKeeps DEF QInv, WellFormed
<1>3. core \in Core /\ core.pc = "free" /\ <<>> \in Seq(Listen) /\ <<>> \in Seq(Play) /\ ToSet(<<>>) = {}
      /\ DOMAIN plays = {}
  BY <1>1, CoreTypes, EmptyAndOne
<1>4. PlayerTypeOK
  BY <1>1, <1>2, <1>3 DEF PlayerTypeOK
<1>5. PlayerInv
  BY <1>1, <1>2, <1>3, <1>4 DEF PlayerInv
<1>6. ListensAreTrue /\ Noticed /\ ListensAreKept /\ WrittenEveryRound
  BY <1>1, <1>3 DEF ListensAreTrue, Noticed, ListensAreKept, WrittenEveryRound
<1> QED BY <1>1, <1>3, <1>5, <1>6 DEF ShellsInv, SessionInv, CliInv, Cli!DoneMeansWritten

(* Every step keeps the invariant.                                         *)
LEMMA ShellsKeep == ShellsInv /\ [NextShells]_allVars => ShellsInv'
<1> SUFFICES ASSUME ShellsInv, [NextShells]_allVars PROVE ShellsInv'
  OBVIOUS
<1>1. CASE SessionStep(Next)
  <2>1. shell = "session" /\ Next /\ shell' = shell
    BY <1>1 DEF SessionStep
  <2> QED BY <2>1, SessionKeeps DEF ShellsInv
<1>2. CASE PlayStep(Cli!Next)
  <2>1. shell = "play" /\ Cli!Next /\ UNCHANGED <<shell, seeded>>
    BY <1>2 DEF PlayStep
  <2>2. PlayerInv' /\ ListensAreTrue' /\ CliInv'
    BY <2>1, CliKeeps DEF ShellsInv
  <2>3. WrittenEveryRound'
    <3>1. seeded \subseteq stored /\ stored \subseteq stored'
      BY <2>1 DEF ShellsInv, WrittenEveryRound, Cli!Next, Cli!PlayItems, Cli!Playing,
          Cli!PlayItemsFails, Cli!TickFails,
         Cli!LoopGoesOn, Cli!LoopEnds, Cli!WriteFails, Cli!Leave
    <3> QED BY <2>1, <3>1 DEF WrittenEveryRound
  <2> QED BY <2>1, <2>2, <2>3 DEF ShellsInv
<1>3. CASE UNCHANGED allVars
  <2>1. UNCHANGED <<queue, now, listens, prefetched, engine, core, engines, keys, faults, plays, closed,
                    pending, stored, storeFaults, seeded, shell, phase>>
    BY <1>3 DEF allVars, vars, playerVars
  <2>2. PlayerInv' <=> PlayerInv
    BY <2>1 DEF PlayerInv, PlayerTypeOK, EngineInv, OnLine, Last
  <2> QED BY <2>1, <2>2
    DEF ShellsInv, SessionInv, CliInv, ListensAreTrue, ListenOf, Noticed, IsNow, ListensAreKept,
        WrittenEveryRound, Cli!DoneMeansWritten
<1> QED BY <1>1, <1>2, <1>3 DEF NextShells

(* The invariant holds throughout.                                         *)
LEMMA ShellsHold == SpecShells => []ShellsInv
BY StartsWell, ShellsKeep, PTL DEF SpecShells

(* A listen names the track that sounded under its number, and that track  *)
(* passed the rule (Player::finish_current_listen).                        *)
THEOREM ListensHold == SpecShells => []ListensAreTrue
<1>1. ShellsInv => ListensAreTrue
  BY DEF ShellsInv
<1> QED BY <1>1, ShellsHold, PTL

(* What had to be in the store after a round whose write succeeded is in   *)
(* the store (LiveSession::tick).                                          *)
THEOREM RoundsHold == SpecShells => []WrittenEveryRound
<1>1. ShellsInv => WrittenEveryRound
  BY DEF ShellsInv
<1> QED BY <1>1, ShellsHold, PTL

(* No listen is lost in a session that runs, no track that passed the rule *)
(* is forgotten, and `headshell play` has written all of them when it      *)
(* reports success (LiveSession, Session::play).                           *)
THEOREM NothingIsLost == SpecShells => []NoListenIsLost
<1>1. ShellsInv => NoListenIsLost
  BY DEF ShellsInv, SessionInv, CliInv, NoListenIsLost, NoticedPlayBecomesListen, Noticed,
      ListensAreKept
<1> QED BY <1>1, ShellsHold, PTL
=============================================================================
