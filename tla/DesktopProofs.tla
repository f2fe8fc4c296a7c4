--------------------------- MODULE DesktopProofs ---------------------------
(***************************************************************************)
(* What the page shows - of the queue and its covers, and in its panels -  *)
(* for all tracks, lists and bounds, whatever order answers and events     *)
(* come in.                                                                *)
(*                                                                         *)
(* That a row shows its own cover is known from the page alone.  That the  *)
(* page catches up needs the whole way round: either the report it has is  *)
(* what the core would answer now, or that answer is on its way to it, or  *)
(* something is under way that makes it ask (again) - an event, a cover    *)
(* to announce, a queue to draw, a question not yet looked at, or the note *)
(* that somebody asked while the last answer was awaited.                  *)
(*                                                                         *)
(* The panels' invariant has the same form: a panel fits what is stored,   *)
(* or a call that draws it is under way, or one whose answer will make the *)
(* page ask; and an answer that nothing overtook is what is stored.        *)
(***************************************************************************)
EXTENDS MCDesktop, SequenceTheorems, TLAPS

CoreFields == {"items", "pos", "now", "engine", "ended", "registry", "own", "seen"}
PageFields == {"queue", "coversBusy", "coversAgain", "report", "thumbs", "labels", "shown", "label"}
CallFields == {"id", "cmd", "arg", "then", "answered", "answer"}

(* What the page does with the answer of each command.                     *)
Follows(c) ==
  \/ c.cmd \in {"next", "previous", "jump_to", "play", "queue"} /\ c.then = "render"
  \/ c.cmd = "stop" /\ c.then = "queue"
  \/ c.cmd = "change" /\ c.then = "nothing"
  \/ c.cmd = "artwork_queue" /\ c.then = "report"
  \/ c.cmd = "artwork_images" /\ c.then \in {"thumbs", "labels"}

DesktopShapes ==
  /\ DOMAIN core = CoreFields /\ DOMAIN page = PageFields
  /\ page.coversBusy \in BOOLEAN /\ page.coversAgain \in BOOLEAN
  /\ core.items \in Seq(Track) /\ core.pos \in Nat
  /\ cover \in [Track -> {"unasked", "pending", "found"}]
  /\ page.queue \in View
  /\ \A c \in calls : DOMAIN c = CallFields /\ c.answered \in BOOLEAN /\ Follows(c)
                      /\ c.answer.view \in View /\ (c.cmd = "jump_to" => c.arg \in Nat)
  /\ \A c \in calls : c.cmd = "queue" /\ c.answered => c.answer.ok

(* The refresh of the covers is one call at a time.                        *)
OfRefresh(c) == c.then \in {"report", "thumbs", "labels"}

OneRefresh ==
  /\ \A c, d \in calls : OfRefresh(c) /\ OfRefresh(d) => c = d
  /\ page.coversBusy => \E c \in calls : OfRefresh(c)
  /\ \A c \in calls : OfRefresh(c) => page.coversBusy
  /\ page.coversAgain => page.coversBusy

(* What was handed to the worker is what the stamp says.                   *)
HandedOver ==
  core.seen # None => worker.items = core.seen.items /\ worker.registry = core.own

(* The report the core would give now.                                     *)
Report == Rows([items |-> core.items])

(* What makes the page ask for the report, now or later.                   *)
WillAsk(c) ==
  \/ c.cmd = "queue"
  \/ c.cmd = "artwork_queue" /\ ~c.answered
  \/ c.then = "render" /\ c.answered /\ c.answer.ok

AskComes ==
  \/ events # <<>> \/ ready # {} \/ page.coversAgain
  \/ \E c \in calls : WillAsk(c)

Brings(c) == c.then = "report" /\ c.answered /\ c.answer.rows = Report

Catching ==
  \/ AskComes
  \/ \E c \in calls : Brings(c)
  \/ page.report = Report /\ \A c \in calls : c.then # "report"

CoversInv == DesktopShapes /\ OneRefresh /\ HandedOver /\ Catching

-----------------------------------------------------------------------------
(* What one may use of a page.                                             *)
IsPage(p) == /\ DOMAIN p = PageFields
             /\ p.coversBusy \in BOOLEAN /\ p.coversAgain \in BOOLEAN
             /\ p.queue \in View

(* Each row shows its own track's cover or none, and so does the label.    *)
PaintedPage(p) ==
  /\ DOMAIN p.shown = DOMAIN p.queue.items
  /\ \A i \in DOMAIN p.shown : p.shown[i] \in {None, p.queue.items[i]}
  /\ p.label # None => p.label = p.queue.items[p.queue.pos]

(* The parts of the page that decide when it asks for a report.            *)
SameRefresh(p, q) ==
  p.report = q.report /\ p.coversBusy = q.coversBusy /\ p.coversAgain = q.coversAgain

(* A cover is taken from the report's row only when the row is of the same *)
(* track, so what is painted is the queue's.                               *)
LEMMA CoverIsOwn ==
  ASSUME NEW p, NEW i, NEW images
  PROVE  LET c == CoverIn(CoverItemAt(p, i), images)
         IN  c # None => i \in DOMAIN p.queue.items /\ c = p.queue.items[i]
<1> DEFINE item == CoverItemAt(p, i)
<1>1. item = None \/ (i \in DOMAIN p.queue.items /\ item.track = p.queue.items[i])
  BY DEF CoverItemAt
<1>2. CoverIn(item, images) # None => item # None /\ CoverIn(item, images) = item.track
  BY DEF CoverIn, IsFound
<1> QED BY <1>1, <1>2

LEMMA PaintingPaints ==
  ASSUME NEW p, IsPage(p)
  PROVE  /\ IsPage(PaintCovers(p)) /\ PaintedPage(PaintCovers(p))
         /\ SameRefresh(PaintCovers(p), p)
<1> DEFINE rows == [i \in DOMAIN p.queue.items |-> CoverIn(CoverItemAt(p, i), p.thumbs)]
           q == [p EXCEPT !.shown = rows]
           label == CoverIn(CoverItemAt(q, q.queue.pos), q.labels)
           r == [q EXCEPT !.label = label]
<1>1. PaintCovers(p) = r
  BY DEF PaintCovers, PaintLabel
<1>2. DOMAIN rows = DOMAIN p.queue.items
  OBVIOUS
<1>3. \A i \in DOMAIN rows : rows[i] \in {None, p.queue.items[i]}
  BY CoverIsOwn
<1>4. label # None => label = q.queue.items[q.queue.pos]
  BY CoverIsOwn
<1> HIDE DEF rows, label
<1>5. IsPage(q) /\ q.queue = p.queue /\ q.shown = rows /\ SameRefresh(q, p)
  BY DEF IsPage, PageFields, SameRefresh
<1> HIDE DEF q
<1>6. IsPage(r) /\ r.queue = q.queue /\ r.shown = q.shown /\ SameRefresh(r, q) /\ r.label = label
  BY <1>5 DEF IsPage, PageFields, SameRefresh
<1> QED
  BY <1>1, <1>2, <1>3, <1>4, <1>5, <1>6 DEF PaintedPage, SameRefresh

(* A refresh asks now, or notes that it should when the last one ends.     *)
TheQuestion == <<Ask("artwork_queue", None, "report")>>

Asked(d, p) ==
  /\ d.page.report = p.report /\ d.page.coversBusy
  /\ \/ p.coversBusy /\ d.page.coversAgain /\ d.asks = <<>>
     \/ ~p.coversBusy /\ ~d.page.coversAgain /\ d.asks = TheQuestion

Kept(d, p) == /\ IsPage(d.page) /\ (PaintedPage(p) => PaintedPage(d.page))

LEMMA RefreshAsks ==
  ASSUME NEW p, IsPage(p)
  PROVE  Kept(RefreshCovers(p), p) /\ Asked(RefreshCovers(p), p)
<1>1. CASE p.coversBusy
  <2> DEFINE q == [p EXCEPT !.coversAgain = TRUE]
  <2>1. RefreshCovers(p) = Does(q, <<>>)
    BY <1>1 DEF RefreshCovers
  <2>2. /\ IsPage(q) /\ q.queue = p.queue /\ q.shown = p.shown /\ q.label = p.label
        /\ q.report = p.report /\ q.coversBusy = TRUE /\ q.coversAgain = TRUE
    BY <1>1 DEF IsPage, PageFields
  <2> HIDE DEF q
  <2> QED
    BY <1>1, <2>1, <2>2 DEF Does, Kept, Asked, PaintedPage
<1>2. CASE ~p.coversBusy
  <2> DEFINE q == [p EXCEPT !.coversBusy = TRUE, !.coversAgain = FALSE]
  <2>1. RefreshCovers(p) = Does(q, TheQuestion)
    BY <1>2 DEF RefreshCovers, AskForReport, TheQuestion
  <2>2. /\ IsPage(q) /\ q.queue = p.queue /\ q.shown = p.shown /\ q.label = p.label
        /\ q.report = p.report /\ q.coversBusy = TRUE /\ q.coversAgain = FALSE
    BY DEF IsPage, PageFields
  <2> HIDE DEF q
  <2> QED
    BY <1>2, <2>1, <2>2 DEF Does, Kept, Asked, PaintedPage
<1> QED BY <1>1, <1>2

LEMMA RenderingAsks ==
  ASSUME NEW p, IsPage(p), NEW view \in View
  PROVE  LET d == RenderQueue(p, view)
         IN  IsPage(d.page) /\ PaintedPage(d.page) /\ Asked(d, p)
<1> DEFINE q == [p EXCEPT !.queue = view]
           r == PaintCovers(q)
<1>1. IsPage(q) /\ SameRefresh(q, p)
  BY DEF IsPage, PageFields, SameRefresh
<1>2. RenderQueue(p, view) = RefreshCovers(r)
  BY DEF RenderQueue
<1> HIDE DEF q
<1>3. IsPage(r) /\ PaintedPage(r) /\ SameRefresh(r, q)
  BY <1>1, PaintingPaints
<1> HIDE DEF r
<1>4. Kept(RefreshCovers(r), r) /\ Asked(RefreshCovers(r), r)
  BY <1>3, RefreshAsks
<1> QED
  BY <1>1, <1>2, <1>3, <1>4 DEF Kept, Asked, SameRefresh

(* The refresh goes on to its next call...                                 *)
GoesOn(d, p) ==
  /\ SameRefresh(d.page, p)
  /\ \E images, then : /\ then \in {"thumbs", "labels"}
                      /\ d.asks = <<Ask("artwork_images", images, then)>>

(* ...or ends, and starts over if somebody asked meanwhile.                *)
EndsOrAsks(d, p) ==
  /\ d.page.report = p.report /\ ~d.page.coversAgain
  /\ \/ d.page.coversBusy /\ d.asks = TheQuestion
     \/ ~d.page.coversBusy /\ ~p.coversAgain /\ d.asks = <<>>

LEMMA EndPaints ==
  ASSUME NEW p, IsPage(p)
  PROVE  LET d == Painted(p) IN IsPage(d.page) /\ PaintedPage(d.page) /\ EndsOrAsks(d, p)
<1> DEFINE r == PaintCovers(p)
<1>1. IsPage(r) /\ PaintedPage(r) /\ SameRefresh(r, p)
  BY PaintingPaints
<1> HIDE DEF r
<1>2. CASE p.coversAgain
  <2> DEFINE q == [r EXCEPT !.coversBusy = TRUE, !.coversAgain = FALSE]
  <2>1. Painted(p) = Does(q, TheQuestion)
    BY <1>2 DEF Painted, AskForReport, TheQuestion, r
  <2>2. /\ IsPage(q) /\ q.queue = r.queue /\ q.shown = r.shown /\ q.label = r.label
        /\ q.report = r.report /\ q.coversBusy = TRUE /\ q.coversAgain = FALSE
    BY <1>1 DEF IsPage, PageFields
  <2> HIDE DEF q
  <2> QED
    BY <1>1, <2>1, <2>2 DEF Does, PaintedPage, EndsOrAsks, SameRefresh
<1>3. CASE ~p.coversAgain
  <2> DEFINE q == [r EXCEPT !.coversBusy = FALSE]
  <2>1. Painted(p) = Does(q, <<>>)
    BY <1>3 DEF Painted, r
  <2>2. r.coversAgain = FALSE
    BY <1>1, <1>3 DEF SameRefresh, IsPage
  <2>3. /\ IsPage(q) /\ q.queue = r.queue /\ q.shown = r.shown /\ q.label = r.label
        /\ q.report = r.report /\ q.coversBusy = FALSE /\ q.coversAgain = FALSE
    BY <1>1, <2>2 DEF IsPage, PageFields
  <2> HIDE DEF q
  <2> QED
    BY <1>1, <1>3, <2>1, <2>3 DEF Does, PaintedPage, EndsOrAsks, SameRefresh
<1> QED BY <1>2, <1>3

(* What may follow an answer of the refresh.                               *)
RefreshStep(d, p) == Kept(d, p) /\ (GoesOn(d, p) \/ EndsOrAsks(d, p))

LEMMA LabelIsFetched ==
  ASSUME NEW p, IsPage(p)
  PROVE  RefreshStep(FetchLabel(p), p)
<1> DEFINE item == CoverItemAt(p, p.queue.pos)
<1>1. CASE IsFound(item) /\ item.track \notin p.labels
  <2>1. FetchLabel(p) = Does(p, <<Ask("artwork_images", {item.track}, "labels")>>)
    BY <1>1 DEF FetchLabel
  <2> HIDE DEF item
  <2> QED
    BY <2>1 DEF Does, RefreshStep, Kept, GoesOn, SameRefresh
<1>2. CASE ~(IsFound(item) /\ item.track \notin p.labels)
  <2>1. FetchLabel(p) = Painted(p)
    BY <1>2 DEF FetchLabel
  <2> QED
    BY <2>1, EndPaints DEF RefreshStep, Kept
<1> QED BY <1>1, <1>2

(* The images of an answer change nothing of the refresh.                  *)
LEMMA ImagesKeep ==
  ASSUME NEW p, IsPage(p), NEW field \in {"thumbs", "labels"}, NEW images,
         NEW q, q = [p EXCEPT ![field] = images]
  PROVE  IsPage(q) /\ SameRefresh(q, p) /\ (PaintedPage(p) => PaintedPage(q))
<1>1. /\ IsPage(q) /\ q.queue = p.queue /\ q.shown = p.shown /\ q.label = p.label
      /\ SameRefresh(q, p)
  BY DEF IsPage, PageFields, SameRefresh
<1> QED BY <1>1 DEF PaintedPage

LEMMA ReportIsTaken ==
  ASSUME NEW p, IsPage(p), NEW rows
  PROVE  LET d == Reported(p, rows)
         IN  Kept(d, p) /\ \E q : /\ q.report = rows /\ q.coversBusy = p.coversBusy
                                  /\ q.coversAgain = p.coversAgain
                                  /\ GoesOn(d, q) \/ EndsOrAsks(d, q)
<1> DEFINE found == {r.track : r \in {r \in ToSet(rows) : r.status = "found"}}
           q == [p EXCEPT !.report = rows, !.thumbs = @ \cap found, !.labels = @ \cap found]
           new == found \ q.thumbs
<1>1. Reported(p, rows) = IF new = {} THEN FetchLabel(q)
                          ELSE Does(q, <<Ask("artwork_images", new, "thumbs")>>)
  BY DEF Reported
<1> HIDE DEF found
<1>2. /\ IsPage(q) /\ q.queue = p.queue /\ q.shown = p.shown /\ q.label = p.label
      /\ q.report = rows /\ q.coversBusy = p.coversBusy /\ q.coversAgain = p.coversAgain
  BY DEF IsPage, PageFields
<1> HIDE DEF new, q
<1>3. PaintedPage(p) => PaintedPage(q)
  BY <1>2 DEF PaintedPage
<1>4. CASE new = {}
  <2>1. RefreshStep(FetchLabel(q), q)
    BY <1>2, LabelIsFetched
  <2> QED
    BY <1>1, <1>2, <1>3, <1>4, <2>1 DEF RefreshStep, Kept
<1>5. CASE new # {}
  <2>1. Reported(p, rows) = Does(q, <<Ask("artwork_images", new, "thumbs")>>)
    BY <1>1, <1>5
  <2>2. Kept(Reported(p, rows), p) /\ GoesOn(Reported(p, rows), q)
    BY <1>2, <1>3, <2>1 DEF Does, Kept, GoesOn, SameRefresh
  <2> QED
    BY <1>2, <2>2
<1> QED BY <1>4, <1>5

-----------------------------------------------------------------------------
(* A call as the page makes it.                                            *)
NewCall(n, ask) == [id |-> n, cmd |-> ask.cmd, arg |-> ask.arg, then |-> ask.then,
                    answered |-> FALSE, answer |-> NoAnswer]

LEMMA NoCallIsMade ==
  ASSUME NEW does, NEW under, Performs(does, under), does.asks = <<>>
  PROVE  page' = does.page /\ calls' = under
BY DEF Performs

LEMMA OneCallIsMade ==
  ASSUME NEW does, NEW under, NEW ask, Performs(does, under), does.asks = <<ask>>
  PROVE  /\ page' = does.page
         /\ \E n : calls' = under \cup {NewCall(n, ask)}
<1> DEFINE made == {[id |-> FreeIds(under)[i], cmd |-> does.asks[i].cmd, arg |-> does.asks[i].arg,
                     then |-> does.asks[i].then, answered |-> FALSE, answer |-> NoAnswer] :
                      i \in DOMAIN does.asks}
<1>1. page' = does.page /\ calls' = under \cup made
  BY DEF Performs
<1>2. DOMAIN does.asks = {1} /\ does.asks[1] = ask
  OBVIOUS
<1>3. made = {NewCall(FreeIds(under)[1], ask)}
  BY <1>2 DEF NewCall
<1> QED BY <1>1, <1>3

(* What the answers and events of the page do to its calls and itself.     *)
(* The shape of what the page's steps leave, given which calls it made.    *)
LEMMA PageKeepsShapes ==
  ASSUME DesktopShapes, NEW under \in SUBSET calls, NEW ask, NEW n,
         IsPage(page'), UNCHANGED <<core, cover>>,
         \/ calls' = under
         \/ /\ calls' = under \cup {NewCall(n, ask)} /\ Follows(ask)
            /\ ask.cmd = "jump_to" => ask.arg \in Nat
  PROVE  DesktopShapes'
<1> DEFINE new == NewCall(n, ask)
<1>1. /\ DOMAIN new = CallFields /\ new.answered = FALSE /\ new.cmd = ask.cmd /\ new.then = ask.then
      /\ new.arg = ask.arg /\ new.answer.view = NoView
  BY DEF NewCall, CallFields, NoAnswer
<1>2. NoView \in View
  BY DEF NoView, View
<1>3. \A c \in calls' : c \in calls \/ (c = new /\ Follows(ask) /\ (ask.cmd = "jump_to" => ask.arg \in Nat))
  OBVIOUS
<1> HIDE DEF new
<1>4. Follows(ask) => Follows(new)
  BY <1>1 DEF Follows
<1> QED
  BY <1>1, <1>2, <1>3, <1>4 DEF DesktopShapes, IsPage

(* The report depends on the list and on which covers are found.           *)
LEMMA ReportIs ==
  DesktopShapes =>
    /\ \A w : w.items = core.items => Rows(w) = Report
    /\ Report = [i \in DOMAIN core.items |->
         [track |-> core.items[i],
          status |-> IF cover[core.items[i]] = "found" THEN "found" ELSE "pending"]]
<1> SUFFICES ASSUME DesktopShapes
             PROVE  /\ \A w : w.items = core.items => Rows(w) = Report
                    /\ Report = [i \in DOMAIN core.items |->
                         [track |-> core.items[i],
                          status |-> IF cover[core.items[i]] = "found" THEN "found" ELSE "pending"]]
  OBVIOUS
<1>1. \A w : w.items = core.items => Rows(w) = [i \in DOMAIN core.items |->
              [track |-> core.items[i],
               status |-> IF cover[core.items[i]] = "found" THEN "found" ELSE "pending"]]
  <2> SUFFICES ASSUME NEW w, w.items = core.items, NEW i \in DOMAIN core.items
               PROVE  CoverAfter(w)[core.items[i]] =
                        IF cover[core.items[i]] = "found" THEN "found" ELSE "pending"
    BY DEF Rows
  <2>1. core.items[i] \in Track /\ core.items[i] \in ToSet(w.items)
    BY DEF DesktopShapes, ToSet
  <2> QED
    BY <2>1 DEF CoverAfter, DesktopShapes
<1>2. [items |-> core.items].items = core.items
  OBVIOUS
<1> QED BY <1>1, <1>2 DEF Report

LEMMA SameReport ==
  ASSUME DesktopShapes, DesktopShapes', core'.items = core.items,
         \A t \in Track : cover'[t] = "found" <=> cover[t] = "found"
  PROVE  Report' = Report
<1>0. (DesktopShapes =>
         Report = [i \in DOMAIN core.items |->
           [track |-> core.items[i],
            status |-> IF cover[core.items[i]] = "found" THEN "found" ELSE "pending"]])'
  BY ReportIs, PTL
<1> DEFINE status(c, i) == IF c[core.items[i]] = "found" THEN "found" ELSE "pending"
<1>1. Report = [i \in DOMAIN core.items |-> [track |-> core.items[i], status |-> status(cover, i)]]
  BY ReportIs
<1>2. Report' = [i \in DOMAIN core.items |-> [track |-> core.items[i], status |-> status(cover', i)]]
  <2>1. Report' = [i \in DOMAIN core'.items |->
              [track |-> core'.items[i],
               status |-> IF cover'[core'.items[i]] = "found" THEN "found" ELSE "pending"]]
    BY <1>0
  <2> QED BY <2>1
<1>3. ASSUME NEW i \in DOMAIN core.items PROVE status(cover', i) = status(cover, i)
  BY DEF DesktopShapes
<1> HIDE DEF status
<1> QED BY <1>1, <1>2, <1>3

(* What the page leaves alone when it steps.                               *)
CoreStays == UNCHANGED <<core, worker, cover, ready>>

(* A question asked, or noted, is enough for the page to catch up.         *)
LEMMA AskingKeeps ==
  ASSUME CoversInv, CoreStays, NEW d, Asked(d, page), IsPage(d.page),
         NEW under \in SUBSET calls, \A c \in calls : OfRefresh(c) => c \in under,
         Performs(d, under)
  PROVE  CoversInv'
<1>0. DesktopShapes /\ OneRefresh /\ HandedOver
  BY DEF CoversInv
<1>1. HandedOver'
  BY <1>0 DEF HandedOver, CoreStays
<1>2. CASE page.coversBusy /\ d.page.coversAgain /\ d.asks = <<>>
  <2>1. page' = d.page /\ calls' = under
    BY <1>2, NoCallIsMade
  <2>2. DesktopShapes'
    BY <1>0, <2>1, PageKeepsShapes DEF CoreStays
  <2>3. page'.coversBusy /\ page'.coversAgain
    BY <1>2, <2>1 DEF Asked
  <2>4. OneRefresh'
    BY <1>0, <1>2, <2>1, <2>3 DEF OneRefresh
  <2>5. Catching'
    BY <2>3 DEF Catching, AskComes
  <2> QED BY <1>1, <2>2, <2>4, <2>5 DEF CoversInv
<1>3. CASE ~page.coversBusy /\ ~d.page.coversAgain /\ d.asks = TheQuestion
  <2> DEFINE ask == Ask("artwork_queue", None, "report")
  <2>1. /\ ask.cmd = "artwork_queue" /\ ask.then = "report"
    BY DEF Ask
  <2>2. d.asks = <<ask>>
    BY <1>3 DEF TheQuestion
  <2> HIDE DEF ask
  <2>3. PICK n : page' = d.page /\ calls' = under \cup {NewCall(n, ask)}
    BY <2>2, OneCallIsMade
  <2> DEFINE new == NewCall(n, ask)
  <2>4. new.cmd = "artwork_queue" /\ new.then = "report" /\ new.answered = FALSE
    BY <2>1 DEF NewCall
  <2>5. new \in calls'
    BY <2>3
  <2>6. Follows(ask)
    BY <2>1 DEF Follows
  <2>7. DesktopShapes'
    BY <1>0, <2>1, <2>3, <2>6, PageKeepsShapes DEF CoreStays
  <2>8. page'.coversBusy /\ ~page'.coversAgain
    BY <1>3, <2>3 DEF Asked
  <2>9. \A c \in under : ~OfRefresh(c)
    BY <1>0, <1>3 DEF OneRefresh
  <2>10. OfRefresh(new)
    BY <2>4 DEF OfRefresh
  <2>11. \A c \in calls' : OfRefresh(c) => c = new
    BY <2>3, <2>9
  <2> HIDE DEF new
  <2>12. OneRefresh'
    BY <2>5, <2>8, <2>10, <2>11 DEF OneRefresh
  <2>13. Catching'
    BY <2>4, <2>5 DEF Catching, AskComes, WillAsk
  <2> QED BY <1>1, <2>7, <2>12, <2>13 DEF CoversInv
<1> QED BY <1>2, <1>3 DEF Asked

(* A step that leaves the page as it is and asks nothing of the covers:    *)
(* whatever made the page ask still does.                                  *)
LEMMA OtherCallsKeep ==
  ASSUME CoversInv, CoreStays, page' = page, NEW under \in SUBSET calls,
         \A c \in calls : OfRefresh(c) \/ WillAsk(c) => c \in under,
         NEW ask, NEW n, NEW made \in SUBSET {NewCall(n, ask)}, calls' = under \cup made,
         Follows(ask), ask.cmd \notin {"artwork_queue", "artwork_images"},
         ask.cmd = "jump_to" => ask.arg \in Nat,
         events' = events \/ \E c \in made : WillAsk(c)
  PROVE  CoversInv'
<1>0. DesktopShapes /\ OneRefresh /\ HandedOver /\ Catching
  BY DEF CoversInv
<1> DEFINE new == NewCall(n, ask)
<1>1. new.cmd = ask.cmd /\ new.then = ask.then
  BY DEF NewCall
<1>2. ~OfRefresh(new)
  BY <1>1 DEF Follows, OfRefresh
<1>3. calls' = under \/ calls' = under \cup {new}
  OBVIOUS
<1>4. IsPage(page')
  BY <1>0 DEF DesktopShapes, IsPage
<1>5. DesktopShapes'
  BY <1>0, <1>3, <1>4, PageKeepsShapes DEF CoreStays
<1>6. HandedOver'
  BY <1>0 DEF HandedOver, CoreStays
<1> HIDE DEF new
<1>7. \A c \in calls' : OfRefresh(c) => c \in calls
  BY <1>2, <1>3
<1>8. \A c \in calls : OfRefresh(c) \/ WillAsk(c) => c \in calls'
  BY <1>3
<1>9. OneRefresh'
  BY <1>0, <1>7, <1>8 DEF OneRefresh
<1>10. Report' = Report
  BY <1>0, <1>5, SameReport DEF CoreStays
<1>11. Catching'
  <2>0. CASE \E c \in made : WillAsk(c)
    BY <2>0 DEF AskComes, Catching
  <2>1. CASE AskComes /\ events' = events
    BY <1>8, <2>1 DEF AskComes, Catching, CoreStays
  <2>2. ASSUME NEW c \in calls, Brings(c) PROVE Catching'
    <3>1. OfRefresh(c)
      BY <2>2 DEF Brings, OfRefresh
    <3>2. c \in calls'
      BY <1>8, <3>1
    <3>3. c.then = "report" /\ c.answered /\ c.answer.rows = Report'
      BY <1>10, <2>2 DEF Brings
    <3> QED BY <3>2, <3>3 DEF Catching, Brings
  <2>3. CASE page.report = Report /\ \A c \in calls : c.then # "report"
    <3>1. \A c \in calls' : c.then # "report"
      BY <1>7, <2>3 DEF OfRefresh
    <3> QED BY <1>10, <2>3, <3>1 DEF Catching
  <2> QED BY <1>0, <2>0, <2>1, <2>2, <2>3 DEF Catching
<1> QED BY <1>5, <1>6, <1>9, <1>11 DEF CoversInv

(* An answer of the refresh: the report it brings is taken, and what comes *)
(* next is the next call of the refresh, its end, or a new start.          *)
LEMMA RefreshKeeps ==
  ASSUME CoversInv, CoreStays, events' = events, NEW call \in calls, OfRefresh(call), call.answered,
         NEW d, IsPage(d.page), Performs(d, calls \ {call}),
         NEW q, GoesOn(d, q) \/ EndsOrAsks(d, q),
         q.report = (IF call.then = "report" THEN call.answer.rows ELSE page.report),
         q.coversBusy = page.coversBusy, q.coversAgain = page.coversAgain
  PROVE  CoversInv'
<1>0. DesktopShapes /\ OneRefresh /\ HandedOver /\ Catching
  BY DEF CoversInv
<1> DEFINE under == calls \ {call}
<1>1. \A c \in under : ~OfRefresh(c)
  BY <1>0 DEF OneRefresh
<1>2. HandedOver'
  BY <1>0 DEF HandedOver, CoreStays
<1>3. page.coversBusy = TRUE
  BY <1>0 DEF OneRefresh, DesktopShapes
<1>4. ~WillAsk(call)
  BY <1>0 DEF DesktopShapes, WillAsk, OfRefresh, Follows
<1>5. ASSUME NEW ask, NEW n, page' = d.page, calls' = under \cup {NewCall(n, ask)},
             Follows(ask), OfRefresh(ask), ask.cmd # "jump_to",
             d.page.report = q.report, d.page.coversBusy
      PROVE  DesktopShapes' /\ OneRefresh' /\ (\A c \in under : c \in calls')
             /\ NewCall(n, ask) \in calls'
             /\ \A c \in calls' : OfRefresh(c) => c = NewCall(n, ask)
  <2> DEFINE new == NewCall(n, ask)
  <2>1. new.then = ask.then
    BY DEF NewCall
  <2>2. OfRefresh(new)
    BY <1>5, <2>1 DEF OfRefresh
  <2>3. DesktopShapes'
    BY <1>0, <1>5, PageKeepsShapes DEF CoreStays
  <2>4. \A c \in calls' : OfRefresh(c) <=> c = new
    BY <1>1, <1>5, <2>2
  <2>5. new \in calls'
    BY <1>5
  <2> HIDE DEF new
  <2>6. OneRefresh'
    BY <1>5, <2>4, <2>5 DEF OneRefresh
  <2> QED BY <1>5, <2>3, <2>4, <2>5, <2>6 DEF new
<1>6. CASE GoesOn(d, q)
  <2>1. PICK images, then : then \in {"thumbs", "labels"} /\ d.asks = <<Ask("artwork_images", images, then)>>
    BY <1>6 DEF GoesOn
  <2> DEFINE ask == Ask("artwork_images", images, then)
  <2>2. ask.cmd = "artwork_images" /\ ask.then = then
    BY DEF Ask
  <2> HIDE DEF ask
  <2>3. PICK n : page' = d.page /\ calls' = under \cup {NewCall(n, ask)}
    BY <2>1, OneCallIsMade DEF ask
  <2>4. Follows(ask) /\ OfRefresh(ask)
    BY <2>1, <2>2 DEF Follows, OfRefresh
  <2>5. d.page.report = q.report /\ d.page.coversBusy = page.coversBusy /\ d.page.coversAgain = page.coversAgain
    BY <1>6 DEF GoesOn, SameRefresh
  <2>6. /\ DesktopShapes' /\ OneRefresh' /\ (\A c \in under : c \in calls')
        /\ \A c \in calls' : OfRefresh(c) => c = NewCall(n, ask)
    BY <1>3, <1>5, <2>2, <2>3, <2>4, <2>5
  <2>7. NewCall(n, ask).then # "report"
    BY <2>1, <2>2 DEF NewCall
  <2>8. \A c \in calls' : c.then # "report"
    BY <2>6, <2>7 DEF OfRefresh
  <2>9. Report' = Report
    BY <1>0, <2>6, SameReport DEF CoreStays
  <2>10. Catching'
    <3>1. CASE AskComes
      BY <1>4, <2>3, <2>5, <2>6, <3>1 DEF AskComes, Catching, CoreStays
    <3>2. ASSUME NEW c \in calls, Brings(c) PROVE page'.report = Report
      <4>1. c = call
        BY <1>0, <3>2 DEF OneRefresh, Brings, OfRefresh
      <4> QED BY <2>3, <2>5, <3>2, <4>1 DEF Brings
    <3>3. ASSUME page.report = Report, \A c \in calls : c.then # "report"
          PROVE  page'.report = Report
      <4>1. call.then # "report"
        BY <3>3
      <4> QED BY <2>3, <2>5, <3>3, <4>1
    <3> QED BY <1>0, <2>8, <2>9, <3>1, <3>2, <3>3 DEF Catching
  <2> QED BY <1>2, <2>6, <2>10 DEF CoversInv
<1>7. CASE EndsOrAsks(d, q) /\ d.page.coversBusy /\ d.asks = TheQuestion
  <2> DEFINE ask == Ask("artwork_queue", None, "report")
  <2>1. /\ ask.cmd = "artwork_queue" /\ ask.then = "report"
    BY DEF Ask
  <2> HIDE DEF ask
  <2>2. PICK n : page' = d.page /\ calls' = under \cup {NewCall(n, ask)}
    BY <1>7, OneCallIsMade DEF ask, TheQuestion
  <2>3. Follows(ask) /\ OfRefresh(ask)
    BY <2>1 DEF Follows, OfRefresh
  <2>4. d.page.report = q.report /\ d.page.coversBusy
    BY <1>7 DEF EndsOrAsks
  <2>5. DesktopShapes' /\ OneRefresh' /\ NewCall(n, ask) \in calls'
    BY <1>5, <2>1, <2>2, <2>3, <2>4
  <2>6. NewCall(n, ask).cmd = "artwork_queue" /\ NewCall(n, ask).answered = FALSE
    BY <2>1 DEF NewCall
  <2>7. Catching'
    BY <2>5, <2>6 DEF Catching, AskComes, WillAsk
  <2> QED BY <1>2, <2>5, <2>7 DEF CoversInv
<1>8. CASE EndsOrAsks(d, q) /\ ~d.page.coversBusy /\ ~q.coversAgain /\ d.asks = <<>>
  <2>1. page' = d.page /\ calls' = under
    BY <1>8, NoCallIsMade
  <2>2. DesktopShapes'
    BY <1>0, <2>1, PageKeepsShapes DEF CoreStays
  <2>3. page'.report = q.report /\ ~page'.coversBusy /\ ~page'.coversAgain
    BY <1>8, <2>1 DEF EndsOrAsks
  <2>4. OneRefresh'
    BY <1>1, <2>1, <2>3 DEF OneRefresh
  <2>5. \A c \in calls' : c.then # "report"
    BY <1>1, <2>1 DEF OfRefresh
  <2>6. Report' = Report
    BY <1>0, <2>2, SameReport DEF CoreStays
  <2>7. Catching'
    <3>1. CASE AskComes
      BY <1>4, <1>8, <2>1, <3>1 DEF AskComes, Catching, CoreStays
    <3>2. ASSUME NEW c \in calls, Brings(c) PROVE page'.report = Report
      <4>1. c = call
        BY <1>0, <3>2 DEF OneRefresh, Brings, OfRefresh
      <4> QED BY <2>3, <3>2, <4>1 DEF Brings
    <3>3. ASSUME page.report = Report, \A c \in calls : c.then # "report"
          PROVE  page'.report = Report
      <4>1. call.then # "report"
        BY <3>3
      <4> QED BY <2>3, <3>3, <4>1
    <3> QED BY <1>0, <2>5, <2>6, <3>1, <3>2, <3>3 DEF Catching
  <2> QED BY <1>2, <2>2, <2>4, <2>7 DEF CoversInv
<1> QED BY <1>6, <1>7, <1>8 DEF EndsOrAsks

-----------------------------------------------------------------------------
(* The page's steps.                                                       *)

LEMMA AnswerKeeps ==
  ASSUME CoversInv, AnswerComes
  PROVE  CoversInv' /\ (PaintedPage(page) => PaintedPage(page'))
<1>0. DesktopShapes /\ OneRefresh /\ HandedOver /\ Catching
  BY DEF CoversInv
<1>1. PICK call \in calls : /\ call.answered /\ Performs(Continue(page, call), calls \ {call})
                           /\ UNCHANGED <<coreVars, providers, events, moves>>
  BY DEF AnswerComes
<1> DEFINE d == Continue(page, call)
           under == calls \ {call}
<1>2. CoreStays /\ events' = events /\ Performs(d, under)
  BY <1>1 DEF CoreStays, coreVars
<1>3. IsPage(page) /\ Follows(call) /\ call.answer.view \in View
  BY <1>0 DEF DesktopShapes, IsPage
<1>4. page' = d.page
  BY <1>2 DEF Performs
<1>a. \A c \in calls : c # call => c \in under
  OBVIOUS
<1>5. CASE call.then = "render" /\ call.answer.ok
  <2>1. d = RenderQueue(page, call.answer.view)
    BY <1>5 DEF Continue
  <2>2. IsPage(d.page) /\ PaintedPage(d.page) /\ Asked(d, page)
    BY <1>3, <2>1, RenderingAsks
  <2>3. \A c \in calls : OfRefresh(c) => c \in under
    BY <1>5, <1>a DEF OfRefresh
  <2> HIDE DEF d, under
  <2>4. CoversInv'
    BY <1>2, <2>2, <2>3, AskingKeeps DEF under
  <2> QED BY <1>4, <2>2, <2>4
<1>6. ASSUME ~OfRefresh(call), ~WillAsk(call), NEW ask, Follows(ask),
             ask.cmd \notin {"artwork_queue", "artwork_images", "jump_to"},
             d.page = page, d.asks = <<>> \/ d.asks = <<ask>>
      PROVE  CoversInv' /\ (PaintedPage(page) => PaintedPage(page'))
  <2>1. \A c \in calls : OfRefresh(c) \/ WillAsk(c) => c \in under
    BY <1>6, <1>a
  <2> HIDE DEF d
  <2>2. \E n : \E new \in SUBSET {NewCall(n, ask)} : calls' = under \cup new
    <3>1. CASE d.asks = <<>>
      <4>1. calls' = under
        BY <1>2, <3>1, NoCallIsMade
      <4>2. calls' = under \cup {} /\ \A n : {} \in SUBSET {NewCall(n, ask)}
        BY <4>1
      <4> QED BY <4>2
    <3>2. CASE d.asks = <<ask>>
      <4>1. PICK n : calls' = under \cup {NewCall(n, ask)}
        BY <1>2, <1>6, <3>2, OneCallIsMade
      <4> QED BY <4>1
    <3> QED BY <1>6, <3>1, <3>2
  <2>3. PICK n : \E new \in SUBSET {NewCall(n, ask)} : calls' = under \cup new
    BY <2>2
  <2>4. PICK new \in SUBSET {NewCall(n, ask)} : calls' = under \cup new
    BY <2>3
  <2>5. page' = page /\ under \in SUBSET calls
    BY <1>4, <1>6
  <2> HIDE DEF under
  <2>6. CoversInv'
    BY <1>2, <1>6, <2>1, <2>4, <2>5, OtherCallsKeep
  <2> QED BY <2>5, <2>6
<1>7. CASE call.then = "render" /\ ~call.answer.ok
  <2> DEFINE ask == Ask("stop", None, "queue")
  <2>1. d = Does(page, <<>>)
    BY <1>7 DEF Continue
  <2>2. ~OfRefresh(call) /\ ~WillAsk(call)
    BY <1>0, <1>1, <1>3, <1>7 DEF OfRefresh, WillAsk, DesktopShapes, Follows
  <2>3. Follows(ask) /\ ask.cmd = "stop"
    BY DEF Follows, Ask
  <2>4. d.page = page /\ d.asks = <<>>
    BY <2>1 DEF Does
  <2> HIDE DEF ask, d
  <2> QED BY <1>6, <2>2, <2>3, <2>4
<1>8. CASE call.then = "nothing"
  <2> DEFINE ask == Ask("stop", None, "queue")
  <2>1. d = Does(page, <<>>)
    BY <1>8 DEF Continue
  <2>2. ~OfRefresh(call) /\ ~WillAsk(call)
    BY <1>3, <1>8 DEF OfRefresh, WillAsk, Follows
  <2>3. Follows(ask) /\ ask.cmd = "stop"
    BY DEF Follows, Ask
  <2>4. d.page = page /\ d.asks = <<>>
    BY <2>1 DEF Does
  <2> HIDE DEF ask, d
  <2> QED BY <1>6, <2>2, <2>3, <2>4
<1>9. CASE call.then = "queue"
  <2> DEFINE ask == Ask("queue", None, "render")
  <2>1. d = Does(page, <<ask>>)
    BY <1>9 DEF Continue
  <2>2. ~OfRefresh(call) /\ ~WillAsk(call)
    BY <1>3, <1>9 DEF OfRefresh, WillAsk, Follows
  <2>3. Follows(ask) /\ ask.cmd = "queue"
    BY DEF Follows, Ask
  <2>4. d.page = page /\ d.asks = <<ask>>
    BY <2>1 DEF Does
  <2> HIDE DEF ask, d
  <2> QED BY <1>6, <2>2, <2>3, <2>4
<1>10. CASE call.then = "report"
  <2> DEFINE rows == call.answer.rows
  <2>1. d = Reported(page, rows)
    BY <1>10 DEF Continue
  <2>2. OfRefresh(call)
    BY <1>10 DEF OfRefresh
  <2> HIDE DEF d, rows
  <2>3. Kept(d, page)
    BY <1>3, <2>1, ReportIsTaken
  <2>4. PICK q : /\ q.report = rows /\ q.coversBusy = page.coversBusy
                 /\ q.coversAgain = page.coversAgain
                 /\ GoesOn(d, q) \/ EndsOrAsks(d, q)
    BY <1>3, <2>1, ReportIsTaken
  <2>5. CoversInv'
    BY <1>1, <1>2, <1>10, <2>2, <2>3, <2>4, RefreshKeeps DEF Kept, rows
  <2> QED BY <1>4, <2>3, <2>5 DEF Kept
<1>11. ASSUME NEW field \in {"thumbs", "labels"}, NEW images, NEW q, q = [page EXCEPT ![field] = images],
              call.then \in {"thumbs", "labels"}, RefreshStep(d, q)
       PROVE  CoversInv' /\ (PaintedPage(page) => PaintedPage(page'))
  <2>1. IsPage(q) /\ SameRefresh(q, page) /\ (PaintedPage(page) => PaintedPage(q))
    BY <1>3, <1>11, ImagesKeep
  <2>2. OfRefresh(call) /\ call.then # "report"
    BY <1>11 DEF OfRefresh
  <2> HIDE DEF d
  <2>3. CoversInv'
    BY <1>1, <1>2, <1>11, <2>1, <2>2, RefreshKeeps DEF RefreshStep, Kept, SameRefresh
  <2> QED BY <1>4, <1>11, <2>1, <2>3 DEF RefreshStep, Kept
<1>12. CASE call.then = "thumbs"
  <2> DEFINE q == [page EXCEPT !.thumbs = @ \cup call.answer.keys]
  <2>1. d = FetchLabel(q)
    BY <1>12 DEF Continue
  <2>2. IsPage(q)
    BY <1>3, ImagesKeep
  <2>3. RefreshStep(d, q)
    BY <2>1, <2>2, LabelIsFetched
  <2> HIDE DEF d
  <2> QED BY <1>11, <1>12, <2>3
<1>13. CASE call.then = "labels"
  <2> DEFINE q == [page EXCEPT !.labels = @ \cup call.answer.keys]
  <2>1. d = Painted(q)
    BY <1>13 DEF Continue
  <2>2. IsPage(q)
    BY <1>3, ImagesKeep
  <2>3. RefreshStep(d, q)
    BY <2>1, <2>2, EndPaints DEF RefreshStep, Kept
  <2> HIDE DEF d
  <2> QED BY <1>11, <1>13, <2>3
<1> QED
  BY <1>3, <1>5, <1>7, <1>8, <1>9, <1>10, <1>12, <1>13 DEF Follows

LEMMA EventKeeps ==
  ASSUME CoversInv, EventComes
  PROVE  CoversInv' /\ (PaintedPage(page) => PaintedPage(page'))
<1>0. DesktopShapes
  BY DEF CoversInv
<1> DEFINE d == OnTick(Head(events))
<1>1. Performs(d, calls) /\ CoreStays
  BY DEF EventComes, CoreStays, coreVars
<1>2. IsPage(page)
  BY <1>0 DEF DesktopShapes, IsPage
<1>3. page' = d.page
  BY <1>1 DEF Performs
<1>4. CASE Head(events).moved
  <2> DEFINE ask == Ask("queue", None, "render")
  <2>1. d = Does(page, <<ask>>)
    BY <1>4 DEF OnTick
  <2>2. d.page = page /\ d.asks = <<ask>>
    BY <2>1 DEF Does
  <2>3. Follows(ask) /\ ask.cmd = "queue"
    BY DEF Follows, Ask
  <2> HIDE DEF ask, d
  <2>4. PICK n : calls' = calls \cup {NewCall(n, ask)}
    BY <1>1, <2>2, OneCallIsMade
  <2>5. WillAsk(NewCall(n, ask))
    BY <2>3 DEF WillAsk, NewCall
  <2>6. {NewCall(n, ask)} \in SUBSET {NewCall(n, ask)} /\ page' = page
    BY <1>3, <2>2
  <2>7. CoversInv'
    BY <1>1, <2>3, <2>4, <2>5, <2>6, OtherCallsKeep
  <2> QED BY <2>6, <2>7
<1>5. CASE ~Head(events).moved
  <2>1. d = RefreshCovers(page)
    BY <1>5 DEF OnTick
  <2>2. Kept(d, page) /\ Asked(d, page)
    BY <1>2, <2>1, RefreshAsks
  <2> HIDE DEF d
  <2>3. CoversInv'
    BY <1>1, <2>2, AskingKeeps DEF Kept
  <2> QED BY <1>3, <2>2, <2>3 DEF Kept
<1> QED BY <1>4, <1>5

LEMMA GestureKeeps ==
  ASSUME CoversInv, Gesture
  PROVE  CoversInv' /\ page' = page
<1>0. DesktopShapes
  BY DEF CoversInv
<1>1. PICK ask \in Gestures : Performs(Does(page, <<ask>>), calls)
  BY DEF Gesture
<1>2. CoreStays /\ events' = events
  BY DEF Gesture, CoreStays, coreVars
<1>3. Does(page, <<ask>>).page = page /\ Does(page, <<ask>>).asks = <<ask>>
  BY DEF Does
<1>4. PICK n : page' = page /\ calls' = calls \cup {NewCall(n, ask)}
  BY <1>1, <1>3, OneCallIsMade
<1>5. /\ Follows(ask) /\ ask.cmd \notin {"artwork_queue", "artwork_images"}
      /\ ask.cmd = "jump_to" => ask.arg \in Nat
  <2>1. DOMAIN page.queue.items \subseteq Nat
    BY <1>0 DEF DesktopShapes, View
  <2> QED BY <2>1 DEF Gestures, Ask, Follows
<1>6. {NewCall(n, ask)} \in SUBSET {NewCall(n, ask)}
  OBVIOUS
<1>7. CoversInv'
  BY <1>2, <1>4, <1>5, <1>6, OtherCallsKeep
<1> QED BY <1>4, <1>7

-----------------------------------------------------------------------------
(* The core's steps: a command answers its call and nothing else of the    *)
(* page's.                                                                 *)
LEMMA AnsweringKeeps ==
  ASSUME CoversInv, page' = page, events' = events, ready' = ready,
         NEW call \in calls, ~call.answered, NEW answer, calls' = Answered(call, answer),
         answer.view \in View, call.cmd = "queue" => answer.ok,
         DOMAIN core' = CoreFields, core'.items \in Seq(Track), core'.pos \in Nat,
         cover' \in [Track -> {"unasked", "pending", "found"}],
         HandedOver',
         \/ call.then = "render" /\ answer.ok
         \/ /\ core'.items = core.items
            /\ \A t \in Track : cover'[t] = "found" <=> cover[t] = "found"
            /\ call.cmd = "artwork_queue" => answer.rows = Report
  PROVE  CoversInv'
<1>0. DesktopShapes /\ OneRefresh /\ Catching
  BY DEF CoversInv
<1> DEFINE done == [call EXCEPT !.answered = TRUE, !.answer = answer]
           under == calls \ {call}
<1>1. calls' = under \cup {done}
  BY DEF Answered
<1>2. DOMAIN call = CallFields /\ Follows(call) /\ (call.cmd = "jump_to" => call.arg \in Nat)
  BY <1>0 DEF DesktopShapes
<1>3. /\ DOMAIN done = CallFields /\ done.answered = TRUE /\ done.answer = answer
      /\ done.cmd = call.cmd /\ done.then = call.then /\ done.arg = call.arg
  BY <1>2 DEF CallFields
<1> HIDE DEF done
<1>4. Follows(done)
  BY <1>2, <1>3 DEF Follows
<1>5. DesktopShapes'
  <2>1. \A c \in calls' : c \in calls \/ c = done
    BY <1>1
  <2> HIDE DEF under
  <2> QED BY <1>0, <1>2, <1>3, <1>4, <2>1 DEF DesktopShapes
<1>6. OfRefresh(done) <=> OfRefresh(call)
  BY <1>3 DEF OfRefresh
<1>7. done \in calls' /\ (\A c \in calls : c = call \/ c \in calls')
      /\ \A c \in calls' : c = done \/ (c \in calls /\ c # call)
  BY <1>1
<1> HIDE DEF under
<1>8. OneRefresh'
  <2>1. ASSUME NEW c \in calls', NEW e \in calls', OfRefresh(c), OfRefresh(e) PROVE c = e
    BY <1>0, <1>6, <1>7, <2>1 DEF OneRefresh
  <2>2. page.coversBusy => \E c \in calls' : OfRefresh(c)
    BY <1>0, <1>6, <1>7 DEF OneRefresh
  <2>3. \A c \in calls' : OfRefresh(c) => page.coversBusy
    BY <1>0, <1>6, <1>7 DEF OneRefresh
  <2> QED BY <1>0, <2>1, <2>2, <2>3 DEF OneRefresh
<1>9. Catching'
  <2>1. CASE call.then = "render" /\ answer.ok
    <3>1. WillAsk(done)
      BY <1>3, <2>1 DEF WillAsk
    <3> QED BY <1>7, <3>1 DEF Catching, AskComes
  <2>2. ASSUME core'.items = core.items, \A t \in Track : cover'[t] = "found" <=> cover[t] = "found",
               call.cmd = "artwork_queue" => answer.rows = Report
        PROVE  Catching'
    <3>1. Report' = Report
      BY <1>0, <1>5, <2>2, SameReport
    <3>2. CASE call.cmd = "artwork_queue"
      <4>1. done.then = "report" /\ done.answered /\ done.answer.rows = Report'
        BY <1>2, <1>3, <2>2, <3>1, <3>2 DEF Follows
      <4> QED BY <1>7, <4>1 DEF Catching, Brings
    <3>3. CASE call.cmd # "artwork_queue"
      <4>1. WillAsk(call) => WillAsk(done)
        BY <1>3, <3>3 DEF WillAsk
      <4>2. CASE AskComes
        BY <1>7, <4>1, <4>2 DEF Catching, AskComes
      <4>3. ASSUME NEW c \in calls, Brings(c) PROVE Catching'
        <5>1. c \in calls'
          BY <1>7, <4>3 DEF Brings
        <5>2. c.then = "report" /\ c.answered /\ c.answer.rows = Report'
          BY <3>1, <4>3 DEF Brings
        <5> QED BY <5>1, <5>2 DEF Catching, Brings
      <4>4. ASSUME page.report = Report, \A c \in calls : c.then # "report" PROVE Catching'
        <5>1. \A c \in calls' : c.then # "report"
          BY <1>3, <1>7, <4>4
        <5> QED BY <3>1, <4>4, <5>1 DEF Catching
      <4> QED BY <1>0, <4>2, <4>3, <4>4 DEF Catching
    <3> QED BY <3>2, <3>3
  <2> QED BY <2>1, <2>2
<1> QED BY <1>5, <1>8, <1>9 DEF CoversInv

(* What one may use of the core.                                           *)
IsCore(c) == DOMAIN c = CoreFields /\ c.items \in Seq(Track) /\ c.pos \in Nat

(* The worker has what the player has once it was handed over, and nothing *)
(* found is lost by it.                                                    *)
LEMMA HandingOver ==
  ASSUME DesktopShapes, HandedOver, NEW c, IsCore(c), c.seen = core.seen, c.own = core.own,
         SyncArtwork(c)
  PROVE  /\ IsCore(core') /\ core'.items = c.items /\ core'.seen = ViewOf(c) /\ core'.own = c.own
         /\ core'.now = c.now /\ core'.pos = c.pos
         /\ HandedOver' /\ worker' = WorkerAfter(c) /\ WorkerAfter(c).items = c.items
         /\ cover' \in [Track -> {"unasked", "pending", "found"}]
         /\ \A t \in Track : cover'[t] = "found" <=> cover[t] = "found"
<1>1. ViewOf(c) \in View /\ ViewOf(c).items = c.items
  BY DEF ViewOf, View, IsCore
<1>2. ViewOf(c) # None
  BY <1>1, DesktopAssumption DEF DesktopAssumption
<1>3. WorkerAfter(c).items = c.items /\ WorkerAfter(c).registry = c.own
  <2>1. CASE c.seen = ViewOf(c)
    BY <1>1, <1>2, <2>1 DEF WorkerAfter, HandedOver
  <2>2. CASE c.seen # ViewOf(c)
    BY <2>2 DEF WorkerAfter
  <2> QED BY <2>1, <2>2
<1>4. /\ IsCore(core') /\ core'.items = c.items /\ core'.seen = ViewOf(c) /\ core'.own = c.own
      /\ core'.now = c.now /\ core'.pos = c.pos
  <2> DEFINE after == [c EXCEPT !.seen = ViewOf(c)]
  <2>1. core' = after
    BY DEF SyncArtwork
  <2>2. /\ DOMAIN after = CoreFields /\ after.items = c.items /\ after.seen = ViewOf(c)
        /\ after.own = c.own /\ after.now = c.now /\ after.pos = c.pos
    BY DEF IsCore, CoreFields
  <2> HIDE DEF after
  <2> QED BY <2>1, <2>2 DEF IsCore
<1>5. worker' = WorkerAfter(c) /\ cover' = CoverAfter(WorkerAfter(c))
  BY DEF SyncArtwork
<1>6. HandedOver'
  BY <1>1, <1>3, <1>4, <1>5 DEF HandedOver
<1>7. /\ cover' \in [Track -> {"unasked", "pending", "found"}]
      /\ \A t \in Track : cover'[t] = "found" <=> cover[t] = "found"
  BY <1>5 DEF CoverAfter, DesktopShapes
<1> QED BY <1>3, <1>4, <1>5, <1>6, <1>7

(* What a start, a failed one and a stop leave of the core's fields.       *)
LEMMA PlayerMoves ==
  ASSUME NEW c, IsCore(c), NEW pos \in Nat, NEW d \in {Started(c, pos), NotStarted(c, pos), StoppedAt(c)}
  PROVE  IsCore(d) /\ d.items = c.items /\ d.seen = c.seen /\ d.own = c.own
<1>1. CASE d = Started(c, pos)
  BY <1>1 DEF Started, IsCore, CoreFields
<1>2. CASE d = NotStarted(c, pos)
  BY <1>2 DEF NotStarted, IsCore, CoreFields
<1>3. CASE d = StoppedAt(c)
  BY <1>3 DEF StoppedAt, IsCore, CoreFields
<1> QED BY <1>1, <1>2, <1>3

LEMMA AnswerShapes ==
  /\ NoAnswer.ok /\ NoAnswer.view \in View /\ ~Failure.ok /\ Failure.view \in View
  /\ \A view : LET a == [NoAnswer EXCEPT !.view = view] IN a.ok /\ a.view = view
  /\ \A rows : LET a == [NoAnswer EXCEPT !.rows = rows]
              IN  a.ok /\ a.view \in View /\ a.rows = rows
  /\ \A keys : LET a == [NoAnswer EXCEPT !.keys = keys] IN a.ok /\ a.view \in View
<1>1. NoView \in View
  BY DEF NoView, View
<1> QED BY <1>1 DEF NoAnswer, Failure

(* A command that leaves the list alone, and what was handed over.         *)
LEMMA PlainCommandKeeps ==
  ASSUME CoversInv, page' = page, events' = events, ready' = ready, cover' = cover,
         worker' = worker, NEW call \in calls, ~call.answered, NEW answer,
         calls' = Answered(call, answer), answer.view \in View,
         call.cmd = "queue" => answer.ok, call.cmd # "artwork_queue",
         IsCore(core'), core'.items = core.items, core'.seen = core.seen, core'.own = core.own
  PROVE  CoversInv'
<1>1. HandedOver'
  BY DEF CoversInv, HandedOver
<1>2. cover' \in [Track -> {"unasked", "pending", "found"}]
  BY DEF CoversInv, DesktopShapes
<1> QED BY <1>1, <1>2, AnsweringKeeps DEF IsCore

LEMMA CommandKeeps ==
  ASSUME CoversInv, CommandStep
  PROVE  CoversInv'
<1>0. DesktopShapes /\ HandedOver
  BY DEF CoversInv
<1>1. PICK call \in calls :
        /\ ~call.answered
        /\ \/ Stop(call) \/ Transport(call) \/ ReadQueue(call) \/ ArtworkQueue(call)
           \/ ArtworkImages(call) \/ Play(call) \/ Change(call)
        /\ UNCHANGED <<events, page>>
  BY DEF CommandStep
<1>2. page' = page /\ events' = events
  BY <1>1
<1>3. IsCore(core) /\ ViewOf(core) \in View
  BY <1>0 DEF IsCore, DesktopShapes, ViewOf, View
<1>a. ASSUME NEW c, IsCore(c) PROVE ViewOf(c) \in View
  BY <1>a DEF IsCore, ViewOf, View
<1>4. CASE Stop(call)
  <2>1. /\ core' = StoppedAt(core) /\ calls' = Answered(call, NoAnswer)
        /\ worker' = worker /\ cover' = cover /\ ready' = ready /\ call.cmd = "stop"
    BY <1>4 DEF Stop
  <2>2. IsCore(core') /\ core'.items = core.items /\ core'.seen = core.seen /\ core'.own = core.own
    BY <1>3, <2>1, PlayerMoves
  <2> QED BY <1>1, <1>2, <2>1, <2>2, AnswerShapes, PlainCommandKeeps
<1>5. CASE Transport(call)
  <2>1. worker' = worker /\ cover' = cover /\ ready' = ready
        /\ call.cmd \in {"next", "previous", "jump_to"}
    BY <1>5 DEF Transport
  <2>2. Target(call) \in Nat
    BY <1>0, <1>3, <2>1 DEF Target, DesktopShapes, IsCore
  <2>3. core' \in {core, StoppedAt(core), Started(core, Target(call)), NotStarted(core, Target(call))}
    BY <1>5 DEF Transport
  <2>4. IsCore(core') /\ core'.items = core.items /\ core'.seen = core.seen /\ core'.own = core.own
    BY <1>3, <2>2, <2>3, PlayerMoves
  <2>5. \/ calls' = Answered(call, [NoAnswer EXCEPT !.view = ViewOf(core')])
        \/ calls' = Answered(call, Failure)
    BY <1>5 DEF Transport, Fails
  <2>6. ViewOf(core') \in View
    BY <1>a, <2>4
  <2> DEFINE answer == [NoAnswer EXCEPT !.view = ViewOf(core')]
  <2>7. answer.view \in View
    BY <2>6, AnswerShapes
  <2> HIDE DEF answer
  <2>8. CASE calls' = Answered(call, answer)
    BY <1>1, <1>2, <2>1, <2>4, <2>7, <2>8, PlainCommandKeeps
  <2>9. CASE calls' = Answered(call, Failure)
    BY <1>1, <1>2, <2>1, <2>4, <2>9, AnswerShapes, PlainCommandKeeps
  <2> QED BY <2>5, <2>8, <2>9 DEF answer
<1>6. CASE ReadQueue(call)
  <2> DEFINE answer == [NoAnswer EXCEPT !.view = ViewOf(core)]
  <2>1. /\ calls' = Answered(call, answer) /\ core' = core /\ worker' = worker /\ cover' = cover
        /\ ready' = ready /\ call.cmd = "queue"
    BY <1>6 DEF ReadQueue, coreVars
  <2>2. answer.ok /\ answer.view \in View
    BY <1>3, AnswerShapes
  <2> HIDE DEF answer
  <2> QED BY <1>1, <1>2, <1>3, <2>1, <2>2, PlainCommandKeeps
<1>7. CASE ArtworkQueue(call)
  <2> DEFINE answer == [NoAnswer EXCEPT !.rows = Rows(WorkerAfter(core))]
  <2>1. /\ SyncArtwork(core) /\ calls' = Answered(call, answer) /\ ready' = ready
        /\ call.cmd = "artwork_queue"
    BY <1>7 DEF ArtworkQueue
  <2>2. /\ IsCore(core') /\ core'.items = core.items /\ HandedOver'
        /\ cover' \in [Track -> {"unasked", "pending", "found"}]
        /\ \A t \in Track : cover'[t] = "found" <=> cover[t] = "found"
        /\ WorkerAfter(core).items = core.items
    BY <1>0, <1>3, <2>1, HandingOver
  <2>3. answer.ok /\ answer.view \in View /\ answer.rows = Rows(WorkerAfter(core))
    BY AnswerShapes
  <2>4. Rows(WorkerAfter(core)) = Report
    BY <1>0, <2>2, ReportIs
  <2> HIDE DEF answer
  <2> QED BY <1>1, <1>2, <2>1, <2>2, <2>3, <2>4, AnsweringKeeps DEF IsCore
<1>8. CASE ArtworkImages(call)
  <2> DEFINE answer == [NoAnswer EXCEPT !.keys = call.arg]
  <2>1. /\ calls' = Answered(call, answer) \/ calls' = Answered(call, Failure)
        /\ core' = core /\ worker' = worker /\ cover' = cover
        /\ ready' = ready /\ call.cmd = "artwork_images"
    BY <1>8 DEF ArtworkImages, Fails, coreVars
  <2>2. answer.view \in View
    BY AnswerShapes
  <2> HIDE DEF answer
  <2>3. CASE calls' = Answered(call, answer)
    BY <1>1, <1>2, <1>3, <2>1, <2>2, <2>3, PlainCommandKeeps
  <2>4. CASE calls' = Answered(call, Failure)
    BY <1>1, <1>2, <1>3, <2>1, <2>4, AnswerShapes, PlainCommandKeeps
  <2> QED BY <2>1, <2>3, <2>4
<1>9. CASE Play(call)
  <2>1. /\ worker' = worker /\ cover' = cover /\ ready' = ready /\ call.cmd = "play"
    BY <1>9 DEF Play
  <2>2. CASE core' = core /\ calls' = Answered(call, Failure)
    BY <1>1, <1>2, <1>3, <2>1, <2>2, AnswerShapes, PlainCommandKeeps
  <2>3. ASSUME NEW list \in Lists, core' = ReplacePlayer(list),
               calls' = Answered(call, [NoAnswer EXCEPT !.view = ViewOf(core')])
        PROVE  CoversInv'
    <3> DEFINE loaded == [core EXCEPT !.items = list]
               started == Started(loaded, 1)
               answer == [NoAnswer EXCEPT !.view = ViewOf(core')]
    <3>1. list \in Seq(Track)
      BY DesktopAssumption DEF DesktopAssumption
    <3>2. IsCore(loaded)
      BY <1>3, <3>1 DEF IsCore, CoreFields
    <3>3. core' = [started EXCEPT !.own = core.registry, !.seen = None]
      BY <2>3 DEF ReplacePlayer
    <3> HIDE DEF loaded
    <3>4. IsCore(started)
      BY <3>2, PlayerMoves
    <3> HIDE DEF started
    <3>5. IsCore(core') /\ core'.seen = None
      BY <3>3, <3>4 DEF IsCore, CoreFields
    <3>6. HandedOver'
      BY <3>5 DEF HandedOver
    <3>7. ViewOf(core') \in View
      BY <1>a, <3>5
    <3>8. answer.ok /\ answer.view \in View
      BY <3>7, AnswerShapes
    <3>9. call.then = "render"
      BY <1>0, <2>1 DEF DesktopShapes, Follows
    <3> HIDE DEF answer
    <3>10. cover' \in [Track -> {"unasked", "pending", "found"}]
      BY <1>0, <2>1 DEF DesktopShapes
    <3> QED BY <1>1, <1>2, <2>1, <2>3, <3>5, <3>6, <3>8, <3>9, <3>10, AnsweringKeeps DEF IsCore, answer
  <2> QED BY <1>9, <2>2, <2>3 DEF Play, Fails
<1>10. CASE Change(call)
  <2>1. /\ worker' = worker /\ cover' = cover /\ ready' = ready /\ call.cmd = "change"
        /\ calls' = Answered(call, NoAnswer) \/ calls' = Answered(call, Failure)
        /\ core' = core \/ core' = [core EXCEPT !.registry = providers']
    BY <1>10 DEF Change, Fails
  <2>2. IsCore(core') /\ core'.items = core.items /\ core'.seen = core.seen /\ core'.own = core.own
    BY <1>3, <2>1 DEF IsCore, CoreFields
  <2>3. CASE calls' = Answered(call, NoAnswer)
    BY <1>1, <1>2, <2>1, <2>2, <2>3, AnswerShapes, PlainCommandKeeps
  <2>4. CASE calls' = Answered(call, Failure)
    BY <1>1, <1>2, <2>1, <2>2, <2>4, AnswerShapes, PlainCommandKeeps
  <2> QED BY <2>1, <2>3, <2>4
<1> QED BY <1>1, <1>4, <1>5, <1>6, <1>7, <1>8, <1>9, <1>10

(* A step of the core on its own, or of the cover worker.                  *)
LEMMA CoreMovesKeep ==
  ASSUME CoversInv, page' = page, calls' = calls, IsCore(core'), core'.items = core.items,
         cover' \in [Track -> {"unasked", "pending", "found"}], HandedOver',
         \/ AskComes'
         \/ /\ events' = events /\ ready' = ready
            /\ \A t \in Track : cover'[t] = "found" <=> cover[t] = "found"
  PROVE  CoversInv'
<1>0. DesktopShapes /\ OneRefresh /\ Catching
  BY DEF CoversInv
<1>1. DesktopShapes'
  BY <1>0 DEF DesktopShapes, IsCore
<1>2. OneRefresh'
  BY <1>0 DEF OneRefresh
<1>3. Catching'
  <2>1. ASSUME events' = events, ready' = ready,
               \A t \in Track : cover'[t] = "found" <=> cover[t] = "found"
        PROVE  Catching'
    <3>1. Report' = Report
      BY <1>0, <1>1, <2>1, SameReport
    <3> QED BY <1>0, <2>1, <3>1 DEF Catching, AskComes, Brings
  <2> QED BY <2>1 DEF Catching
<1> QED BY <1>1, <1>2, <1>3 DEF CoversInv

LEMMA TickedKeeps ==
  ASSUME CoversInv, page' = page, calls' = calls, NEW c, IsCore(c), c.items = core.items,
         c.seen = core.seen, c.own = core.own, Ticked(c)
  PROVE  CoversInv'
<1>0. DesktopShapes /\ HandedOver
  BY DEF CoversInv
<1>1. /\ SyncArtwork(c) /\ ready' = {}
      /\ IF WorthSending(c) THEN \E e : events' = Append(events, e) ELSE events' = events
  BY DEF Ticked
<1>2. /\ IsCore(core') /\ core'.items = core.items /\ HandedOver'
      /\ cover' \in [Track -> {"unasked", "pending", "found"}]
      /\ \A t \in Track : cover'[t] = "found" <=> cover[t] = "found"
  BY <1>0, <1>1, HandingOver
<1>3. CASE WorthSending(c)
  <2>1. PICK e : events' = Append(events, e)
    BY <1>1, <1>3
  <2>2. events' # <<>>
    BY <2>1
  <2>3. AskComes'
    BY <2>2 DEF AskComes
  <2> QED BY <1>2, <2>3, CoreMovesKeep
<1>4. CASE ~WorthSending(c)
  <2>1. ready' = ready /\ events' = events
    BY <1>1, <1>4 DEF WorthSending
  <2> QED BY <1>2, <2>1, CoreMovesKeep
<1> QED BY <1>3, <1>4

LEMMA OwnStepsKeep ==
  ASSUME CoversInv, Tick \/ TickFails \/ EngineEnds \/ \E t \in Track : CoverArrives(t)
  PROVE  CoversInv' /\ page' = page
<1>0. DesktopShapes /\ HandedOver
  BY DEF CoversInv
<1>1. IsCore(core)
  BY <1>0 DEF IsCore, DesktopShapes
<1>2. core.pos + 1 \in Nat
  BY <1>1 DEF IsCore
<1>3. CASE Tick
  <2> DEFINE c == IF ~core.ended THEN core
                  ELSE IF core.pos < Len(core.items) THEN Started(core, core.pos + 1)
                  ELSE StoppedAt(core)
  <2>1. Ticked(c) /\ calls' = calls /\ page' = page
    BY <1>3 DEF Tick
  <2>2. c \in {core, Started(core, core.pos + 1), StoppedAt(core)}
    OBVIOUS
  <2> HIDE DEF c
  <2>3. IsCore(c) /\ c.items = core.items /\ c.seen = core.seen /\ c.own = core.own
    BY <1>1, <1>2, <2>2, PlayerMoves
  <2> QED BY <2>1, <2>3, TickedKeeps
<1>4. CASE TickFails \/ EngineEnds
  <2>1. /\ worker' = worker /\ cover' = cover /\ ready' = ready /\ calls' = calls
        /\ events' = events /\ page' = page
    BY <1>4 DEF TickFails, EngineEnds
  <2>2. core' \in {NotStarted(core, core.pos + 1), [core EXCEPT !.ended = TRUE]}
    BY <1>4 DEF TickFails, EngineEnds
  <2>3. IsCore(core') /\ core'.items = core.items /\ core'.seen = core.seen /\ core'.own = core.own
    <3>1. CASE core' = NotStarted(core, core.pos + 1)
      BY <1>1, <1>2, <3>1, PlayerMoves
    <3>2. CASE core' = [core EXCEPT !.ended = TRUE]
      BY <1>1, <3>2 DEF IsCore, CoreFields
    <3> QED BY <2>2, <3>1, <3>2
  <2>4. HandedOver'
    BY <1>0, <2>1, <2>3 DEF HandedOver
  <2>5. cover' \in [Track -> {"unasked", "pending", "found"}]
    BY <1>0, <2>1 DEF DesktopShapes
  <2> QED BY <2>1, <2>3, <2>4, <2>5, CoreMovesKeep
<1>5. ASSUME NEW t \in Track, CoverArrives(t) PROVE CoversInv' /\ page' = page
  <2>1. /\ worker' = worker /\ core' = core /\ calls' = calls /\ events' = events /\ page' = page
        /\ t \in ready' /\ cover' = [cover EXCEPT ![t] = "found"]
    BY <1>5 DEF CoverArrives
  <2>2. AskComes'
    BY <2>1 DEF AskComes
  <2>3. cover' \in [Track -> {"unasked", "pending", "found"}]
    BY <1>0, <2>1 DEF DesktopShapes
  <2>4. HandedOver'
    BY <1>0, <2>1 DEF HandedOver
  <2> QED BY <1>1, <2>1, <2>2, <2>3, <2>4, CoreMovesKeep
<1> QED BY <1>3, <1>4, <1>5

-----------------------------------------------------------------------------
LEMMA DesktopInit == Init => CoversInv /\ PaintedIsQueued
<1> SUFFICES ASSUME Init PROVE CoversInv /\ PaintedIsQueued
  OBVIOUS
<1>1. DesktopShapes
  BY DEF Init, DesktopShapes, CoreFields, PageFields, NoView, View
<1>2. OneRefresh
  BY DEF Init, OneRefresh
<1>3. HandedOver
  BY DEF Init, HandedOver
<1>4. Report = <<>>
  <2>1. Report = [i \in DOMAIN core.items |->
         [track |-> core.items[i],
          status |-> IF cover[core.items[i]] = "found" THEN "found" ELSE "pending"]]
    BY <1>1, ReportIs
  <2>2. core.items = <<>>
    BY DEF Init
  <2> QED BY <2>1, <2>2
<1>5. Catching
  BY <1>4 DEF Init, Catching
<1>6. PaintedIsQueued
  BY DEF Init, PaintedIsQueued, NoView
<1> QED BY <1>1, <1>2, <1>3, <1>5, <1>6 DEF CoversInv

LEMMA DesktopStep ==
  CoversInv /\ PaintedIsQueued /\ [Next]_vars => CoversInv' /\ PaintedIsQueued'
<1> SUFFICES ASSUME CoversInv, PaintedIsQueued, [Next]_vars PROVE CoversInv' /\ PaintedIsQueued'
  OBVIOUS
<1>1. PaintedPage(page)
  BY DEF PaintedIsQueued, PaintedPage
<1>2. CoversInv' /\ PaintedPage(page')
  <2>1. CASE Gesture
    BY <1>1, <2>1, GestureKeeps
  <2>2. CASE AnswerComes
    BY <1>1, <2>2, AnswerKeeps
  <2>3. CASE EventComes
    BY <1>1, <2>3, EventKeeps
  <2>4. CASE CommandStep
    <3>1. page' = page
      BY <2>4 DEF CommandStep
    <3> QED BY <1>1, <2>4, <3>1, CommandKeeps
  <2>5. CASE Tick \/ TickFails \/ EngineEnds \/ \E t \in Track : CoverArrives(t)
    BY <1>1, <2>5, OwnStepsKeep
  <2>6. CASE UNCHANGED vars
    <3>1. /\ core' = core /\ worker' = worker /\ cover' = cover /\ ready' = ready /\ calls' = calls
          /\ events' = events /\ page' = page
      BY <2>6 DEF vars, coreVars
    <3>2. IsCore(core) /\ HandedOver /\ cover \in [Track -> {"unasked", "pending", "found"}]
      BY DEF CoversInv, DesktopShapes, IsCore
    <3>3. HandedOver'
      BY <3>1, <3>2 DEF HandedOver
    <3> QED BY <1>1, <3>1, <3>2, <3>3, CoreMovesKeep
  <2> QED BY <2>1, <2>2, <2>3, <2>4, <2>5, <2>6 DEF Next
<1> QED BY <1>2 DEF PaintedIsQueued, PaintedPage

(* Nothing under way is no way to be asked, so the page has the report.    *)
LEMMA QuietIsCaughtUp == CoversInv => CoversCatchUp
<1> SUFFICES ASSUME CoversInv, calls = {}, events = <<>>, ready = {}, core.seen = ViewOf(core)
             PROVE  /\ page.report = Rows(worker)
                    /\ worker.items = core.items /\ worker.registry = core.own
  BY DEF CoversCatchUp
<1>1. ViewOf(core) \in View /\ ViewOf(core).items = core.items
  BY DEF CoversInv, DesktopShapes, ViewOf, View
<1>2. worker.items = core.items /\ worker.registry = core.own
  BY <1>1, DesktopAssumption DEF DesktopAssumption, CoversInv, HandedOver
<1>3. page.report = Report
  BY DEF CoversInv, Catching, AskComes, OneRefresh
<1>4. Rows(worker) = Report
  BY <1>2, ReportIs DEF CoversInv
<1> QED BY <1>2, <1>3, <1>4

(* The way the report takes to the page is inductive: nothing the core,    *)
(* the cover worker or the page does loses the reason to ask for it.       *)
THEOREM ReportIsOnItsWay == Spec => []CoversInv
<1>1. Spec => [](CoversInv /\ PaintedIsQueued)
  BY DesktopInit, DesktopStep, PTL DEF Spec
<1> QED BY <1>1, PTL

(* A row shows its own track's cover or none, and the label that of the    *)
(* current row, whatever order the answers come in.                        *)
THEOREM PaintedHolds == Spec => []PaintedIsQueued
<1>1. Spec => [](CoversInv /\ PaintedIsQueued)
  BY DesktopInit, DesktopStep, PTL DEF Spec
<1> QED BY <1>1, PTL

(* Once nothing is under way the page has the report the core would give,  *)
(* and the report is of what the player has.                               *)
THEOREM CatchUpHolds == Spec => []CoversCatchUp
BY ReportIsOnItsWay, QuietIsCaughtUp, PTL

-----------------------------------------------------------------------------
(***************************************************************************)
(* The panels.  What is drawn is right, or an answer that makes it right   *)
(* is asked for, or will be once the answer of a change has come.  And     *)
(* what comes was read since the last change, or is marked as overtaken.   *)
(***************************************************************************)
UiFields == {"base", "tab", "loaded", "years", "previewed", "format", "catalog", "busy", "shown"}
SentFields == {"cmd", "arg", "stage", "ok", "got", "overtaken"}
DiskFields == {"history", "servers", "registry", "plugin", "secrets", "theme", "loads"}
Themes == {Null, "dark"}

OfPlugin == {"plugin_approve", "plugin_disable", "plugin_enable", "plugin_forget",
             "plugin_install", "plugin_update", "plugin_remove"}

(* What one may use of the page's panels.                                  *)
IsUi(u) ==
  /\ DOMAIN u = UiFields /\ DOMAIN u.shown = Page!Drawn
  /\ u.loaded \in BOOLEAN /\ u.previewed \in BOOLEAN /\ u.format \in Page!Formats
  /\ u.shown["themes"] # Null => u.shown["themes"].themes \subseteq Themes

(* A call carries what its command is asked with.                          *)
WellAsked(c) ==
  /\ DOMAIN c = SentFields
  /\ c.cmd \in Page!Commands
  /\ c.cmd \in OfPlugin <=> c.arg \in {"card", "catalog"}
  /\ c.cmd = "plugins" => c.arg \in {"boot", "panel"}
  /\ c.cmd = "theme_select" => c.arg \in Themes
  /\ c.ok \in BOOLEAN /\ c.overtaken \in BOOLEAN
  /\ c.cmd = "themes_list" /\ c.stage = "done" /\ c.ok => c.got.themes \subseteq Themes

PanelShapes ==
  /\ DOMAIN disk = DiskFields
  /\ DOMAIN stale = {"late", "broken"}
  /\ sent \in Seq(ToSet(sent)) /\ \A i \in DOMAIN sent : WellAsked(sent[i])
  /\ notices \in Seq(ToSet(notices))
  /\ IsUi(ui)

(* What a panel shows is what is stored.                                   *)
Fits(u, d, p) ==
  \/ u.shown[p] = Null
  \/ /\ p = "stats" => (u.loaded => u.shown["stats"] = d.history)
     /\ p = "sleeve" => (u.previewed =>
          u.shown["sleeve"] = [of |-> d.history, format |-> u.format])
     /\ p \in {"providers", "servers"} => u.shown[p] = d.servers
     /\ p \in {"plugins", "badge"} => u.shown[p] = d.plugin
     /\ p = "secrets" => u.shown["secrets"] = d.secrets
     /\ p = "themes" => u.shown["themes"] =
          [active |-> d.theme, themes |-> u.shown["themes"].themes]
     /\ p = "worn" => u.shown["worn"] = d.theme

(* The answers a panel is drawn from.                                      *)
Draws(c, p) == c.cmd \in DOMAIN Page!Reads \cup {"theme_select"} /\ p \in Page!PanelsOf(c)

(* The answers after which a panel is asked for again, or marked.          *)
Redraws(c, p) ==
  \/ c.cmd = "providers" /\ p = "servers"
  \/ /\ c.stage = "done" /\ c.ok
     /\ \/ c.cmd \in {"server_add", "server_remove"} /\ p \in {"providers", "servers"}
        \/ c.cmd \in OfPlugin /\ p \in {"plugins", "badge"}
        \/ c.cmd \in {"secret_set", "secret_remove"} /\ p = "secrets"
        \/ c.cmd = "theme_select" /\ p = "themes"
        \/ c.cmd = "import" /\ p \in {"stats", "sleeve"}

DrawingComes(p) ==
  \/ \E i \in DOMAIN sent : Draws(sent[i], p) \/ Redraws(sent[i], p)
  \/ p \in {"stats", "sleeve"} /\ \E k \in DOMAIN notices : notices[k].grew

Drawing ==
  \A p \in Page!Drawn : p \in stale.late \cup stale.broken \/ Fits(ui, disk, p) \/ DrawingComes(p)

(* The registry is built of the servers unless a command broke off.        *)
RegistryFits == "providers" \in stale.broken \/ disk.registry = disk.servers

(* An answer that was not overtaken is what is stored.                     *)
Current(c) ==
  /\ c.cmd = "stats" => c.got = disk.history
  /\ c.cmd = "sleeve_svg" => c.got = disk.history
  /\ c.cmd = "providers" => "providers" \in stale.broken \/ c.got = disk.servers
  /\ c.cmd = "servers_list" => c.got = disk.servers
  /\ c.cmd = "plugins" => c.got = disk.plugin
  /\ c.cmd = "secrets" => c.got = disk.secrets
  /\ c.cmd = "themes_list" => c.got = [active |-> disk.theme, themes |-> c.got.themes]
  /\ c.cmd = "theme_active" => c.got \in {Null, disk.theme}
  /\ c.cmd = "theme_select" => c.got = disk.theme

AnswersFit ==
  /\ \A i \in DOMAIN sent :
       sent[i].stage = "done" /\ sent[i].ok /\ ~sent[i].overtaken => Current(sent[i])
  /\ \A i \in DOMAIN sent :
       sent[i].cmd = "sleeve_svg" /\ ~sent[i].overtaken => sent[i].arg = ui.format

(* The last the busy line will hear is that no job runs.                   *)
BusyEnds ==
  Page!Idle =>
    \E k \in 0..Len(notices) :
      /\ \A j \in (k + 1)..Len(notices) : notices[j].grew
      /\ IF k = 0 THEN ui.busy = Null ELSE ~notices[k].grew /\ notices[k].busy = Null

PanelsInv == PanelShapes /\ Drawing /\ RegistryFits /\ AnswersFit /\ BusyEnds

-----------------------------------------------------------------------------
(* A sequence is one of its own elements.                                  *)
LEMMA OwnElements ==
  ASSUME NEW S, NEW s \in Seq(S)
  PROVE  s \in Seq(ToSet(s))
BY DEF ToSet

(* What s and a become one after the other.                                *)
OneBehind(s, a, r) ==
  /\ r \in Seq(ToSet(r)) /\ Len(s) \in Nat /\ Len(a) \in Nat
  /\ DOMAIN s = 1..Len(s) /\ DOMAIN a = 1..Len(a) /\ DOMAIN r = 1..(Len(s) + Len(a))
  /\ \A j \in DOMAIN s : j \in DOMAIN r /\ r[j] = s[j]
  /\ \A m \in DOMAIN a : Len(s) + m \in DOMAIN r /\ r[Len(s) + m] = a[m]
  /\ \A k \in DOMAIN r : \/ \E j \in DOMAIN s : r[k] = s[j]
                         \/ \E m \in DOMAIN a : r[k] = a[m]

LEMMA PutBehind ==
  ASSUME NEW s, s \in Seq(ToSet(s)), NEW a, a \in Seq(ToSet(a))
  PROVE  OneBehind(s, a, s \o a)
<1> DEFINE S == ToSet(s) \cup ToSet(a)
           r == s \o a
<1>1. s \in Seq(S) /\ a \in Seq(S)
  BY SeqMonotonic
<1> HIDE DEF S
<1>2. /\ Len(s) \in Nat /\ Len(a) \in Nat /\ DOMAIN s = 1..Len(s) /\ DOMAIN a = 1..Len(a)
  BY <1>1, LenProperties
<1>3. /\ r \in Seq(S) /\ Len(r) = Len(s) + Len(a)
      /\ \A k \in 1..Len(s) + Len(a) : r[k] = IF k <= Len(s) THEN s[k] ELSE a[k - Len(s)]
  BY <1>1, ConcatProperties
<1> HIDE DEF r
<1>4. r \in Seq(ToSet(r)) /\ DOMAIN r = 1..(Len(s) + Len(a))
  BY <1>3, OwnElements, LenProperties
<1>5. ASSUME NEW j \in DOMAIN s PROVE j \in DOMAIN r /\ r[j] = s[j]
  BY <1>2, <1>3, <1>4
<1>6. ASSUME NEW m \in DOMAIN a PROVE Len(s) + m \in DOMAIN r /\ r[Len(s) + m] = a[m]
  <2>1. Len(s) + m \in 1..Len(s) + Len(a) /\ ~(Len(s) + m <= Len(s)) /\ (Len(s) + m) - Len(s) = m
    BY <1>2
  <2> QED BY <1>3, <1>4, <2>1
<1>7. ASSUME NEW k \in DOMAIN r
      PROVE  \/ \E j \in DOMAIN s : r[k] = s[j]
             \/ \E m \in DOMAIN a : r[k] = a[m]
  <2>1. CASE k <= Len(s)
    <3>1. k \in DOMAIN s /\ r[k] = s[k]
      BY <1>2, <1>3, <1>4, <2>1
    <3> QED BY <3>1
  <2>2. CASE ~(k <= Len(s))
    <3>1. k - Len(s) \in DOMAIN a /\ r[k] = a[k - Len(s)]
      BY <1>2, <1>3, <1>4, <2>2
    <3> QED BY <3>1
  <2> QED BY <2>1, <2>2
<1>8. OneBehind(s, a, r)
  BY <1>2, <1>4, <1>5, <1>6, <1>7 DEF OneBehind
<1> QED BY <1>8 DEF r

(* Calls under way: one is taken out and others are put behind.            *)
TakesOut(s, i, a, r) ==
  /\ r \in Seq(ToSet(r))
  /\ \A j \in DOMAIN s : j # i => \E k \in DOMAIN r : r[k] = s[j]
  /\ \A m \in DOMAIN a : \E k \in DOMAIN r : r[k] = a[m]
  /\ \A k \in DOMAIN r : \/ \E j \in DOMAIN s : j # i /\ r[k] = s[j]
                         \/ \E m \in DOMAIN a : r[k] = a[m]

LEMMA TakenOut ==
  ASSUME NEW s, s \in Seq(ToSet(s)), NEW i \in DOMAIN s, NEW a, a \in Seq(ToSet(a))
  PROVE  TakesOut(s, i, a, Page!RemoveAt(s, i) \o a)
<1> DEFINE S == ToSet(s)
           b == SubSeq(s, 1, i - 1)
           c == SubSeq(s, i + 1, Len(s))
           q == b \o c
           r == Page!RemoveAt(s, i) \o a
<1>1. s \in Seq(S)
  OBVIOUS
<1> HIDE DEF S
<1>2. Len(s) \in Nat /\ DOMAIN s = 1..Len(s) /\ i \in 1..Len(s)
  BY <1>1, LenProperties
<1>3. \A k \in DOMAIN s : s[k] \in S
  BY <1>1, <1>2, ElementOfSeq
<1>4. b \in Seq(S) /\ Len(b) = i - 1 /\ \A k \in 1..i - 1 : b[k] = s[k]
  <2>1. \A k \in 1..i - 1 : s[k] \in S
    BY <1>2, <1>3
  <2>2. /\ b \in Seq(S) /\ Len(b) = (IF 1 <= i - 1 THEN (i - 1) - 1 + 1 ELSE 0)
        /\ \A k \in 1..(i - 1) - 1 + 1 : b[k] = s[1 + k - 1]
    BY <1>2, <2>1, SubSeqProperties
  <2> HIDE DEF b
  <2>3. (IF 1 <= i - 1 THEN (i - 1) - 1 + 1 ELSE 0) = i - 1 /\ (i - 1) - 1 + 1 = i - 1
    BY <1>2
  <2>4. ASSUME NEW k \in 1..i - 1 PROVE b[k] = s[k]
    <3>1. 1 + k - 1 = k
      BY <1>2
    <3> QED BY <2>2, <2>3, <3>1
  <2> QED BY <2>2, <2>3, <2>4
<1>5. c \in Seq(S) /\ Len(c) = Len(s) - i /\ \A k \in 1..Len(s) - i : c[k] = s[k + i]
  <2>1. \A k \in i + 1..Len(s) : s[k] \in S
    BY <1>2, <1>3
  <2>2. /\ c \in Seq(S) /\ Len(c) = (IF i + 1 <= Len(s) THEN Len(s) - (i + 1) + 1 ELSE 0)
        /\ \A k \in 1..Len(s) - (i + 1) + 1 : c[k] = s[(i + 1) + k - 1]
    BY <1>2, <2>1, SubSeqProperties
  <2> HIDE DEF c
  <2>3. /\ (IF i + 1 <= Len(s) THEN Len(s) - (i + 1) + 1 ELSE 0) = Len(s) - i
        /\ Len(s) - (i + 1) + 1 = Len(s) - i
    BY <1>2
  <2>4. ASSUME NEW k \in 1..Len(s) - i PROVE c[k] = s[k + i]
    <3>1. (i + 1) + k - 1 = k + i
      BY <1>2
    <3> QED BY <2>2, <2>3, <3>1
  <2> QED BY <2>2, <2>3, <2>4
<1>6. r = q \o a
  BY DEF Page!RemoveAt
<1>a. q = b \o c
  OBVIOUS
<1> HIDE DEF b, c, r
<1>7. b \in Seq(ToSet(b)) /\ c \in Seq(ToSet(c))
  BY <1>4, <1>5, OwnElements
<1> HIDE DEF q
<1>8. OneBehind(b, c, q)
  BY <1>7, <1>a, PutBehind
<1>9. OneBehind(q, a, r)
  <2>1. q \in Seq(ToSet(q))
    BY <1>8 DEF OneBehind
  <2> QED BY <1>6, <2>1, PutBehind
<1> USE DEF OneBehind
<1>10. ASSUME NEW j \in DOMAIN s, j # i PROVE \E k \in DOMAIN q : q[k] = s[j]
  <2>1. CASE j < i
    <3>1. j \in DOMAIN b /\ b[j] = s[j]
      BY <1>2, <1>4, <1>8, <2>1
    <3> QED BY <1>8, <3>1
  <2>2. CASE j > i
    <3>1. j - i \in 1..Len(s) - i /\ (j - i) + i = j
      BY <1>2, <2>2
    <3>2. j - i \in DOMAIN c /\ c[j - i] = s[j]
      BY <1>5, <1>8, <3>1
    <3> QED BY <1>8, <3>2
  <2> QED BY <1>2, <1>10, <2>1, <2>2
<1>11. ASSUME NEW k \in DOMAIN q PROVE \E j \in DOMAIN s : j # i /\ q[k] = s[j]
  <2>1. ASSUME NEW j \in DOMAIN b, q[k] = b[j] PROVE \E l \in DOMAIN s : l # i /\ q[k] = s[l]
    <3>1. j \in DOMAIN s /\ j # i /\ b[j] = s[j]
      BY <1>2, <1>4, <1>8
    <3> QED BY <2>1, <3>1
  <2>2. ASSUME NEW m \in DOMAIN c, q[k] = c[m] PROVE \E l \in DOMAIN s : l # i /\ q[k] = s[l]
    <3>1. m \in 1..Len(s) - i
      BY <1>5, <1>8
    <3>2. m + i \in DOMAIN s /\ m + i # i
      BY <1>2, <3>1
    <3>3. c[m] = s[m + i]
      BY <1>5, <3>1
    <3> QED BY <2>2, <3>2, <3>3
  <2> QED BY <1>8, <2>1, <2>2
<1>12. ASSUME NEW j \in DOMAIN s, j # i PROVE \E k \in DOMAIN r : r[k] = s[j]
  <2>1. PICK l \in DOMAIN q : q[l] = s[j]
    BY <1>10, <1>12
  <2>2. l \in DOMAIN r /\ r[l] = q[l]
    BY <1>9
  <2> QED BY <2>1, <2>2
<1>13. \A m \in DOMAIN a : \E k \in DOMAIN r : r[k] = a[m]
  BY <1>9
<1>14. ASSUME NEW k \in DOMAIN r
       PROVE  \/ \E j \in DOMAIN s : j # i /\ r[k] = s[j]
              \/ \E m \in DOMAIN a : r[k] = a[m]
  <2>1. ASSUME NEW l \in DOMAIN q, r[k] = q[l] PROVE \E j \in DOMAIN s : j # i /\ r[k] = s[j]
    BY <1>11, <2>1
  <2> QED BY <1>9, <2>1
<1> QED BY <1>9, <1>12, <1>13, <1>14 DEF TakesOut, r

(* A list of none, one or two calls.                                       *)
LEMMA FewCalls ==
  /\ <<>> \in Seq(ToSet(<<>>)) /\ DOMAIN <<>> = {}
  /\ \A x : LET s == <<x>> IN s \in Seq(ToSet(s)) /\ DOMAIN s = {1} /\ s[1] = x
  /\ \A x, y : LET s == <<x, y>>
               IN  s \in Seq(ToSet(s)) /\ DOMAIN s = {1, 2} /\ s[1] = x /\ s[2] = y
<1>1. ASSUME NEW x PROVE LET s == <<x>> IN s \in Seq(ToSet(s)) /\ DOMAIN s = {1} /\ s[1] = x
  <2>1. ToSet(<<x>>) = {x}
    BY DEF ToSet
  <2> QED BY <2>1
<1>2. ASSUME NEW x, NEW y
      PROVE  LET s == <<x, y>>
             IN  s \in Seq(ToSet(s)) /\ DOMAIN s = {1, 2} /\ s[1] = x /\ s[2] = y
  <2>1. ToSet(<<x, y>>) = {x, y}
    BY DEF ToSet
  <2> QED BY <2>1
<1> QED BY <1>1, <1>2

-----------------------------------------------------------------------------
(* What each answer draws.                                                 *)
DrawnBy(c, p) ==
  \/ c.cmd = "stats" /\ p = "stats"
  \/ c.cmd = "sleeve_svg" /\ p = "sleeve"
  \/ c.cmd = "providers" /\ p = "providers"
  \/ c.cmd = "servers_list" /\ p = "servers"
  \/ c.cmd = "plugins" /\ (p = "badge" \/ (p = "plugins" /\ c.arg = "panel"))
  \/ c.cmd = "secrets" /\ p = "secrets"
  \/ c.cmd = "themes_list" /\ p = "themes"
  \/ c.cmd \in {"theme_active", "theme_select"} /\ p = "worn"

LEMMA DrawsWhat ==
  ASSUME NEW c, WellAsked(c), NEW p
  PROVE  Draws(c, p) <=> DrawnBy(c, p)
<1> DEFINE reads == {"stats", "sleeve_svg", "providers", "servers_list", "plugins",
                     "plugin_catalog", "secrets", "themes_list", "theme_active"}
<1>1. DOMAIN Page!Reads = reads
  BY DEF Page!Reads
<1>2. c.cmd = "plugins" => c.arg \in {"boot", "panel"}
  BY DEF WellAsked
<1>3. c.cmd \in reads \cup {"theme_select"} => c.arg \notin {"card", "catalog"}
  BY DEF WellAsked, OfPlugin
<1>4. CASE c.cmd = "plugins"
  <2>1. Page!PanelsOf(c) = IF c.arg = "boot" THEN {"badge"} ELSE {"plugins", "badge"}
    BY <1>4 DEF Page!PanelsOf, Page!Panel
  <2>2. Draws(c, p) <=> p \in Page!PanelsOf(c)
    BY <1>1, <1>4 DEF Draws
  <2>3. DrawnBy(c, p) <=> p = "badge" \/ (p = "plugins" /\ c.arg = "panel")
    BY <1>4 DEF DrawnBy
  <2> QED BY <1>2, <1>4, <2>1, <2>2, <2>3
<1>8. CASE c.cmd = "plugin_catalog"
  BY <1>1, <1>3, <1>8 DEF Draws, DrawnBy, Page!PanelsOf, Page!Panel
<1>5. CASE c.cmd \in {"stats", "sleeve_svg", "providers", "servers_list"}
  BY <1>1, <1>3, <1>5 DEF Draws, DrawnBy, Page!PanelsOf, Page!Panel
<1>6. CASE c.cmd \in {"secrets", "themes_list", "theme_active", "theme_select"}
  BY <1>1, <1>3, <1>6 DEF Draws, DrawnBy, Page!PanelsOf, Page!Panel
<1>7. CASE c.cmd \notin reads \cup {"theme_select"}
  BY <1>1, <1>7 DEF Draws, DrawnBy
<1> QED BY <1>4, <1>5, <1>6, <1>7, <1>8

(* A panel drawn: the others, and the rest of the page, stay.              *)
LEMMA OnePanelIsDrawn ==
  ASSUME NEW u, IsUi(u), NEW p \in Page!Drawn, NEW got, p = "themes" => got.themes \subseteq Themes
  PROVE  /\ IsUi(Page!Shows(u, p, got)) /\ Page!Shows(u, p, got).shown[p] = got
         /\ \A o \in Page!Drawn : o # p => Page!Shows(u, p, got).shown[o] = u.shown[o]
         /\ Page!Shows(u, p, got).loaded = u.loaded /\ Page!Shows(u, p, got).previewed = u.previewed
         /\ Page!Shows(u, p, got).format = u.format /\ Page!Shows(u, p, got).busy = u.busy
         /\ Page!Shows(u, p, got).tab = u.tab
<1> DEFINE after == [u.shown EXCEPT ![p] = got]
           q == [u EXCEPT !.shown = after]
<1>1. Page!Shows(u, p, got) = q
  BY DEF Page!Shows
<1>2. /\ DOMAIN after = Page!Drawn /\ after[p] = got
      /\ \A o \in Page!Drawn : o # p => after[o] = u.shown[o]
  BY DEF IsUi
<1>3. after["themes"] # Null => after["themes"].themes \subseteq Themes
  BY <1>2 DEF IsUi, Page!Drawn
<1> HIDE DEF after
<1>4. /\ DOMAIN q = UiFields /\ q.shown = after /\ q.loaded = u.loaded /\ q.previewed = u.previewed
      /\ q.format = u.format /\ q.busy = u.busy /\ q.tab = u.tab
  BY DEF IsUi, UiFields
<1> HIDE DEF q
<1> QED BY <1>1, <1>2, <1>3, <1>4 DEF IsUi

(* What fits depends on what is shown, and on the marks.                   *)
LEMMA SameFits ==
  ASSUME NEW u, NEW v, NEW d, NEW p, v.shown[p] = u.shown[p], v.format = u.format,
         p = "stats" => v.loaded = u.loaded \/ v.loaded = FALSE,
         p = "sleeve" => v.previewed = u.previewed \/ v.previewed = FALSE,
         Fits(u, d, p)
  PROVE  Fits(v, d, p)
BY DEF Fits

(* A list of calls of the page's, as it sends them.                        *)
AsksWell(asks, format) ==
  /\ asks \in Seq(ToSet(asks))
  /\ \A m \in DOMAIN asks : /\ WellAsked(asks[m]) /\ asks[m].stage = "sent" /\ ~asks[m].overtaken
                            /\ asks[m].cmd = "sleeve_svg" => asks[m].arg = format

Wants(cmd, arg) ==
  /\ cmd \in Page!Commands
  /\ cmd \in OfPlugin <=> arg \in {"card", "catalog"}
  /\ cmd = "plugins" => arg \in {"boot", "panel"}
  /\ cmd = "theme_select" => arg \in Themes

LEMMA AskIsWell ==
  ASSUME NEW cmd, NEW arg, Wants(cmd, arg)
  PROVE  LET c == Page!Asks(cmd, arg)
         IN  WellAsked(c) /\ c.stage = "sent" /\ ~c.overtaken /\ c.cmd = cmd /\ c.arg = arg
BY DEF Page!Asks, WellAsked, SentFields, Wants

LEMMA AskingWell ==
  ASSUME NEW format
  PROVE  /\ AsksWell(<<>>, format)
         /\ \A cmd, arg : Wants(cmd, arg) /\ (cmd = "sleeve_svg" => arg = format) =>
              /\ AsksWell(<<Page!Asks(cmd, arg)>>, format)
              /\ LET a == <<Page!Asks(cmd, arg)>>
                 IN  1 \in DOMAIN a /\ a[1].cmd = cmd /\ a[1].arg = arg
<1>1. AsksWell(<<>>, format)
  BY FewCalls DEF AsksWell
<1>2. ASSUME NEW cmd, NEW arg, Wants(cmd, arg), cmd = "sleeve_svg" => arg = format
      PROVE  /\ AsksWell(<<Page!Asks(cmd, arg)>>, format)
             /\ LET a == <<Page!Asks(cmd, arg)>>
                IN  1 \in DOMAIN a /\ a[1].cmd = cmd /\ a[1].arg = arg
  <2> DEFINE c == Page!Asks(cmd, arg)
  <2>1. WellAsked(c) /\ c.stage = "sent" /\ ~c.overtaken /\ c.cmd = cmd /\ c.arg = arg
    BY <1>2, AskIsWell
  <2> HIDE DEF c
  <2>2. LET a == <<c>> IN a \in Seq(ToSet(a)) /\ DOMAIN a = {1} /\ a[1] = c
    BY FewCalls
  <2>3. AsksWell(<<c>>, format)
    BY <1>2, <2>1, <2>2 DEF AsksWell
  <2>4. LET a == <<c>> IN 1 \in DOMAIN a /\ a[1].cmd = cmd /\ a[1].arg = arg
    BY <2>1, <2>2
  <2> QED BY <2>3, <2>4 DEF c
<1> QED BY <1>1, <1>2

(* The page after an answer.  What was drawn from an answer that was not   *)
(* overtaken fits, the rest fits as before, and what had to be drawn again *)
(* is asked for.                                                           *)
Effect(c, v, asks) ==
  /\ IsUi(v) /\ v.format = ui.format /\ v.busy = ui.busy
  /\ AsksWell(asks, ui.format)
  /\ \A p \in Page!Drawn :
       /\ Draws(c, p) /\ c.ok /\ ~c.overtaken => p \in stale.broken \/ Fits(v, disk, p)
       /\ ~Draws(c, p) /\ Fits(ui, disk, p) => Fits(v, disk, p)
       /\ Redraws(c, p) =>
            Fits(v, disk, p) \/ \E m \in DOMAIN asks : Draws(asks[m], p) \/ Redraws(asks[m], p)

LEMMA OthersFit ==
  ASSUME NEW u, IsUi(u), NEW p0 \in Page!Drawn, NEW got, p0 = "themes" => got.themes \subseteq Themes,
         NEW d, NEW o \in Page!Drawn, o # p0, Fits(u, d, o)
  PROVE  Fits(Page!Shows(u, p0, got), d, o)
<1> DEFINE v == Page!Shows(u, p0, got)
<1>1. /\ v.format = u.format /\ v.shown[o] = u.shown[o]
      /\ v.loaded = u.loaded /\ v.previewed = u.previewed
  BY OnePanelIsDrawn
<1> HIDE DEF v
<1>2. Fits(v, d, o)
  BY <1>1, SameFits
<1> QED BY <1>2 DEF v

LEMMA DrawingOne ==
  ASSUME IsUi(ui), NEW c, NEW p0 \in Page!Drawn, NEW got, p0 = "themes" => got.themes \subseteq Themes,
         \A p \in Page!Drawn : Draws(c, p) => p = p0,
         NEW asks, AsksWell(asks, ui.format),
         c.ok /\ ~c.overtaken => p0 \in stale.broken \/ Fits(Page!Shows(ui, p0, got), disk, p0),
         Draws(c, p0),
         \A p \in Page!Drawn : Redraws(c, p) =>
           \E m \in DOMAIN asks : Draws(asks[m], p) \/ Redraws(asks[m], p)
  PROVE  Effect(c, Page!Shows(ui, p0, got), asks)
<1> DEFINE v == Page!Shows(ui, p0, got)
<1>1. /\ IsUi(v) /\ v.format = ui.format /\ v.busy = ui.busy
  <2>1. IsUi(ui) /\ p0 \in Page!Drawn /\ (p0 = "themes" => got.themes \subseteq Themes)
    OBVIOUS
  <2> QED BY ONLY <2>1, OnePanelIsDrawn
<1>2. \A o \in Page!Drawn : o # p0 /\ Fits(ui, disk, o) => Fits(v, disk, o)
  BY OthersFit
<1> HIDE DEF v
<1>3. c.ok /\ ~c.overtaken => p0 \in stale.broken \/ Fits(v, disk, p0)
  BY DEF v
<1>4. Effect(c, v, asks)
  BY <1>1, <1>2, <1>3 DEF Effect
<1> QED BY <1>4 DEF v

LEMMA DrawingNone ==
  ASSUME IsUi(ui), NEW c, NEW asks, AsksWell(asks, ui.format),
         \A p \in Page!Drawn : Draws(c, p) => ~c.ok,
         \A p \in Page!Drawn : Redraws(c, p) =>
           \E m \in DOMAIN asks : Draws(asks[m], p) \/ Redraws(asks[m], p)
  PROVE  Effect(c, ui, asks)
BY DEF Effect

(* The page's answer to each command, one by one.                          *)
LEMMA GoingOn ==
  ASSUME NEW c, WellAsked(c)
  PROVE  LET next == Page!GoesOn(ui, c)
         IN  /\ c.cmd = "stats" => next = Page!StatsAnswered(ui, c)
             /\ c.cmd = "sleeve_svg" => next = Page!SleeveAnswered(ui, c)
             /\ c.cmd = "import" => next = Page!ImportAnswered(ui)
             /\ c.cmd = "servers_list" => next = Page!Then(Page!Shows(ui, "servers", c.got), <<>>)
             /\ c.cmd \in {"provider_scan", "server_add", "server_remove"} =>
                  next = Page!RefreshProviders(ui)
             /\ c.cmd \in {"resolve", "provider_test"} => next = Page!Then(ui, <<>>)
             /\ c.cmd = "plugin_catalog" =>
                  next = Page!Then([ui EXCEPT !.catalog = c.got], <<>>)
             /\ c.cmd = "secrets" => next = Page!Then(Page!Shows(ui, "secrets", c.got), <<>>)
             /\ c.cmd \in {"secret_set", "secret_remove"} => next = Page!RefreshSecrets(ui)
             /\ c.cmd = "themes_list" => next = Page!Then(Page!Shows(ui, "themes", c.got), <<>>)
             /\ c.cmd = "theme_select" => next = Page!ThemeSelected(ui, c)
             /\ c.cmd \in OfPlugin /\ c.arg = "catalog" => next = Page!CatalogButtonAnswered(ui, c)
             /\ c.cmd \in OfPlugin /\ c.arg = "card" => next = Page!PluginButtonAnswered(ui, c)
<1> DEFINE next == Page!GoesOn(ui, c)
<1>0. c.cmd \notin OfPlugin => c.arg \notin {"card", "catalog"}
  BY DEF WellAsked
<1>1. /\ c.cmd = "stats" => next = Page!StatsAnswered(ui, c)
      /\ c.cmd = "sleeve_svg" => next = Page!SleeveAnswered(ui, c)
      /\ c.cmd = "import" => next = Page!ImportAnswered(ui)
      /\ c.cmd = "servers_list" => next = Page!Then(Page!Shows(ui, "servers", c.got), <<>>)
      /\ c.cmd \in {"provider_scan", "server_add", "server_remove"} =>
           next = Page!RefreshProviders(ui)
  BY <1>0 DEF Page!GoesOn, OfPlugin
<1>2. /\ c.cmd \in {"resolve", "provider_test"} => next = Page!Then(ui, <<>>)
      /\ c.cmd = "plugin_catalog" => next = Page!Then([ui EXCEPT !.catalog = c.got], <<>>)
      /\ c.cmd = "secrets" => next = Page!Then(Page!Shows(ui, "secrets", c.got), <<>>)
      /\ c.cmd \in {"secret_set", "secret_remove"} => next = Page!RefreshSecrets(ui)
  BY <1>0 DEF Page!GoesOn, OfPlugin
<1>3. /\ c.cmd = "themes_list" => next = Page!Then(Page!Shows(ui, "themes", c.got), <<>>)
      /\ c.cmd = "theme_select" => next = Page!ThemeSelected(ui, c)
  BY <1>0 DEF Page!GoesOn, OfPlugin
<1>4. c.cmd \in OfPlugin => c.cmd \in DOMAIN Page!Changes
  BY DEF OfPlugin, Page!Changes
<1>5. /\ c.cmd \in OfPlugin /\ c.arg = "catalog" => next = Page!CatalogButtonAnswered(ui, c)
      /\ c.cmd \in OfPlugin /\ c.arg = "card" => next = Page!PluginButtonAnswered(ui, c)
  BY <1>4 DEF Page!GoesOn, OfPlugin
<1> QED BY <1>1, <1>2, <1>3, <1>5

LEMMA Answering ==
  ASSUME NEW c, WellAsked(c)
  PROVE  LET next == Page!Answered(ui, c)
         IN  /\ c.cmd \in {"theme_active", "environment", "queue", "anchor"} => next = Page!Boot(ui, c)
             /\ c.cmd = "providers" => next = Page!ProvidersAnswered(ui, c)
             /\ c.cmd = "plugins" => next = Page!PluginsAnswered(ui, c)
             /\ c.cmd \notin {"theme_active", "environment", "queue", "anchor", "providers", "plugins"} =>
                  next = IF c.ok THEN Page!GoesOn(ui, c) ELSE Page!Then(ui, <<>>)
<1>1. DOMAIN Page!AfterBoot = {"theme_active", "environment", "queue", "anchor"}
  BY DEF Page!AfterBoot
<1> QED BY <1>1 DEF Page!Answered

(* What is right for a panel.                                              *)
Right(d, p, got) ==
  \/ got = Null
  \/ /\ p \in {"providers", "servers"} => got = d.servers
     /\ p \in {"plugins", "badge"} => got = d.plugin
     /\ p = "secrets" => got = d.secrets
     /\ p = "themes" => got = [active |-> d.theme, themes |-> got.themes]
     /\ p = "worn" => got = d.theme

LEMMA DrawnFits ==
  ASSUME NEW u, IsUi(u), NEW p \in Page!Drawn, p \notin {"stats", "sleeve"}, NEW got,
         p = "themes" => got.themes \subseteq Themes, NEW d, Right(d, p, got)
  PROVE  Fits(Page!Shows(u, p, got), d, p)
<1> DEFINE v == Page!Shows(u, p, got)
<1>1. v.shown[p] = got
  BY OnePanelIsDrawn
<1> HIDE DEF v
<1>2. Fits(v, d, p)
  BY <1>1 DEF Fits, Right
<1> QED BY <1>2 DEF v

LEMMA AskOne ==
  ASSUME NEW format, NEW cmd, NEW arg, Wants(cmd, arg), cmd = "sleeve_svg" => arg = format
  PROVE  /\ AsksWell(<<Page!Asks(cmd, arg)>>, format)
         /\ \A p : (\E m \in DOMAIN <<Page!Asks(cmd, arg)>> : Draws(<<Page!Asks(cmd, arg)>>[m], p))
                   <=> Draws(Page!Asks(cmd, arg), p)
<1> DEFINE c == Page!Asks(cmd, arg)
<1>1. AsksWell(<<c>>, format)
  BY AskingWell
<1> HIDE DEF c
<1>2. DOMAIN <<c>> = {1} /\ <<c>>[1] = c
  OBVIOUS
<1>3. \A p : (\E m \in DOMAIN <<c>> : Draws(<<c>>[m], p)) <=> Draws(c, p)
  BY <1>2
<1> QED BY <1>1, <1>3 DEF c

(* An answer as it comes back.                                             *)
Comes(c) ==
  /\ WellAsked(c) /\ c.stage = "done"
  /\ c.ok /\ ~c.overtaken => Current(c)
  /\ c.cmd = "sleeve_svg" /\ ~c.overtaken => c.arg = ui.format

LEMMA NothingToRedraw ==
  ASSUME NEW c, NEW p, Redraws(c, p)
  PROVE  \/ c.cmd = "providers" /\ p = "servers"
         \/ /\ c.stage = "done" /\ c.ok
            /\ c.cmd \in {"server_add", "server_remove", "secret_set", "secret_remove", "theme_select",
                         "import"} \cup OfPlugin
BY DEF Redraws

LEMMA BootEffect ==
  ASSUME IsUi(ui), NEW c, Comes(c), c.cmd \in {"theme_active", "environment", "queue", "anchor"}
  PROVE  Effect(c, Page!Answered(ui, c).ui, Page!Answered(ui, c).asks)
<1> DEFINE asks == Page!AfterBoot[c.cmd]
           v == IF c.cmd = "theme_active" /\ c.ok THEN Page!Shows(ui, "worn", c.got) ELSE ui
<1>1. Page!Answered(ui, c) = [ui |-> v, asks |-> asks]
  BY Answering DEF Page!Boot, Page!Then, Page!ApplyTheme, Comes
<1>2. AsksWell(asks, ui.format)
  <2>1. /\ Wants("environment", Null) /\ Wants("queue", Null) /\ Wants("anchor", Null)
        /\ Wants("plugins", "boot")
    BY PanelsAssumption DEF Wants, Page!Commands, Page!Other, Page!Reads, OfPlugin
  <2>2. asks \in {<<Page!Asks("environment", Null)>>, <<Page!Asks("queue", Null)>>,
                  <<Page!Asks("anchor", Null)>>, <<Page!Asks("plugins", "boot")>>}
    BY DEF Page!AfterBoot
  <2> HIDE DEF asks
  <2>3. /\ AsksWell(<<Page!Asks("environment", Null)>>, ui.format)
        /\ AsksWell(<<Page!Asks("queue", Null)>>, ui.format)
    BY <2>1, AskOne
  <2>4. /\ AsksWell(<<Page!Asks("anchor", Null)>>, ui.format)
        /\ AsksWell(<<Page!Asks("plugins", "boot")>>, ui.format)
    BY <2>1, AskOne
  <2> QED BY <2>2, <2>3, <2>4
<1> HIDE DEF asks
<1>3. \A p \in Page!Drawn : Draws(c, p) <=> c.cmd = "theme_active" /\ p = "worn"
  BY DrawsWhat DEF DrawnBy, Comes
<1>4. \A p \in Page!Drawn : ~Redraws(c, p)
  BY NothingToRedraw DEF OfPlugin
<1>5. CASE c.cmd = "theme_active" /\ c.ok
  <2>1. PICK got : got = c.got
    OBVIOUS
  <2>2. "worn" \in Page!Drawn
    BY DEF Page!Drawn
  <2>3. ~c.overtaken => Fits(Page!Shows(ui, "worn", got), disk, "worn")
    <3>1. ~c.overtaken => Right(disk, "worn", got)
      BY <1>5, <2>1 DEF Comes, Current, Right
    <3> QED BY <2>2, <3>1, DrawnFits
  <2>4. Effect(c, Page!Shows(ui, "worn", got), asks)
    BY <1>2, <1>3, <1>4, <1>5, <2>2, <2>3, DrawingOne
  <2> QED BY <1>1, <1>5, <2>1, <2>4
<1>6. CASE ~(c.cmd = "theme_active" /\ c.ok)
  <2>1. Effect(c, ui, asks)
    BY <1>2, <1>3, <1>4, <1>6, DrawingNone
  <2> QED BY <1>1, <1>6, <2>1
<1> QED BY <1>5, <1>6

(* What is asked for when something is to be drawn.                        *)
LEMMA AsksDraw ==
  /\ Wants("servers_list", Null) /\ Draws(Page!Asks("servers_list", Null), "servers")
  /\ Wants("providers", Null) /\ Draws(Page!Asks("providers", Null), "providers")
  /\ Wants("secrets", Null) /\ Draws(Page!Asks("secrets", Null), "secrets")
  /\ Wants("themes_list", Null) /\ Draws(Page!Asks("themes_list", Null), "themes")
  /\ Wants("plugins", "panel") /\ Draws(Page!Asks("plugins", "panel"), "plugins")
  /\ Draws(Page!Asks("plugins", "panel"), "badge")
  /\ Wants("plugin_catalog", Null)
<1>1. /\ Wants("servers_list", Null) /\ Wants("providers", Null) /\ Wants("secrets", Null)
      /\ Wants("themes_list", Null) /\ Wants("plugins", "panel") /\ Wants("plugin_catalog", Null)
  BY PanelsAssumption DEF Wants, Page!Commands, Page!Other, Page!Reads, OfPlugin
<1>2. ASSUME NEW cmd, NEW arg, Wants(cmd, arg), NEW p
      PROVE  LET c == Page!Asks(cmd, arg)
             IN  c.cmd = cmd /\ c.arg = arg /\ (Draws(c, p) <=> DrawnBy(c, p))
  BY <1>2, AskIsWell, DrawsWhat
<1>3. Draws(Page!Asks("servers_list", Null), "servers")
  BY <1>1, <1>2 DEF DrawnBy
<1>4. Draws(Page!Asks("providers", Null), "providers")
  BY <1>1, <1>2 DEF DrawnBy
<1>5. Draws(Page!Asks("secrets", Null), "secrets")
  BY <1>1, <1>2 DEF DrawnBy
<1>6. Draws(Page!Asks("themes_list", Null), "themes")
  BY <1>1, <1>2 DEF DrawnBy
<1>7. Draws(Page!Asks("plugins", "panel"), "plugins")
  BY <1>1, <1>2 DEF DrawnBy
<1>8. Draws(Page!Asks("plugins", "panel"), "badge")
  BY <1>1, <1>2 DEF DrawnBy
<1> QED BY <1>1, <1>3, <1>4, <1>5, <1>6, <1>7, <1>8

LEMMA AskFor ==
  ASSUME NEW cmd, NEW arg, Wants(cmd, arg), cmd # "sleeve_svg", NEW format
  PROVE  /\ AsksWell(<<Page!Asks(cmd, arg)>>, format)
         /\ LET asks == <<Page!Asks(cmd, arg)>>
            IN  \A p : Draws(Page!Asks(cmd, arg), p) => \E m \in DOMAIN asks : Draws(asks[m], p)
BY AskOne

LEMMA ProvidersEffect ==
  ASSUME IsUi(ui), NEW c, Comes(c), c.cmd = "providers"
  PROVE  Effect(c, Page!Answered(ui, c).ui, Page!Answered(ui, c).asks)
<1> DEFINE asks == <<Page!Asks("servers_list", Null)>>
           v == IF c.ok THEN Page!Shows(ui, "providers", c.got) ELSE ui
<1>1. Page!Answered(ui, c) = [ui |-> v, asks |-> asks]
  BY Answering DEF Page!ProvidersAnswered, Page!Then, Comes
<1>2. AsksWell(asks, ui.format) /\ \E m \in DOMAIN asks : Draws(asks[m], "servers")
  BY AsksDraw, AskFor
<1> HIDE DEF asks
<1>3. \A p \in Page!Drawn : Draws(c, p) <=> p = "providers"
  BY DrawsWhat DEF DrawnBy, Comes
<1>4. \A p \in Page!Drawn : Redraws(c, p) => p = "servers"
  BY NothingToRedraw DEF OfPlugin
<1>5. CASE c.ok
  <2>1. PICK got : got = c.got
    OBVIOUS
  <2>2. "providers" \in Page!Drawn
    BY DEF Page!Drawn
  <2>3. ~c.overtaken =>
          "providers" \in stale.broken \/ Fits(Page!Shows(ui, "providers", got), disk, "providers")
    <3>1. ~c.overtaken => "providers" \in stale.broken \/ Right(disk, "providers", got)
      BY <1>5, <2>1 DEF Comes, Current, Right
    <3> QED BY <2>2, <3>1, DrawnFits
  <2>4. Effect(c, Page!Shows(ui, "providers", got), asks)
    BY <1>2, <1>3, <1>4, <1>5, <2>2, <2>3, DrawingOne
  <2> QED BY <1>1, <1>5, <2>1, <2>4
<1>6. CASE ~c.ok
  <2>1. Effect(c, ui, asks)
    BY <1>2, <1>3, <1>4, <1>6, DrawingNone
  <2> QED BY <1>1, <1>6, <2>1
<1> QED BY <1>5, <1>6

(* One panel and nothing to follow.                                        *)
LEMMA PlainEffect ==
  ASSUME IsUi(ui), NEW c, Comes(c), NEW p0,
         <<c.cmd, p0>> \in {<<"servers_list", "servers">>, <<"secrets", "secrets">>,
                            <<"themes_list", "themes">>}
  PROVE  Effect(c, Page!Answered(ui, c).ui, Page!Answered(ui, c).asks)
<1> DEFINE v == IF c.ok THEN Page!Shows(ui, p0, c.got) ELSE ui
<1>0. \/ c.cmd = "servers_list" /\ p0 = "servers"
      \/ c.cmd = "secrets" /\ p0 = "secrets"
      \/ c.cmd = "themes_list" /\ p0 = "themes"
  OBVIOUS
<1>1. Page!Answered(ui, c) = [ui |-> v, asks |-> <<>>]
  BY <1>0, Answering, GoingOn DEF Page!Then, Comes
<1>2. AsksWell(<<>>, ui.format)
  BY AskingWell
<1>3. \A p \in Page!Drawn : Draws(c, p) <=> p = p0
  BY <1>0, DrawsWhat DEF DrawnBy, Comes
<1>4. \A p \in Page!Drawn : ~Redraws(c, p)
  BY <1>0, NothingToRedraw DEF OfPlugin
<1>5. CASE c.ok
  <2>1. PICK got : got = c.got
    OBVIOUS
  <2>2. p0 \in Page!Drawn /\ (p0 = "themes" => got.themes \subseteq Themes)
    BY <1>0, <1>5, <2>1 DEF Page!Drawn, Comes, WellAsked
  <2>3. ~c.overtaken => Fits(Page!Shows(ui, p0, got), disk, p0)
    <3>1. ~c.overtaken => Right(disk, p0, got)
      BY <1>0, <1>5, <2>1 DEF Comes, Current, Right
    <3> QED BY <1>0, <2>2, <3>1, DrawnFits
  <2>4. Effect(c, Page!Shows(ui, p0, got), <<>>)
    BY <1>2, <1>3, <1>4, <1>5, <2>2, <2>3, DrawingOne
  <2> QED BY <1>1, <1>5, <2>1, <2>4
<1>6. CASE ~c.ok
  <2>1. Effect(c, ui, <<>>)
    BY <1>2, <1>3, <1>4, <1>6, DrawingNone
  <2> QED BY <1>1, <1>6, <2>1
<1> QED BY <1>5, <1>6

LEMMA ThemeEffect ==
  ASSUME IsUi(ui), NEW c, Comes(c), c.cmd = "theme_select"
  PROVE  Effect(c, Page!Answered(ui, c).ui, Page!Answered(ui, c).asks)
<1> DEFINE asks == IF c.ok THEN <<Page!Asks("themes_list", Null)>> ELSE <<>>
           v == IF c.ok THEN Page!Shows(ui, "worn", c.got) ELSE ui
<1>1. Page!Answered(ui, c) = [ui |-> v, asks |-> asks]
  BY Answering, GoingOn
  DEF Page!ThemeSelected, Page!RefreshThemes, Page!ApplyTheme, Page!Then, Comes
<1>2. AsksWell(asks, ui.format) /\ (c.ok => \E m \in DOMAIN asks : Draws(asks[m], "themes"))
  BY AsksDraw, AskFor, AskingWell
<1> HIDE DEF asks
<1>3. \A p \in Page!Drawn : Draws(c, p) <=> p = "worn"
  BY DrawsWhat DEF DrawnBy, Comes
<1>4. \A p \in Page!Drawn : Redraws(c, p) => p = "themes" /\ c.ok
  BY DEF Redraws, OfPlugin
<1>5. CASE c.ok
  <2>1. PICK got : got = c.got
    OBVIOUS
  <2>2. "worn" \in Page!Drawn
    BY DEF Page!Drawn
  <2>3. ~c.overtaken => Fits(Page!Shows(ui, "worn", got), disk, "worn")
    <3>1. ~c.overtaken => Right(disk, "worn", got)
      BY <1>5, <2>1 DEF Comes, Current, Right
    <3> QED BY <2>2, <3>1, DrawnFits
  <2>4. Effect(c, Page!Shows(ui, "worn", got), asks)
    BY <1>2, <1>3, <1>4, <1>5, <2>2, <2>3, DrawingOne
  <2> QED BY <1>1, <1>5, <2>1, <2>4
<1>6. CASE ~c.ok
  <2>1. Effect(c, ui, asks)
    BY <1>2, <1>3, <1>4, <1>6, DrawingNone
  <2> QED BY <1>1, <1>6, <2>1
<1> QED BY <1>5, <1>6

LEMMA DrawnUi ==
  ASSUME NEW u, IsUi(u), NEW p0 \in Page!Drawn, p0 # "themes", NEW got
  PROVE  /\ IsUi(Page!Shows(u, p0, got))
         /\ Page!Shows(u, p0, got).format = u.format /\ Page!Shows(u, p0, got).busy = u.busy
BY OnePanelIsDrawn

LEMMA PluginsEffect ==
  ASSUME IsUi(ui), NEW c, Comes(c), c.cmd = "plugins"
  PROVE  Effect(c, Page!Answered(ui, c).ui, Page!Answered(ui, c).asks)
<1> DEFINE asks == IF c.arg # "boot" /\ ui.tab = "tabSecrets" THEN <<Page!Asks("secrets", Null)>> ELSE <<>>
<1>1. PICK got : got = c.got
  OBVIOUS
<1> DEFINE badge == Page!Shows(ui, "badge", got)
           both == Page!Shows(badge, "plugins", got)
           v == IF ~c.ok THEN ui ELSE IF c.arg = "boot" THEN badge ELSE both
<1>2. "badge" \in Page!Drawn /\ "plugins" \in Page!Drawn
  BY DEF Page!Drawn
<1>3. IsUi(badge) /\ badge.tab = ui.tab /\ badge.format = ui.format /\ badge.busy = ui.busy
  BY <1>2, OnePanelIsDrawn
<1>4. IsUi(both) /\ both.format = ui.format /\ both.busy = ui.busy
  <2> HIDE DEF badge
  <2> QED BY <1>2, <1>3, DrawnUi
<1>5. Page!Answered(ui, c) = [ui |-> v, asks |-> asks]
  <2>1. Page!Answered(ui, c) = Page!PluginsAnswered(ui, c)
    BY Answering DEF Comes
  <2> QED BY <1>1, <1>3, <2>1 DEF Page!PluginsAnswered, Page!Then
<1>6. AsksWell(asks, ui.format)
  BY AsksDraw, AskFor, AskingWell
<1> HIDE DEF asks
<1>7. \A p \in Page!Drawn : Draws(c, p) <=> p = "badge" \/ (p = "plugins" /\ c.arg = "panel")
  BY DrawsWhat DEF DrawnBy, Comes
<1>8. \A p \in Page!Drawn : ~Redraws(c, p)
  BY NothingToRedraw DEF OfPlugin
<1>9. CASE ~c.ok
  <2>1. Effect(c, ui, asks)
    BY <1>6, <1>8, <1>9, DrawingNone
  <2> QED BY <1>5, <1>9, <2>1
<1>10. CASE c.ok
  <2>1. ~c.overtaken => Right(disk, "badge", got) /\ Right(disk, "plugins", got)
    BY <1>1, <1>10 DEF Comes, Current, Right
  <2>2. /\ ~c.overtaken => Fits(badge, disk, "badge")
        /\ \A o \in Page!Drawn : o # "badge" /\ Fits(ui, disk, o) => Fits(badge, disk, o)
    BY <1>2, <2>1, DrawnFits, OthersFit
  <2>3. /\ ~c.overtaken => Fits(both, disk, "plugins")
        /\ \A o \in Page!Drawn : o # "plugins" /\ Fits(badge, disk, o) => Fits(both, disk, o)
    <3> HIDE DEF badge
    <3> QED BY <1>2, <1>3, <2>1, DrawnFits, OthersFit
  <2> HIDE DEF badge, both
  <2>4. CASE c.arg = "boot"
    <3>1. Effect(c, badge, asks)
      BY <1>3, <1>6, <1>7, <1>8, <2>2, <2>4 DEF Effect
    <3> QED BY <1>5, <1>10, <2>4, <3>1
  <2>5. CASE c.arg # "boot"
    <3>1. c.arg = "panel"
      BY <2>5 DEF Comes, WellAsked
    <3>2. ~c.overtaken => Fits(both, disk, "badge")
      BY <1>2, <2>2, <2>3
    <3>3. Effect(c, both, asks)
      BY <1>4, <1>6, <1>7, <1>8, <2>2, <2>3, <3>1, <3>2 DEF Effect
    <3> QED BY <1>5, <1>10, <2>5, <3>3
  <2> QED BY <2>4, <2>5
<1> QED BY <1>9, <1>10

(* The statistics and the card.                                            *)
LEMMA MarkedEffect ==
  ASSUME IsUi(ui), NEW c, Comes(c), c.ok, NEW p0,
         \/ c.cmd = "stats" /\ p0 = "stats"
         \/ c.cmd = "sleeve_svg" /\ p0 = "sleeve"
  PROVE  Effect(c, Page!Answered(ui, c).ui, Page!Answered(ui, c).asks)
<1>1. PICK got : got = IF p0 = "stats" THEN c.got ELSE [of |-> c.got, format |-> c.arg]
  OBVIOUS
<1> DEFINE shown == Page!Shows(ui, p0, got)
           v == IF p0 = "stats"
                THEN [shown EXCEPT !.loaded = TRUE, !.years = IF c.arg = Null THEN c.got ELSE @]
                ELSE [shown EXCEPT !.previewed = TRUE]
<1>2. p0 \in Page!Drawn /\ p0 # "themes" /\ p0 \in {"stats", "sleeve"}
  BY DEF Page!Drawn
<1>3. /\ IsUi(shown) /\ shown.shown[p0] = got
      /\ \A o \in Page!Drawn : o # p0 => shown.shown[o] = ui.shown[o]
      /\ shown.loaded = ui.loaded /\ shown.previewed = ui.previewed
      /\ shown.format = ui.format /\ shown.busy = ui.busy
  <2>1. IsUi(ui)
    OBVIOUS
  <2> QED BY ONLY <1>2, <2>1, OnePanelIsDrawn
<1>4. Page!Answered(ui, c) = [ui |-> v, asks |-> <<>>]
  <2>1. CASE c.cmd = "stats"
    <3>1. Page!Answered(ui, c) = Page!StatsAnswered(ui, c)
      BY <2>1, Answering, GoingOn DEF Comes
    <3> QED BY <1>1, <2>1, <3>1 DEF Page!StatsAnswered, Page!Then
  <2>2. CASE c.cmd = "sleeve_svg"
    <3>1. Page!Answered(ui, c) = Page!SleeveAnswered(ui, c)
      BY <2>2, Answering, GoingOn DEF Comes
    <3> QED BY <1>1, <2>2, <3>1 DEF Page!SleeveAnswered, Page!Then
  <2> QED BY <2>1, <2>2
<1> HIDE DEF shown
<1>5. /\ DOMAIN v = UiFields /\ v.shown = shown.shown
      /\ v.format = ui.format /\ v.busy = ui.busy
      /\ p0 = "stats" => v.loaded = TRUE /\ v.previewed = ui.previewed
      /\ p0 = "sleeve" => v.previewed = TRUE /\ v.loaded = ui.loaded
  BY <1>2, <1>3 DEF IsUi, UiFields
<1> HIDE DEF v
<1>6. IsUi(v)
  BY <1>2, <1>3, <1>5 DEF IsUi
<1>7. \A o \in Page!Drawn : o # p0 /\ Fits(ui, disk, o) => Fits(v, disk, o)
  <2>1. \A o \in Page!Drawn : o # p0 => v.shown[o] = ui.shown[o]
    BY <1>3, <1>5
  <2> QED BY <1>2, <1>5, <2>1, SameFits
<1>8. ~c.overtaken => Fits(v, disk, p0)
  <2>1. v.shown[p0] = got
    BY <1>3, <1>5
  <2>2. ~c.overtaken => got = IF p0 = "stats" THEN disk.history
                              ELSE [of |-> disk.history, format |-> ui.format]
    BY <1>1, <1>2 DEF Comes, Current
  <2> QED BY <1>2, <1>5, <2>1, <2>2 DEF Fits
<1>9. \A p \in Page!Drawn : Draws(c, p) <=> p = p0
  BY DrawsWhat DEF DrawnBy, Comes
<1>10. \A p \in Page!Drawn : ~Redraws(c, p)
  BY NothingToRedraw DEF OfPlugin
<1>11. AsksWell(<<>>, ui.format)
  BY AskingWell
<1>12. Effect(c, v, <<>>)
  BY <1>5, <1>6, <1>7, <1>8, <1>9, <1>10, <1>11 DEF Effect
<1> QED BY <1>4, <1>12

(* What is changed of the page is not what a panel shows.                  *)
LEMMA LessDrawn ==
  ASSUME NEW v, IsUi(v), v.format = ui.format, v.busy = ui.busy, v.shown = ui.shown,
         v.loaded = ui.loaded \/ v.loaded = FALSE,
         v.previewed = ui.previewed \/ v.previewed = FALSE,
         NEW c, \A p \in Page!Drawn : Draws(c, p) => ~c.ok,
         NEW asks, AsksWell(asks, ui.format),
         \A p \in Page!Drawn : Redraws(c, p) =>
           \/ \E m \in DOMAIN asks : Draws(asks[m], p) \/ Redraws(asks[m], p)
           \/ p = "stats" /\ v.loaded = FALSE
           \/ p = "sleeve" /\ v.previewed = FALSE
  PROVE  Effect(c, v, asks)
<1>1. \A p \in Page!Drawn : Fits(ui, disk, p) => Fits(v, disk, p)
  BY SameFits
<1>2. /\ v.loaded = FALSE => Fits(v, disk, "stats")
      /\ v.previewed = FALSE => Fits(v, disk, "sleeve")
  BY DEF Fits
<1> QED BY <1>1, <1>2 DEF Effect

LEMMA ImportEffect ==
  ASSUME IsUi(ui), NEW c, Comes(c), c.ok, c.cmd = "import"
  PROVE  Effect(c, Page!Answered(ui, c).ui, Page!Answered(ui, c).asks)
<1> DEFINE v == [ui EXCEPT !.loaded = FALSE, !.previewed = FALSE]
<1>1. Page!Answered(ui, c) = [ui |-> v, asks |-> <<>>]
  BY Answering, GoingOn DEF Page!ImportAnswered, Page!Then, Comes
<1>2. /\ DOMAIN v = UiFields /\ v.shown = ui.shown /\ v.format = ui.format /\ v.busy = ui.busy
      /\ v.loaded = FALSE /\ v.previewed = FALSE
  BY DEF IsUi, UiFields
<1> HIDE DEF v
<1>3. IsUi(v)
  BY <1>2 DEF IsUi
<1>4. \A p \in Page!Drawn : ~Draws(c, p)
  BY DrawsWhat DEF DrawnBy, Comes
<1>5. \A p \in Page!Drawn : Redraws(c, p) => p \in {"stats", "sleeve"}
  BY DEF Redraws, OfPlugin
<1>6. AsksWell(<<>>, ui.format)
  BY AskingWell
<1>7. Effect(c, v, <<>>)
  BY <1>2, <1>3, <1>4, <1>5, <1>6, LessDrawn
<1> QED BY <1>1, <1>7

(* What asks for a panel, and changes none itself.                         *)
LEMMA AskingEffect ==
  ASSUME IsUi(ui), NEW c, Comes(c), c.ok,
         c.cmd \in {"provider_scan", "server_add", "server_remove", "resolve", "provider_test",
                    "secret_set", "secret_remove"}
  PROVE  Effect(c, Page!Answered(ui, c).ui, Page!Answered(ui, c).asks)
<1> DEFINE asks == IF c.cmd \in {"provider_scan", "server_add", "server_remove"}
                   THEN <<Page!Asks("providers", Null)>>
                   ELSE IF c.cmd \in {"secret_set", "secret_remove"}
                   THEN <<Page!Asks("secrets", Null)>> ELSE <<>>
<1>1. Page!Answered(ui, c) = [ui |-> ui, asks |-> asks]
  BY Answering, GoingOn DEF Page!RefreshProviders, Page!RefreshSecrets, Page!Then, Comes
<1>2. AsksWell(asks, ui.format)
  BY AsksDraw, AskFor, AskingWell
<1>3. \A p \in Page!Drawn : ~Draws(c, p)
  BY DrawsWhat DEF DrawnBy, Comes
<1>4. ASSUME NEW p \in Page!Drawn, Redraws(c, p)
      PROVE  \E m \in DOMAIN asks : Draws(asks[m], p) \/ Redraws(asks[m], p)
  <2>1. CASE c.cmd \in {"server_add", "server_remove"}
    <3>1. p \in {"providers", "servers"}
      BY <1>4, <2>1 DEF Redraws, OfPlugin
    <3>2. asks = <<Page!Asks("providers", Null)>> /\ 1 \in DOMAIN asks
      BY <2>1
    <3> HIDE DEF asks
    <3>3. p = "providers" => Draws(Page!Asks("providers", Null), p)
      BY AsksDraw
    <3>4. p = "servers" => Redraws(Page!Asks("providers", Null), p)
      BY DEF Redraws, Page!Asks
    <3>5. asks[1] = Page!Asks("providers", Null)
      BY <3>2
    <3> QED BY <3>1, <3>2, <3>3, <3>4, <3>5
  <2>2. CASE c.cmd \in {"secret_set", "secret_remove"}
    <3>1. p = "secrets"
      BY <1>4, <2>2 DEF Redraws, OfPlugin
    <3>2. asks = <<Page!Asks("secrets", Null)>> /\ 1 \in DOMAIN asks
      BY <2>2
    <3> HIDE DEF asks
    <3>3. asks[1] = Page!Asks("secrets", Null)
      BY <3>2
    <3> QED BY <3>1, <3>2, <3>3, AsksDraw
  <2>3. c.cmd \in {"server_add", "server_remove", "secret_set", "secret_remove"}
    BY <1>4 DEF Redraws, OfPlugin
  <2> QED BY <2>1, <2>2, <2>3
<1> HIDE DEF asks
<1>5. Effect(c, ui, asks)
  BY <1>2, <1>3, <1>4, DrawingNone
<1> QED BY <1>1, <1>5

LEMMA CatalogEffect ==
  ASSUME IsUi(ui), NEW c, Comes(c), c.ok, c.cmd = "plugin_catalog"
  PROVE  Effect(c, Page!Answered(ui, c).ui, Page!Answered(ui, c).asks)
<1> DEFINE v == [ui EXCEPT !.catalog = c.got]
<1>1. Page!Answered(ui, c) = [ui |-> v, asks |-> <<>>]
  BY Answering, GoingOn DEF Page!Then, Comes
<1>2. /\ DOMAIN v = UiFields /\ v.shown = ui.shown /\ v.format = ui.format /\ v.busy = ui.busy
      /\ v.loaded = ui.loaded /\ v.previewed = ui.previewed
  BY DEF IsUi, UiFields
<1> HIDE DEF v
<1>3. IsUi(v)
  BY <1>2 DEF IsUi
<1>4. \A p \in Page!Drawn : ~Draws(c, p)
  BY DrawsWhat DEF DrawnBy, Comes
<1>5. \A p \in Page!Drawn : ~Redraws(c, p)
  BY NothingToRedraw DEF OfPlugin
<1>6. AsksWell(<<>>, ui.format)
  BY AskingWell
<1>7. Effect(c, v, <<>>)
  BY <1>2, <1>3, <1>4, <1>5, <1>6, LessDrawn
<1> QED BY <1>1, <1>7

LEMMA TwoAsks ==
  ASSUME NEW format
  PROVE  LET asks == <<Page!Asks("plugin_catalog", Null), Page!Asks("plugins", "panel")>>
         IN  AsksWell(asks, format) /\ 2 \in DOMAIN asks /\ asks[2] = Page!Asks("plugins", "panel")
<1> DEFINE a == Page!Asks("plugin_catalog", Null)
           b == Page!Asks("plugins", "panel")
<1>1. /\ WellAsked(a) /\ a.stage = "sent" /\ ~a.overtaken /\ a.cmd = "plugin_catalog"
      /\ WellAsked(b) /\ b.stage = "sent" /\ ~b.overtaken /\ b.cmd = "plugins"
  BY AsksDraw, AskIsWell
<1> HIDE DEF a, b
<1>2. LET s == <<a, b>> IN s \in Seq(ToSet(s)) /\ DOMAIN s = {1, 2} /\ s[1] = a /\ s[2] = b
  BY FewCalls
<1>3. AsksWell(<<a, b>>, format)
  BY <1>1, <1>2 DEF AsksWell
<1> QED BY <1>2, <1>3 DEF a, b

LEMMA PluginCommandEffect ==
  ASSUME IsUi(ui), NEW c, Comes(c), c.ok, c.cmd \in OfPlugin
  PROVE  Effect(c, Page!Answered(ui, c).ui, Page!Answered(ui, c).asks)
<1>1. c.arg \in {"card", "catalog"}
  BY DEF Comes, WellAsked
<1>2. \A p \in Page!Drawn : ~Draws(c, p)
  BY DrawsWhat DEF DrawnBy, Comes, OfPlugin
<1>3. \A p \in Page!Drawn : Redraws(c, p) => p \in {"plugins", "badge"}
  BY DEF Redraws, OfPlugin
<1>4. \A p \in {"plugins", "badge"} : Draws(Page!Asks("plugins", "panel"), p)
  BY AsksDraw
<1>5. CASE c.arg = "card"
  <2> DEFINE asks == <<Page!Asks("plugins", "panel")>>
  <2>1. Page!Answered(ui, c) = [ui |-> ui, asks |-> asks]
    <3>1. Page!Answered(ui, c) = Page!PluginButtonAnswered(ui, c)
      BY <1>5, Answering, GoingOn DEF Comes, OfPlugin
    <3> QED BY <3>1 DEF Page!PluginButtonAnswered, Page!RefreshPlugins, Page!Then
  <2>2. AsksWell(asks, ui.format)
    BY AsksDraw, AskFor
  <2>3. 1 \in DOMAIN asks /\ asks[1] = Page!Asks("plugins", "panel")
    OBVIOUS
  <2> HIDE DEF asks
  <2>4. Effect(c, ui, asks)
    BY <1>2, <1>3, <1>4, <2>2, <2>3, DrawingNone
  <2> QED BY <2>1, <2>4
<1>6. CASE c.arg = "catalog"
  <2> DEFINE asks == <<Page!Asks("plugin_catalog", Null), Page!Asks("plugins", "panel")>>
             v == IF c.cmd = "plugin_install" THEN Page!SelectTab(ui, "tabInstalled").ui ELSE ui
  <2>1. Page!Answered(ui, c) = [ui |-> v, asks |-> asks]
    <3>1. Page!Answered(ui, c) = Page!CatalogButtonAnswered(ui, c)
      BY <1>6, Answering, GoingOn DEF Comes, OfPlugin
    <3> QED BY <3>1 DEF Page!CatalogButtonAnswered, Page!Then
  <2>2. AsksWell(asks, ui.format) /\ 2 \in DOMAIN asks /\ asks[2] = Page!Asks("plugins", "panel")
    BY TwoAsks
  <2> HIDE DEF asks
  <2>3. v \in {ui, [ui EXCEPT !.tab = "tabInstalled"]}
    BY DEF Page!SelectTab, Page!Then, Page!RefreshSecrets
  <2> HIDE DEF v
  <2>4. /\ DOMAIN v = UiFields /\ v.shown = ui.shown /\ v.format = ui.format /\ v.busy = ui.busy
        /\ v.loaded = ui.loaded /\ v.previewed = ui.previewed
    BY <2>3 DEF IsUi, UiFields
  <2>5. IsUi(v)
    BY <2>4 DEF IsUi
  <2>6. Effect(c, v, asks)
    BY <1>2, <1>3, <1>4, <2>2, <2>4, <2>5, LessDrawn
  <2> QED BY <2>1, <2>6
<1> QED BY <1>1, <1>5, <1>6

(* A failure shows nothing, and what it was to draw is marked.             *)
LEMMA FailureEffect ==
  ASSUME IsUi(ui), NEW c, Comes(c), ~c.ok,
         c.cmd \notin {"theme_active", "environment", "queue", "anchor", "providers", "plugins"}
  PROVE  Effect(c, Page!Answered(ui, c).ui, Page!Answered(ui, c).asks)
<1>1. Page!Answered(ui, c) = [ui |-> ui, asks |-> <<>>]
  BY Answering DEF Page!Then, Comes
<1>2. \A p \in Page!Drawn : ~Redraws(c, p)
  BY DEF Redraws
<1>3. AsksWell(<<>>, ui.format)
  BY AskingWell
<1>4. Effect(c, ui, <<>>)
  BY <1>2, <1>3, DrawingNone
<1> QED BY <1>1, <1>4

LEMMA AnswerEffect ==
  ASSUME IsUi(ui), NEW c, Comes(c)
  PROVE  Effect(c, Page!Answered(ui, c).ui, Page!Answered(ui, c).asks)
<1>1. c.cmd \in Page!Commands
  BY DEF Comes, WellAsked
<1>2. c.cmd \in {"theme_active", "environment", "queue", "anchor", "providers", "plugins",
                 "servers_list", "secrets", "themes_list", "stats", "sleeve_svg", "plugin_catalog",
                 "theme_select", "import", "provider_scan", "server_add", "server_remove", "resolve",
                 "provider_test", "secret_set", "secret_remove"} \cup OfPlugin
  BY <1>1 DEF Page!Commands, Page!Reads, Page!Changes, Page!Other, OfPlugin
<1>3. CASE c.cmd \in {"theme_active", "environment", "queue", "anchor", "providers", "plugins",
                      "theme_select"}
  BY <1>3, BootEffect, ProvidersEffect, PluginsEffect, ThemeEffect
<1>4. CASE c.cmd \in {"servers_list", "secrets", "themes_list"}
  BY <1>4, PlainEffect
<1>5. CASE c.cmd \in {"stats", "sleeve_svg"} /\ c.ok
  BY <1>5, MarkedEffect
<1>6. CASE c.cmd \in {"plugin_catalog", "import", "provider_scan", "server_add", "server_remove",
                      "resolve", "provider_test", "secret_set", "secret_remove"} /\ c.ok
  BY <1>6, CatalogEffect, ImportEffect, AskingEffect
<1>7. CASE c.cmd \in OfPlugin /\ c.ok
  BY <1>7, PluginCommandEffect
<1>8. CASE ~c.ok /\ c.cmd \notin {"theme_active", "environment", "queue", "anchor", "providers", "plugins"}
  BY <1>8, FailureEffect
<1> QED BY <1>2, <1>3, <1>4, <1>5, <1>6, <1>7, <1>8

(* An answer comes.  What it draws is right unless it is marked, and what  *)
(* it does not draw but has made old is asked for.                         *)
LEMMA PanelAnswerKeeps ==
  ASSUME PanelsInv, Page!AnswerComes
  PROVE  PanelsInv'
<1> USE DEF PanelsInv
<1>1. PICK i \in DOMAIN sent :
        /\ sent[i].stage = "done"
        /\ Page!Performs(Page!Answered(ui, sent[i]), Page!RemoveAt(sent, i))
        /\ stale' = IF sent[i].cmd \notin DOMAIN Page!Reads \cup {"theme_select"} THEN stale
                    ELSE IF sent[i].overtaken \/ ~sent[i].ok
                      THEN [stale EXCEPT !.late = @ \cup Page!PanelsOf(sent[i])]
                    ELSE [stale EXCEPT !.late = @ \ Page!PanelsOf(sent[i])]
  BY DEF Page!AnswerComes
<1>2. disk' = disk /\ notices' = notices
  BY DEF Page!AnswerComes
<1>3. PICK c : c = sent[i]
  OBVIOUS
<1>4. PICK asks : asks = Page!Answered(ui, c).asks
  OBVIOUS
<1>5. ui' = Page!Answered(ui, c).ui /\ sent' = Page!RemoveAt(sent, i) \o asks
  BY <1>1, <1>3, <1>4 DEF Page!Performs
<1>6. Comes(c)
  BY <1>1, <1>3 DEF Comes, AnswersFit, PanelShapes
<1>7. Effect(c, ui', asks)
  BY <1>4, <1>5, <1>6, AnswerEffect DEF PanelShapes
<1>8. AsksWell(asks, ui.format) /\ ui'.format = ui.format /\ ui'.busy = ui.busy /\ IsUi(ui')
  BY <1>7 DEF Effect
<1>9. /\ sent' \in Seq(ToSet(sent'))
      /\ \A j \in DOMAIN sent : j # i => \E k \in DOMAIN sent' : sent'[k] = sent[j]
      /\ \A m \in DOMAIN asks : \E k \in DOMAIN sent' : sent'[k] = asks[m]
      /\ \A k \in DOMAIN sent' : \/ \E j \in DOMAIN sent : j # i /\ sent'[k] = sent[j]
                                 \/ \E m \in DOMAIN asks : sent'[k] = asks[m]
  <2>1. sent \in Seq(ToSet(sent)) /\ asks \in Seq(ToSet(asks)) /\ i \in DOMAIN sent
    BY <1>8 DEF PanelShapes, AsksWell
  <2>2. TakesOut(sent, i, asks, sent')
    BY <2>1, <1>5, TakenOut
  <2> QED BY <2>2 DEF TakesOut
<1>10. /\ DOMAIN stale' = {"late", "broken"} /\ stale'.broken = stale.broken
       /\ \A p : Draws(c, p) /\ (c.overtaken \/ ~c.ok) => p \in stale'.late
       /\ \A p : ~Draws(c, p) /\ p \in stale.late => p \in stale'.late
  <2>1. DOMAIN stale = {"late", "broken"}
    BY DEF PanelShapes
  <2>2. CASE c.cmd \notin DOMAIN Page!Reads \cup {"theme_select"}
    BY <1>1, <1>3, <2>1, <2>2 DEF Draws
  <2>3. CASE c.cmd \in DOMAIN Page!Reads \cup {"theme_select"}
    <3>1. \A p : Draws(c, p) <=> p \in Page!PanelsOf(c)
      BY <2>3 DEF Draws
    <3>2. stale' = IF c.overtaken \/ ~c.ok THEN [stale EXCEPT !.late = @ \cup Page!PanelsOf(c)]
                   ELSE [stale EXCEPT !.late = @ \ Page!PanelsOf(c)]
      BY <1>1, <1>3, <2>3
    <3> QED BY <2>1, <3>1, <3>2
  <2> QED BY <2>2, <2>3
<1>11. PanelShapes'
  <2>1. \A k \in DOMAIN sent' : WellAsked(sent'[k])
    BY <1>8, <1>9 DEF PanelShapes, AsksWell
  <2> QED BY <1>2, <1>8, <1>9, <1>10, <2>1 DEF PanelShapes
<1>12. ASSUME NEW p \in Page!Drawn
       PROVE  p \in stale'.late \cup stale'.broken \/ Fits(ui', disk', p) \/ DrawingComes(p)'
  <2>1. CASE Draws(c, p)
    BY <1>2, <1>7, <1>10, <2>1 DEF Effect
  <2>2. CASE ~Draws(c, p)
    <3>1. CASE p \in stale.late \cup stale.broken
      BY <1>10, <2>2, <3>1
    <3>2. CASE Fits(ui, disk, p)
      BY <1>2, <1>7, <2>2, <3>2 DEF Effect
    <3>3. ASSUME NEW j \in DOMAIN sent, Draws(sent[j], p) \/ Redraws(sent[j], p)
          PROVE  Fits(ui', disk', p) \/ DrawingComes(p)'
      <4>1. CASE j # i
        BY <1>9, <3>3, <4>1 DEF DrawingComes
      <4>2. CASE j = i
        <5>1. Redraws(c, p)
          BY <1>3, <2>2, <3>3, <4>2
        <5>2. Fits(ui', disk, p) \/ \E m \in DOMAIN asks : Draws(asks[m], p) \/ Redraws(asks[m], p)
          BY <1>7, <5>1 DEF Effect
        <5> QED BY <1>2, <1>9, <5>2 DEF DrawingComes
      <4> QED BY <4>1, <4>2
    <3>4. CASE p \in {"stats", "sleeve"} /\ \E k \in DOMAIN notices : notices[k].grew
      BY <1>2, <3>4 DEF DrawingComes
    <3> QED BY <3>1, <3>2, <3>3, <3>4 DEF Drawing, DrawingComes
  <2> QED BY <2>1, <2>2
<1>13. RegistryFits'
  BY <1>2, <1>10 DEF RegistryFits
<1>14. AnswersFit'
  <2>1. ASSUME NEW k \in DOMAIN sent', sent'[k].stage = "done", sent'[k].ok, ~sent'[k].overtaken
        PROVE  Current(sent[k])'
    <3>1. PICK j \in DOMAIN sent : sent'[k] = sent[j]
      BY <1>8, <1>9, <2>1 DEF AsksWell
    <3>2. Current(sent[j])
      BY <2>1, <3>1 DEF AnswersFit
    <3> QED BY <1>2, <1>10, <3>1, <3>2 DEF Current
  <2>2. ASSUME NEW k \in DOMAIN sent', sent'[k].cmd = "sleeve_svg", ~sent'[k].overtaken
        PROVE  sent'[k].arg = ui'.format
    BY <1>8, <1>9, <2>2 DEF AsksWell, AnswersFit
  <2> QED BY <2>1, <2>2 DEF AnswersFit
<1>15. BusyEnds'
  <2>1. Page!Idle' => Page!Idle
    BY <1>1, <1>9 DEF Page!Idle
  <2> QED BY <1>2, <1>8, <2>1 DEF BusyEnds
<1>16. Drawing'
  BY <1>12 DEF Drawing
<1> QED BY <1>11, <1>13, <1>14, <1>15, <1>16

(* What a gesture may do to the page: nothing that is drawn changes, and a *)
(* card in another format is asked for if there is one.                    *)
Gestured(d) ==
  /\ IsUi(d.ui) /\ d.ui.shown = ui.shown
  /\ d.ui.loaded = ui.loaded /\ d.ui.previewed = ui.previewed /\ d.ui.busy = ui.busy
  /\ AsksWell(d.asks, d.ui.format)
  /\ \/ d.ui.format = ui.format \/ ~ui.previewed
     \/ \E m \in DOMAIN d.asks : d.asks[m].cmd = "sleeve_svg"

SamePage(u) ==
  /\ IsUi(u) /\ u.shown = ui.shown /\ u.format = ui.format
  /\ u.loaded = ui.loaded /\ u.previewed = ui.previewed /\ u.busy = ui.busy

LEMMA AskedOne ==
  ASSUME NEW u, SamePage(u), NEW cmd, NEW arg, Wants(cmd, arg), cmd = "sleeve_svg" => arg = ui.format
  PROVE  Gestured(Page!Then(u, <<Page!Asks(cmd, arg)>>))
<1> DEFINE a == <<Page!Asks(cmd, arg)>>
           d == Page!Then(u, a)
<1>1. AsksWell(a, u.format)
  BY AskOne DEF SamePage
<1> HIDE DEF a
<1>2. d.ui = u /\ d.asks = a
  BY DEF Page!Then
<1> HIDE DEF d
<1>3. Gestured(d)
  BY <1>1, <1>2 DEF Gestured, SamePage
<1> QED BY <1>3 DEF d, a

LEMMA AskedNone ==
  ASSUME NEW u, SamePage(u)
  PROVE  Gestured(Page!Then(u, <<>>))
<1> DEFINE d == Page!Then(u, <<>>)
<1>1. d.ui = u /\ d.asks = <<>> /\ AsksWell(<<>>, u.format)
  BY AskingWell DEF Page!Then
<1> HIDE DEF d
<1>2. Gestured(d)
  BY <1>1 DEF Gestured, SamePage
<1> QED BY <1>2 DEF d

(* The commands a gesture sends, as they are sent.                         *)
LEMMA GesturesWant ==
  /\ \A y : Wants("stats", y) <=> y \notin {"card", "catalog"}
  /\ \A f \in Page!Formats : Wants("sleeve_svg", f)
  /\ \A cmd \in {"providers", "themes_list", "secrets", "plugin_catalog", "import", "resolve",
                 "provider_test", "provider_scan", "server_add", "server_remove", "secret_set",
                 "secret_remove"} : Wants(cmd, Null)
  /\ Wants("plugins", "panel")
  /\ \A cmd \in OfPlugin : Wants(cmd, "card") /\ Wants(cmd, "catalog")
  /\ \A t \in Themes : Wants("theme_select", t)
<1>1. \A y : Wants("stats", y) <=> y \notin {"card", "catalog"}
  BY DEF Wants, Page!Commands, Page!Reads, OfPlugin
<1>2. \A f \in Page!Formats : Wants("sleeve_svg", f)
  BY DEF Wants, Page!Commands, Page!Reads, Page!Formats, OfPlugin
<1>3. \A cmd \in {"providers", "themes_list", "secrets", "plugin_catalog"} : Wants(cmd, Null)
  BY PanelsAssumption DEF Wants, Page!Commands, Page!Reads, OfPlugin
<1>4. \A cmd \in {"import", "resolve", "provider_test", "provider_scan", "server_add",
                  "server_remove", "secret_set", "secret_remove"} : Wants(cmd, Null)
  BY PanelsAssumption DEF Wants, Page!Commands, Page!Changes, Page!Other, OfPlugin
<1>5. Wants("plugins", "panel")
  BY DEF Wants, Page!Commands, Page!Reads, OfPlugin
<1>6. \A cmd \in OfPlugin : Wants(cmd, "card") /\ Wants(cmd, "catalog")
  BY DEF Wants, Page!Commands, Page!Changes, OfPlugin
<1>7. \A t \in Themes : Wants("theme_select", t)
  BY PanelsAssumption DEF Wants, Page!Commands, Page!Changes, OfPlugin, Themes
<1> QED BY <1>1, <1>2, <1>3, <1>4, <1>5, <1>6, <1>7

LEMMA OpenedWell ==
  ASSUME NEW u, SamePage(u), NEW panel
  PROVE  Gestured(Page!OpenPanel(u, panel))
<1> DEFINE v == [u EXCEPT !.base = panel]
<1>1. SamePage(v)
  BY DEF SamePage, IsUi, UiFields
<1>2. Page!OpenPanel(u, panel) = Page!OnOpen(v, panel)
  BY DEF Page!OpenPanel
<1> HIDE DEF v
<1>3. /\ panel = "stats" => Page!OnOpen(v, panel) =
           IF v.loaded THEN Page!Then(v, <<>>) ELSE Page!Then(v, <<Page!Asks("stats", Null)>>)
      /\ panel = "sleeve" => Page!OnOpen(v, panel) =
           IF v.previewed THEN Page!Then(v, <<>>) ELSE Page!Then(v, <<Page!Asks("sleeve_svg", v.format)>>)
      /\ panel = "providers" => Page!OnOpen(v, panel) = Page!Then(v, <<Page!Asks("providers", Null)>>)
      /\ panel = "plugins" => Page!OnOpen(v, panel) = Page!Then(v, <<Page!Asks("plugins", "panel")>>)
      /\ panel = "theme" => Page!OnOpen(v, panel) = Page!Then(v, <<Page!Asks("themes_list", Null)>>)
      /\ panel \notin {"stats", "sleeve", "providers", "plugins", "theme"} =>
           Page!OnOpen(v, panel) = Page!Then(v, <<>>)
  BY DEF Page!OnOpen, Page!RunStats, Page!PreviewSleeve, Page!RefreshProviders, Page!RefreshPlugins,
         Page!RefreshThemes
<1>4. Gestured(Page!Then(v, <<>>))
  BY <1>1, AskedNone
<1>5. Gestured(Page!Then(v, <<Page!Asks("stats", Null)>>))
  BY <1>1, GesturesWant, PanelsAssumption, AskedOne
<1>6. Gestured(Page!Then(v, <<Page!Asks("sleeve_svg", v.format)>>))
  <2>1. v.format = ui.format /\ Wants("sleeve_svg", v.format)
    BY <1>1, GesturesWant DEF SamePage, IsUi
  <2> QED BY <1>1, <2>1, AskedOne
<1>7. /\ Gestured(Page!Then(v, <<Page!Asks("providers", Null)>>))
      /\ Gestured(Page!Then(v, <<Page!Asks("themes_list", Null)>>))
      /\ Gestured(Page!Then(v, <<Page!Asks("plugins", "panel")>>))
  BY <1>1, GesturesWant, AskedOne
<1> QED BY <1>2, <1>3, <1>4, <1>5, <1>6, <1>7

LEMMA ChosenWell ==
  ASSUME IsUi(ui), NEW f \in Page!Formats
  PROVE  Gestured(Page!ChooseFormat(ui, f))
<1> DEFINE v == [ui EXCEPT !.format = f]
           a == <<Page!Asks("sleeve_svg", f)>>
<1>1. /\ IsUi(v) /\ v.shown = ui.shown /\ v.loaded = ui.loaded /\ v.previewed = ui.previewed
      /\ v.busy = ui.busy /\ v.format = f
  BY DEF IsUi, UiFields
<1>2. Page!ChooseFormat(ui, f) = IF ui.previewed THEN Page!Then(v, a) ELSE Page!Then(v, <<>>)
  BY <1>1 DEF Page!ChooseFormat, Page!PreviewSleeve
<1> HIDE DEF v
<1>3. AsksWell(a, f) /\ 1 \in DOMAIN a /\ a[1].cmd = "sleeve_svg" /\ AsksWell(<<>>, f)
  <2>1. Wants("sleeve_svg", f)
    BY GesturesWant
  <2> QED BY <2>1, AskingWell
<1> HIDE DEF a
<1>4. CASE ui.previewed
  <2> DEFINE d == Page!Then(v, a)
  <2>1. d.ui = v /\ d.asks = a
    BY DEF Page!Then
  <2> HIDE DEF d
  <2>2. Gestured(d)
    BY <1>1, <1>3, <2>1 DEF Gestured
  <2> QED BY <1>2, <1>4, <2>2 DEF d
<1>5. CASE ~ui.previewed
  <2> DEFINE d == Page!Then(v, <<>>)
  <2>1. d.ui = v /\ d.asks = <<>>
    BY DEF Page!Then
  <2> HIDE DEF d
  <2>2. Gestured(d)
    BY <1>1, <1>3, <1>5, <2>1 DEF Gestured
  <2> QED BY <1>2, <1>5, <2>2 DEF d
<1> QED BY <1>4, <1>5

LEMMA TabWell ==
  ASSUME IsUi(ui), NEW tab
  PROVE  Gestured(Page!SelectTab(ui, tab))
<1> DEFINE v == [ui EXCEPT !.tab = tab]
<1>1. SamePage(v) /\ SamePage(ui)
  BY DEF SamePage, IsUi, UiFields
<1>2. Page!SelectTab(ui, tab) = IF tab = ui.tab THEN Page!Then(ui, <<>>)
                                ELSE IF tab = "tabSecrets" THEN Page!Then(v, <<Page!Asks("secrets", Null)>>)
                                ELSE Page!Then(v, <<>>)
  BY DEF Page!SelectTab, Page!RefreshSecrets
<1> HIDE DEF v
<1>3. Gestured(Page!Then(v, <<>>)) /\ Gestured(Page!Then(ui, <<>>))
  BY <1>1, AskedNone
<1>4. Gestured(Page!Then(v, <<Page!Asks("secrets", Null)>>))
  BY <1>1, GesturesWant, AskedOne
<1> QED BY <1>2, <1>3, <1>4

LEMMA PressedWell ==
  ASSUME IsUi(ui), NEW cmd, NEW arg, Wants(cmd, arg), cmd # "sleeve_svg"
  PROVE  Gestured(Page!Then(ui, <<Page!Asks(cmd, arg)>>))
<1>1. SamePage(ui)
  BY DEF SamePage
<1> QED BY <1>1, AskedOne

LEMMA GesturesAreWell ==
  ASSUME IsUi(ui), NEW d \in Page!Gestures(ui)
  PROVE  Gestured(d)
<1> DEFINE press(cmds, arg) == {Page!Then(ui, <<Page!Asks(cmd, arg)>>) : cmd \in cmds}
           Pressed(cmds, arg) == d \in press(cmds, arg)
<1>1. ASSUME NEW cmds, NEW arg, Pressed(cmds, arg), \A cmd \in cmds : Wants(cmd, arg) /\ cmd # "sleeve_svg"
      PROVE  Gestured(d)
  BY <1>1, PressedWell
<1>2. \/ \E p : d = Page!OpenPanel(ui, p)
      \/ \E t : d = Page!SelectTab(ui, t)
      \/ \E y \in {Null, "year"} : d = Page!RunStats(ui, y)
      \/ d = Page!PreviewSleeve(ui)
      \/ \E f \in Page!Formats : d = Page!ChooseFormat(ui, f)
      \/ Pressed({"import", "resolve"}, Null)
      \/ Pressed({"provider_test", "provider_scan", "server_add"}, Null)
      \/ Pressed({"server_remove"}, Null)
      \/ Pressed(Page!Offers(ui.shown.plugins), "card")
      \/ d = Page!RefreshCatalog(ui)
      \/ Pressed({"plugin_update"}, "catalog") \/ Pressed({"plugin_install"}, "catalog")
      \/ Pressed({"secret_set"}, Null) \/ Pressed({"secret_remove"}, Null)
      \/ /\ ui.shown.themes # Null
         /\ \E t \in ui.shown.themes.themes : Pressed({"theme_select"}, t)
  <2>1. CASE ui.base \in {"stats", "sleeve", "import"}
    BY <2>1 DEF Page!Gestures
  <2>2. CASE ui.base = "providers"
    BY <2>2 DEF Page!Gestures
  <2>3. CASE ui.base = "plugins"
    <3>1. CASE ui.tab = "tabInstalled"
      BY <2>3, <3>1 DEF Page!Gestures
    <3>2. CASE ui.tab = "tabCatalog"
      BY <2>3, <3>2 DEF Page!Gestures
    <3>3. CASE ui.tab = "tabSecrets"
      BY <2>3, <3>3 DEF Page!Gestures
    <3>4. CASE ui.tab \notin {"tabInstalled", "tabCatalog", "tabSecrets"}
      BY <2>3, <3>4 DEF Page!Gestures
    <3> QED BY <3>1, <3>2, <3>3, <3>4
  <2>4. CASE ui.base = "theme"
    BY <2>4 DEF Page!Gestures
  <2>5. CASE ui.base \notin {"stats", "sleeve", "import", "providers", "plugins", "theme"}
    BY <2>5 DEF Page!Gestures
  <2> QED BY <2>1, <2>2, <2>3, <2>4, <2>5
<1> HIDE DEF Pressed
<1>3. ASSUME NEW p, d = Page!OpenPanel(ui, p) PROVE Gestured(d)
  <2>1. SamePage(ui)
    BY DEF SamePage
  <2> QED BY <1>3, <2>1, OpenedWell
<1>4. ASSUME NEW t, d = Page!SelectTab(ui, t) PROVE Gestured(d)
  BY <1>4, TabWell
<1>5. ASSUME NEW y \in {Null, "year"}, d = Page!RunStats(ui, y) PROVE Gestured(d)
  <2>1. Wants("stats", y)
    BY GesturesWant, PanelsAssumption
  <2> QED BY <1>5, <2>1, PressedWell DEF Page!RunStats
<1>6. CASE d = Page!PreviewSleeve(ui)
  <2>1. SamePage(ui) /\ Wants("sleeve_svg", ui.format)
    BY GesturesWant DEF SamePage, IsUi
  <2> QED BY <1>6, <2>1, AskedOne DEF Page!PreviewSleeve
<1>7. ASSUME NEW f \in Page!Formats, d = Page!ChooseFormat(ui, f) PROVE Gestured(d)
  BY <1>7, ChosenWell
<1>8. CASE \/ Pressed({"import", "resolve"}, Null)
           \/ Pressed({"provider_test", "provider_scan", "server_add"}, Null)
           \/ Pressed({"server_remove"}, Null)
           \/ Pressed({"secret_set"}, Null) \/ Pressed({"secret_remove"}, Null)
  BY <1>1, <1>8, GesturesWant
<1>9. CASE \/ Pressed(Page!Offers(ui.shown.plugins), "card")
           \/ Pressed({"plugin_update"}, "catalog") \/ Pressed({"plugin_install"}, "catalog")
  <2>1. Page!Offers(ui.shown.plugins) \subseteq OfPlugin
    BY DEF Page!Offers, OfPlugin
  <2>2. "plugin_update" \in OfPlugin /\ "plugin_install" \in OfPlugin /\ "sleeve_svg" \notin OfPlugin
    BY DEF OfPlugin
  <2> QED BY <1>1, <1>9, <2>1, <2>2, GesturesWant
<1>10. CASE d = Page!RefreshCatalog(ui)
  BY <1>10, GesturesWant, PressedWell DEF Page!RefreshCatalog
<1>11. CASE /\ ui.shown.themes # Null
            /\ \E t \in ui.shown.themes.themes : Pressed({"theme_select"}, t)
  <2>1. ui.shown.themes.themes \subseteq Themes
    BY <1>11 DEF IsUi
  <2> QED BY <1>1, <1>11, <2>1, GesturesWant
<1> QED BY <1>2, <1>3, <1>4, <1>5, <1>6, <1>7, <1>8, <1>9, <1>10, <1>11

(* Calls of which some are marked as overtaken, and nothing else.          *)
Marked(s, t) ==
  /\ t \in Seq(ToSet(t)) /\ DOMAIN t = DOMAIN s
  /\ \A i \in DOMAIN s :
       /\ WellAsked(t[i])
       /\ t[i].cmd = s[i].cmd /\ t[i].arg = s[i].arg /\ t[i].stage = s[i].stage
       /\ t[i].ok = s[i].ok /\ t[i].got = s[i].got
       /\ t[i] = s[i] \/ t[i].overtaken

FunctionOn(t, D) == t = [i \in D |-> t[i]]

LEMMA MarkingOnly ==
  ASSUME NEW s, s \in Seq(ToSet(s)), \A i \in DOMAIN s : WellAsked(s[i]),
         NEW t, FunctionOn(t, DOMAIN s),
         \A i \in DOMAIN s : t[i] = s[i] \/ t[i] = [s[i] EXCEPT !.overtaken = TRUE]
  PROVE  Marked(s, t)
<1>1. DOMAIN t = DOMAIN s /\ t = [i \in DOMAIN s |-> t[i]]
  BY DEF FunctionOn
<1>2. Len(s) \in Nat /\ DOMAIN s = 1..Len(s)
  BY LenProperties
<1>3. t \in Seq(ToSet(t))
  <2>1. \A i \in 1..Len(s) : t[i] \in ToSet(t)
    BY <1>1, <1>2 DEF ToSet
  <2>2. t = [i \in 1..Len(s) |-> t[i]]
    BY <1>1, <1>2
  <2> QED BY <1>2, <2>1, <2>2, IsASeq
<1>4. ASSUME NEW i \in DOMAIN s
      PROVE  /\ WellAsked(t[i])
             /\ t[i].cmd = s[i].cmd /\ t[i].arg = s[i].arg /\ t[i].stage = s[i].stage
             /\ t[i].ok = s[i].ok /\ t[i].got = s[i].got
             /\ t[i] = s[i] \/ t[i].overtaken
  <2>1. PICK c : c = s[i]
    OBVIOUS
  <2>2. PICK e : e = t[i]
    OBVIOUS
  <2>3. WellAsked(c) /\ (e = c \/ e = [c EXCEPT !.overtaken = TRUE])
    BY <2>1, <2>2
  <2>4. /\ WellAsked(e)
        /\ e.cmd = c.cmd /\ e.arg = c.arg /\ e.stage = c.stage
        /\ e.ok = c.ok /\ e.got = c.got
        /\ e = c \/ e.overtaken
    BY ONLY <2>3 DEF WellAsked, SentFields
  <2> QED BY <2>1, <2>2, <2>4
<1> QED BY <1>1, <1>3, <1>4 DEF Marked

LEMMA MarkedDraws ==
  ASSUME NEW s, NEW t, Marked(s, t), NEW i \in DOMAIN s, NEW p
  PROVE  /\ Draws(s[i], p) <=> Draws(t[i], p)
         /\ Redraws(s[i], p) <=> Redraws(t[i], p)
  BY DEF Marked, Draws, Redraws, Page!PanelsOf

LEMMA PanelGestureKeeps ==
  ASSUME PanelsInv, Page!Gesture
  PROVE  PanelsInv'
<1> USE DEF PanelsInv
<1> DEFINE marks == [i \in DOMAIN sent |->
                       IF sent[i].cmd = "sleeve_svg" THEN [sent[i] EXCEPT !.overtaken = TRUE] ELSE sent[i]]
<1>1. PICK d \in Page!Gestures(ui) :
        Page!Performs(d, IF d.ui.format = ui.format THEN sent ELSE marks)
  BY DEF Page!Gesture
<1>2. disk' = disk /\ notices' = notices /\ stale' = stale
  BY DEF Page!Gesture
<1>3. Gestured(d)
  BY GesturesAreWell DEF PanelShapes
<1>4. PICK under : under = IF d.ui.format = ui.format THEN sent ELSE marks
  OBVIOUS
<1>5. ui' = d.ui /\ sent' = under \o d.asks
  BY <1>1, <1>4 DEF Page!Performs
<1>6. PICK asks : asks = d.asks
  OBVIOUS
<1>7. sent \in Seq(ToSet(sent)) /\ \A i \in DOMAIN sent : WellAsked(sent[i])
  BY DEF PanelShapes
<1>8. Marked(sent, under) /\ (d.ui.format # ui.format =>
        \A i \in DOMAIN sent : sent[i].cmd = "sleeve_svg" => under[i].overtaken)
  <2>1. CASE d.ui.format = ui.format
    <3>1. under = sent
      BY <1>4, <2>1
    <3> QED BY <1>7, <2>1, <3>1 DEF Marked
  <2>2. CASE d.ui.format # ui.format
    <3>1. under = marks
      BY <1>4, <2>2
    <3>2. Marked(sent, under)
      <4>1. FunctionOn(under, DOMAIN sent)
        BY <3>1 DEF FunctionOn
      <4>2. \A i \in DOMAIN sent : under[i] = sent[i] \/ under[i] = [sent[i] EXCEPT !.overtaken = TRUE]
        BY <3>1
      <4> HIDE DEF marks
      <4> QED BY <1>7, <4>1, <4>2, MarkingOnly
    <3>3. ASSUME NEW i \in DOMAIN sent, sent[i].cmd = "sleeve_svg" PROVE under[i].overtaken
      <4>1. under[i] = [sent[i] EXCEPT !.overtaken = TRUE]
        BY <3>1, <3>3
      <4>2. DOMAIN sent[i] = SentFields
        BY <1>7 DEF WellAsked
      <4> QED BY <4>1, <4>2 DEF SentFields
    <3> QED BY <3>2, <3>3
  <2> QED BY <2>1, <2>2
<1> HIDE DEF marks
<1>9. AsksWell(asks, ui'.format) /\ IsUi(ui') /\ ui'.shown = ui.shown
      /\ ui'.loaded = ui.loaded /\ ui'.previewed = ui.previewed /\ ui'.busy = ui.busy
      /\ \/ ui'.format = ui.format \/ ~ui.previewed
         \/ \E m \in DOMAIN asks : asks[m].cmd = "sleeve_svg"
  BY <1>3, <1>5, <1>6 DEF Gestured
<1>10. /\ sent' \in Seq(ToSet(sent'))
       /\ \A j \in DOMAIN sent : j \in DOMAIN sent' /\ sent'[j] = under[j]
       /\ \A m \in DOMAIN asks : \E k \in DOMAIN sent' : sent'[k] = asks[m]
       /\ \A k \in DOMAIN sent' : \/ \E j \in DOMAIN sent : sent'[k] = under[j]
                                  \/ \E m \in DOMAIN asks : sent'[k] = asks[m]
  <2>1. under \in Seq(ToSet(under)) /\ asks \in Seq(ToSet(asks)) /\ DOMAIN under = DOMAIN sent
    BY <1>8, <1>9 DEF Marked, AsksWell
  <2>2. OneBehind(under, asks, sent')
    BY <2>1, <1>5, <1>6, PutBehind
  <2> QED BY <2>1, <2>2 DEF OneBehind
<1>11. PanelShapes'
  <2>1. \A k \in DOMAIN sent' : WellAsked(sent'[k])
    BY <1>8, <1>9, <1>10 DEF Marked, AsksWell
  <2> QED BY <1>2, <1>9, <1>10, <2>1 DEF PanelShapes
<1>12. ASSUME NEW p \in Page!Drawn
       PROVE  p \in stale'.late \cup stale'.broken \/ Fits(ui', disk', p) \/ DrawingComes(p)'
  <2>1. CASE Fits(ui, disk, p)
    <3>1. CASE ui'.format = ui.format \/ ~ui.previewed \/ p # "sleeve"
      BY <1>2, <1>9, <2>1, <3>1 DEF Fits
    <3>2. ASSUME NEW m \in DOMAIN asks, asks[m].cmd = "sleeve_svg", p = "sleeve"
          PROVE  DrawingComes(p)'
      <4>1. Draws(asks[m], p)
        BY <1>9, <3>2, DrawsWhat DEF DrawnBy, AsksWell
      <4> QED BY <1>10, <4>1 DEF DrawingComes
    <3> QED BY <1>9, <3>1, <3>2
  <2>2. ASSUME NEW j \in DOMAIN sent, Draws(sent[j], p) \/ Redraws(sent[j], p)
        PROVE  DrawingComes(p)'
    <3>1. Draws(under[j], p) \/ Redraws(under[j], p)
      BY <1>8, <2>2, MarkedDraws
    <3> QED BY <1>10, <3>1 DEF DrawingComes
  <2>3. CASE p \in {"stats", "sleeve"} /\ \E k \in DOMAIN notices : notices[k].grew
    BY <1>2, <2>3 DEF DrawingComes
  <2> QED BY <1>2, <2>1, <2>2, <2>3 DEF Drawing, DrawingComes
<1>13. RegistryFits'
  BY <1>2 DEF RegistryFits
<1>14. AnswersFit'
  <2>1. ASSUME NEW k \in DOMAIN sent', sent'[k].stage = "done", sent'[k].ok, ~sent'[k].overtaken
        PROVE  Current(sent[k])'
    <3>1. PICK j \in DOMAIN sent : sent'[k] = under[j]
      BY <1>9, <1>10, <2>1 DEF AsksWell
    <3>2. under[j] = sent[j]
      BY <1>8, <2>1, <3>1 DEF Marked
    <3>3. Current(sent[j])
      BY <2>1, <3>1, <3>2 DEF AnswersFit
    <3> QED BY <1>2, <3>1, <3>2, <3>3 DEF Current
  <2>2. ASSUME NEW k \in DOMAIN sent', sent'[k].cmd = "sleeve_svg", ~sent'[k].overtaken
        PROVE  sent'[k].arg = ui'.format
    <3>1. ASSUME NEW j \in DOMAIN sent, sent'[k] = under[j] PROVE sent'[k].arg = ui'.format
      <4>1. under[j] = sent[j] /\ d.ui.format = ui.format
        BY <1>8, <2>2, <3>1 DEF Marked
      <4> QED BY <1>5, <2>2, <3>1, <4>1 DEF AnswersFit
    <3>2. ASSUME NEW m \in DOMAIN asks, sent'[k] = asks[m] PROVE sent'[k].arg = ui'.format
      BY <1>9, <2>2, <3>2 DEF AsksWell
    <3> QED BY <1>10, <3>1, <3>2
  <2> QED BY <2>1, <2>2 DEF AnswersFit
<1>15. BusyEnds'
  <2>1. Page!Idle' => Page!Idle
    BY <1>8, <1>10 DEF Page!Idle, Marked
  <2> QED BY <1>2, <1>9, <2>1 DEF BusyEnds
<1>16. Drawing'
  BY <1>12 DEF Drawing
<1> QED BY <1>11, <1>13, <1>14, <1>15, <1>16 DEF PanelsInv

-----------------------------------------------------------------------------
LEMMA NoticeKeeps ==
  ASSUME PanelsInv, Page!NoticeComes
  PROVE  PanelsInv'
<1> USE DEF PanelsInv
<1> DEFINE h == Head(notices)
<1>1. /\ notices # <<>> /\ ui' = Page!OnNotice(ui, h) /\ notices' = Tail(notices)
      /\ disk' = disk /\ sent' = sent /\ stale' = stale
  BY DEF Page!NoticeComes
<1>2. notices \in Seq(ToSet(notices))
  BY DEF PanelShapes
<1>3. /\ Len(notices) \in Nat \ {0} /\ DOMAIN notices = 1..Len(notices) /\ h = notices[1]
      /\ notices' \in Seq(ToSet(notices)) /\ Len(notices') = Len(notices) - 1
      /\ DOMAIN notices' = 1..(Len(notices) - 1)
      /\ \A k \in 1..(Len(notices) - 1) : notices'[k] = notices[k + 1]
  <2>1. Len(notices) \in Nat /\ DOMAIN notices = 1..Len(notices) /\ Len(notices) # 0
    BY <1>1, <1>2, LenProperties, EmptySeq
  <2>2. /\ Tail(notices) \in Seq(ToSet(notices)) /\ Len(Tail(notices)) = Len(notices) - 1
        /\ \A k \in 1..Len(Tail(notices)) : Tail(notices)[k] = notices[k + 1]
    BY <1>1, <1>2, HeadTailProperties
  <2>3. DOMAIN Tail(notices) = 1..Len(Tail(notices))
    BY <2>2, LenProperties
  <2>4. h = notices[1]
    BY <1>2
  <2> QED BY <1>1, <2>1, <2>2, <2>3, <2>4
<1> HIDE DEF h
<1>4. notices' \in Seq(ToSet(notices'))
  BY <1>3, OwnElements
<1>5. /\ IsUi(ui') /\ ui'.shown = ui.shown /\ ui'.format = ui.format
      /\ h.grew => ui'.loaded = FALSE /\ ui'.previewed = FALSE /\ ui'.busy = ui.busy
      /\ ~h.grew => ui'.loaded = ui.loaded /\ ui'.previewed = ui.previewed /\ ui'.busy = h.busy
  <2>1. IsUi(ui)
    BY DEF PanelShapes
  <2>2. CASE h.grew
    BY <1>1, <2>1, <2>2 DEF Page!OnNotice, IsUi, UiFields
  <2>3. CASE ~h.grew
    BY <1>1, <2>1, <2>3 DEF Page!OnNotice, IsUi, UiFields
  <2> QED BY <2>2, <2>3
<1>6. PanelShapes'
  BY <1>1, <1>4, <1>5 DEF PanelShapes
<1>7. ASSUME NEW p \in Page!Drawn
      PROVE  p \in stale'.late \cup stale'.broken \/ Fits(ui', disk', p) \/ DrawingComes(p)'
  <2>1. CASE Fits(ui, disk, p)
    BY <1>1, <1>5, <2>1, SameFits
  <2>2. CASE \E i \in DOMAIN sent : Draws(sent[i], p) \/ Redraws(sent[i], p)
    BY <1>1, <2>2 DEF DrawingComes
  <2>3. ASSUME p \in {"stats", "sleeve"}, NEW k \in DOMAIN notices, notices[k].grew
        PROVE  Fits(ui', disk', p) \/ DrawingComes(p)'
    <3>1. CASE k = 1
      BY <1>3, <1>5, <2>3, <3>1 DEF Fits
    <3>2. CASE k # 1
      <4>1. k - 1 \in 1..(Len(notices) - 1) /\ (k - 1) + 1 = k
        BY <1>3, <3>2
      <4>2. k - 1 \in DOMAIN notices' /\ notices'[k - 1] = notices[k]
        BY <1>3, <4>1
      <4> QED BY <2>3, <4>2 DEF DrawingComes
    <3> QED BY <3>1, <3>2
  <2> QED BY <1>1, <2>1, <2>2, <2>3 DEF Drawing, DrawingComes
<1>8. Drawing' /\ RegistryFits'
  BY <1>1, <1>7 DEF Drawing, RegistryFits
<1>9. AnswersFit'
  BY <1>1, <1>5 DEF AnswersFit, Current
<1>10. BusyEnds'
  <2> SUFFICES ASSUME Page!Idle
               PROVE  \E k \in 0..Len(notices') :
                        /\ \A j \in (k + 1)..Len(notices') : notices'[j].grew
                        /\ IF k = 0 THEN ui'.busy = Null ELSE ~notices'[k].grew /\ notices'[k].busy = Null
    BY <1>1 DEF BusyEnds, Page!Idle
  <2>1. PICK k \in 0..Len(notices) :
          /\ \A j \in (k + 1)..Len(notices) : notices[j].grew
          /\ IF k = 0 THEN ui.busy = Null ELSE ~notices[k].grew /\ notices[k].busy = Null
    BY DEF BusyEnds
  <2>2. \A j \in (k + 1)..Len(notices') : j + 1 \in (k + 1)..Len(notices) /\ notices'[j] = notices[j + 1]
    BY <1>3
  <2>3. CASE k = 0
    <3>1. h.grew
      BY <1>3, <2>1, <2>3
    <3>2. \A j \in (0 + 1)..Len(notices') : notices'[j].grew
      BY <2>1, <2>2, <2>3
    <3>3. 0 \in 0..Len(notices') /\ ui'.busy = Null
      BY <1>3, <1>5, <2>1, <2>3, <3>1
    <3> QED BY <3>2, <3>3
  <2>4. CASE k = 1
    <3>1. ui'.busy = Null
      BY <1>3, <1>5, <2>1, <2>4
    <3>2. \A j \in (0 + 1)..Len(notices') : notices'[j].grew
      <4> TAKE j \in (0 + 1)..Len(notices')
      <4>1. j + 1 \in (k + 1)..Len(notices) /\ notices'[j] = notices[j + 1]
        BY <1>3, <2>4
      <4> QED BY <2>1, <4>1
    <3>3. 0 \in 0..Len(notices')
      BY <1>3
    <3> QED BY <3>1, <3>2, <3>3
  <2>5. CASE k > 1
    <3>1. k - 1 \in 0..Len(notices') /\ k - 1 # 0 /\ notices'[k - 1] = notices[k]
      <4>1. k - 1 \in 1..(Len(notices) - 1) /\ (k - 1) + 1 = k
        BY <1>3, <2>5
      <4> QED BY <1>3, <4>1
    <3>2. \A j \in ((k - 1) + 1)..Len(notices') : notices'[j].grew
      <4> TAKE j \in ((k - 1) + 1)..Len(notices')
      <4>1. j + 1 \in (k + 1)..Len(notices) /\ notices'[j] = notices[j + 1]
        BY <1>3, <2>5
      <4> QED BY <2>1, <4>1
    <3> QED BY <2>1, <2>5, <3>1, <3>2
  <2> QED BY <2>3, <2>4, <2>5
<1> QED BY <1>6, <1>8, <1>9, <1>10

(* What was noted stays before what is noted now.                          *)
LEMMA Noted ==
  ASSUME NEW s, s \in Seq(ToSet(s)), NEW n
  PROVE  LET t == Append(s, n)
         IN  /\ t \in Seq(ToSet(t)) /\ Len(s) \in Nat /\ Len(t) = Len(s) + 1
             /\ DOMAIN s = 1..Len(s) /\ DOMAIN t = 1..(Len(s) + 1)
             /\ \A k \in DOMAIN s : k \in DOMAIN t /\ t[k] = s[k]
             /\ t[Len(s) + 1] = n
<1> DEFINE t == Append(s, n)
           S == ToSet(s) \cup {n}
<1>1. s \in Seq(S) /\ n \in S
  BY SeqMonotonic
<1> HIDE DEF S
<1>2. /\ t \in Seq(S) /\ Len(t) = Len(s) + 1 /\ t[Len(s) + 1] = n
      /\ \A k \in 1..Len(s) : t[k] = s[k]
  BY <1>1, AppendProperties
<1> HIDE DEF t
<1>3. Len(s) \in Nat /\ DOMAIN s = 1..Len(s) /\ DOMAIN t = 1..(Len(s) + 1)
  BY <1>1, <1>2, LenProperties
<1>4. t \in Seq(ToSet(t))
  BY <1>2, OwnElements
<1>5. \A k \in DOMAIN s : k \in DOMAIN t /\ t[k] = s[k]
  BY <1>2, <1>3
<1> QED BY <1>2, <1>3, <1>4, <1>5 DEF t

LEMMA ThemeEditedKeeps ==
  ASSUME PanelsInv, Page!ThemeEdited
  PROVE  PanelsInv'
<1> USE DEF PanelsInv
<1>1. /\ sent' = sent /\ notices' = notices /\ ui' = ui /\ stale' = stale
      /\ disk' = [disk EXCEPT !.loads = ~@]
  BY DEF Page!ThemeEdited
<1>2. /\ DOMAIN disk' = DiskFields /\ disk'.history = disk.history /\ disk'.servers = disk.servers
      /\ disk'.registry = disk.registry /\ disk'.plugin = disk.plugin
      /\ disk'.secrets = disk.secrets /\ disk'.theme = disk.theme
  BY <1>1 DEF PanelShapes, DiskFields
<1>3. PanelShapes' /\ RegistryFits' /\ BusyEnds'
  BY <1>1, <1>2 DEF PanelShapes, RegistryFits, BusyEnds, Page!Idle
<1>4. AnswersFit'
  BY <1>1, <1>2 DEF AnswersFit, Current
<1>5. \A p : Fits(ui, disk, p) => Fits(ui, disk', p)
  BY <1>2 DEF Fits
<1>6. Drawing'
  BY <1>1, <1>5 DEF Drawing, DrawingComes
<1> QED BY <1>3, <1>4, <1>6

(* What is stored of what a call asks for.                                 *)
LEMMA WhatIsStored ==
  /\ Page!StoreOf("stats") = "history" /\ Page!StoreOf("sleeve_svg") = "history"
  /\ Page!StoreOf("providers") = "servers" /\ Page!StoreOf("servers_list") = "servers"
  /\ Page!StoreOf("plugins") = "plugin" /\ Page!StoreOf("secrets") = "secrets"
  /\ Page!StoreOf("themes_list") = "theme" /\ Page!StoreOf("theme_active") = "theme"
  /\ Page!StoreOf("theme_select") = "theme"
BY DEF Page!StoreOf, Page!Reads

(* The answers in hand: those of the store that changes are marked.        *)
LEMMA Overtaken ==
  ASSUME PanelShapes, NEW store
  PROVE  LET t == Page!Overtake(sent, store)
         IN  /\ Marked(sent, t)
             /\ \A i \in DOMAIN sent : sent[i].stage # "done" => t[i] = sent[i]
             /\ \A i \in DOMAIN sent : sent[i].stage = "done" /\ Page!StoreOf(sent[i].cmd) = store
                                         => t[i].overtaken
<1> DEFINE t == Page!Overtake(sent, store)
<1>1. t = [i \in DOMAIN sent |-> IF sent[i].stage = "done" /\ Page!StoreOf(sent[i].cmd) = store
                                   THEN [sent[i] EXCEPT !.overtaken = TRUE] ELSE sent[i]]
  BY DEF Page!Overtake
<1> HIDE DEF t
<1>2. sent \in Seq(ToSet(sent)) /\ \A i \in DOMAIN sent : WellAsked(sent[i])
  BY DEF PanelShapes
<1>3. Marked(sent, t)
  <2>1. /\ FunctionOn(t, DOMAIN sent)
        /\ \A i \in DOMAIN sent : t[i] = sent[i] \/ t[i] = [sent[i] EXCEPT !.overtaken = TRUE]
    BY <1>1 DEF FunctionOn
  <2> QED BY ONLY <1>2, <2>1, MarkingOnly
<1>4. ASSUME NEW i \in DOMAIN sent, sent[i].stage = "done", Page!StoreOf(sent[i].cmd) = store
      PROVE  t[i].overtaken
  <2>1. t[i] = [sent[i] EXCEPT !.overtaken = TRUE]
    BY <1>1, <1>4
  <2>2. DOMAIN sent[i] = SentFields
    BY <1>2 DEF WellAsked
  <2> QED BY <2>1, <2>2 DEF SentFields
<1>5. \A i \in DOMAIN sent : sent[i].stage # "done" => t[i] = sent[i]
  BY <1>1
<1> QED BY <1>3, <1>4, <1>5 DEF t

LEMMA ListensKeep ==
  ASSUME PanelsInv, Page!ListensRecorded
  PROVE  PanelsInv'
<1> USE DEF PanelsInv
<1> DEFINE n == [busy |-> Null, grew |-> TRUE]
<1>1. /\ sent' = Page!Overtake(sent, "history") /\ notices' = Append(notices, n)
      /\ ui' = ui /\ stale' = stale /\ Page!Idle
      /\ disk' = [disk EXCEPT !.history = @ + 1]
  BY DEF Page!ListensRecorded, Page!Tells
<1>2. /\ DOMAIN disk' = DiskFields /\ disk'.servers = disk.servers
      /\ disk'.registry = disk.registry /\ disk'.plugin = disk.plugin
      /\ disk'.secrets = disk.secrets /\ disk'.theme = disk.theme
  BY <1>1 DEF PanelShapes, DiskFields
<1>3. /\ notices' \in Seq(ToSet(notices')) /\ Len(notices) \in Nat
      /\ Len(notices') = Len(notices) + 1
      /\ DOMAIN notices = 1..Len(notices) /\ DOMAIN notices' = 1..(Len(notices) + 1)
      /\ \A k \in DOMAIN notices : k \in DOMAIN notices' /\ notices'[k] = notices[k]
      /\ notices'[Len(notices) + 1] = n
  <2>1. notices \in Seq(ToSet(notices))
    BY DEF PanelShapes
  <2> QED BY ONLY <1>1, <2>1, Noted
<1>4. n.grew
  OBVIOUS
<1> HIDE DEF n
<1>5. /\ Marked(sent, sent')
      /\ \A i \in DOMAIN sent : sent[i].stage = "done" /\ Page!StoreOf(sent[i].cmd) = "history"
                                  => sent'[i].overtaken
  BY <1>1, Overtaken
<1>6. PanelShapes'
  BY <1>1, <1>2, <1>3, <1>5 DEF PanelShapes, Marked
<1>7. ASSUME NEW p \in Page!Drawn
      PROVE  p \in stale'.late \cup stale'.broken \/ Fits(ui', disk', p) \/ DrawingComes(p)'
  <2>1. CASE p \in {"stats", "sleeve"}
    <3>1. Len(notices) + 1 \in DOMAIN notices' /\ notices'[Len(notices) + 1].grew
      BY <1>3, <1>4
    <3> QED BY <2>1, <3>1 DEF DrawingComes
  <2>2. CASE p \notin {"stats", "sleeve"}
    <3>1. Fits(ui, disk, p) => Fits(ui', disk', p)
      BY <1>1, <1>2, <2>2 DEF Fits
    <3>2. ASSUME NEW i \in DOMAIN sent, Draws(sent[i], p) \/ Redraws(sent[i], p)
          PROVE  DrawingComes(p)'
      <4>1. i \in DOMAIN sent' /\ (Draws(sent'[i], p) \/ Redraws(sent'[i], p))
        BY <1>5, <3>2, MarkedDraws DEF Marked
      <4> QED BY <4>1 DEF DrawingComes
    <3> QED BY <1>1, <2>2, <3>1, <3>2 DEF Drawing, DrawingComes
  <2> QED BY <2>1, <2>2
<1>8. Drawing' /\ RegistryFits'
  BY <1>1, <1>2, <1>7 DEF Drawing, RegistryFits
<1>9. AnswersFit'
  <2>1. ASSUME NEW k \in DOMAIN sent', sent'[k].stage = "done", sent'[k].ok, ~sent'[k].overtaken
        PROVE  Current(sent[k])'
    <3>1. k \in DOMAIN sent /\ sent'[k] = sent[k]
      BY <1>5, <2>1 DEF Marked
    <3>2. Current(sent[k])
      BY <2>1, <3>1 DEF AnswersFit
    <3>3. sent[k].cmd \notin {"stats", "sleeve_svg"}
      BY <1>5, <2>1, <3>1, WhatIsStored
    <3> QED BY <1>1, <1>2, <3>1, <3>2, <3>3 DEF Current
  <2>2. \A k \in DOMAIN sent' : sent'[k].cmd = "sleeve_svg" /\ ~sent'[k].overtaken => sent'[k].arg = ui'.format
    BY <1>1, <1>5 DEF Marked, AnswersFit
  <2> QED BY <2>1, <2>2 DEF AnswersFit
<1>10. BusyEnds'
  <2>1. PICK k \in 0..Len(notices) :
          /\ \A j \in (k + 1)..Len(notices) : notices[j].grew
          /\ IF k = 0 THEN ui.busy = Null ELSE ~notices[k].grew /\ notices[k].busy = Null
    BY <1>1 DEF BusyEnds
  <2>2. k \in 0..Len(notices')
    BY <1>3
  <2>3. ASSUME NEW j \in (k + 1)..Len(notices') PROVE notices'[j].grew
    <3>1. CASE j = Len(notices) + 1
      BY <1>3, <1>4, <3>1
    <3>2. CASE j # Len(notices) + 1
      <4>1. j \in (k + 1)..Len(notices) /\ j \in DOMAIN notices
        BY <1>3, <3>2
      <4> QED BY <1>3, <2>1, <4>1
    <3> QED BY <3>1, <3>2
  <2>4. IF k = 0 THEN ui'.busy = Null ELSE ~notices'[k].grew /\ notices'[k].busy = Null
    <3>1. k # 0 => k \in DOMAIN notices
      BY <1>3
    <3> QED BY <1>1, <1>3, <2>1, <3>1
  <2> QED BY <2>2, <2>3, <2>4 DEF BusyEnds
<1> QED BY <1>6, <1>8, <1>9, <1>10

-----------------------------------------------------------------------------
(* The commands.  What one leaves behind differs from what was stored only *)
(* where the command changes it, and an error that comes after a change    *)
(* leaves the panels of the command marked.                                *)
Stores == {"history", "servers", "plugin", "secrets", "theme"}

Lawful(c, ok, d) ==
  /\ DOMAIN d = DiskFields /\ ok \in BOOLEAN
  /\ \A f \in Stores : d[f] = disk[f] \/
       /\ c.cmd \in DOMAIN Page!Changes /\ Page!Changes[c.cmd] = f
       /\ ok \/ (Page!HalfDone(c) /\ Page!PanelsOf(c) \subseteq stale'.broken)
  /\ ok /\ c.cmd = "theme_select" => d.theme = c.arg
  /\ "providers" \in stale'.broken \/ d.registry = d.servers
  /\ DOMAIN stale' = {"late", "broken"}
  /\ stale'.late = stale.late /\ stale.broken \subseteq stale'.broken

LEMMA WhatChanges ==
  /\ DOMAIN Page!Changes = OfPlugin \cup {"import", "server_add", "server_remove", "secret_set",
                                          "secret_remove", "theme_select"}
  /\ Page!Changes["import"] = "history"
  /\ Page!Changes["server_add"] = "servers" /\ Page!Changes["server_remove"] = "servers"
  /\ Page!Changes["secret_set"] = "secrets" /\ Page!Changes["secret_remove"] = "secrets"
  /\ Page!Changes["theme_select"] = "theme"
  /\ \A cmd \in OfPlugin : Page!Changes[cmd] = "plugin"
BY DEF Page!Changes, OfPlugin

(* The one place a command may change.                                     *)
LEMMA OutcomesChange ==
  ASSUME DOMAIN disk = DiskFields, NEW c, WellAsked(c), NEW d \in Page!Outcomes(c)
  PROVE  /\ DOMAIN d = DiskFields /\ d.registry = disk.registry
         /\ \A f \in Stores : d[f] = disk[f] \/ (c.cmd \in DOMAIN Page!Changes /\ Page!Changes[c.cmd] = f)
         /\ c.cmd = "theme_select" => d.theme = c.arg
<1>0. c.cmd \notin OfPlugin => c.arg \notin {"card", "catalog"}
  BY DEF WellAsked
<1> DEFINE Set(f) == \E x : d = [disk EXCEPT ![f] = x]
<1>1. ASSUME NEW f \in Stores, Set(f), c.cmd \in DOMAIN Page!Changes, Page!Changes[c.cmd] = f,
             c.cmd # "theme_select"
      PROVE  /\ DOMAIN d = DiskFields /\ d.registry = disk.registry
             /\ \A g \in Stores : d[g] = disk[g] \/ Page!Changes[c.cmd] = g
  BY <1>1 DEF Stores, DiskFields
<1>2. CASE c.cmd = "import"
  <2>1. d = [disk EXCEPT !.history = disk.history + 1]
    BY <1>0, <1>2 DEF Page!Outcomes, OfPlugin
  <2> QED BY <1>1, <1>2, <2>1, WhatChanges DEF Stores
<1>3. CASE c.cmd \in {"server_add", "server_remove"}
  <2>1. d \in {[disk EXCEPT !.servers = TRUE], [disk EXCEPT !.servers = FALSE]}
    BY <1>0, <1>3 DEF Page!Outcomes, OfPlugin
  <2>2. Set("servers")
    BY <2>1
  <2> QED BY <1>1, <1>3, <2>2, WhatChanges DEF Stores
<1>4. CASE c.cmd \in {"secret_set", "secret_remove"}
  <2>1. Set("secrets")
    BY <1>0, <1>4 DEF Page!Outcomes, OfPlugin
  <2> QED BY <1>1, <1>4, <2>1, WhatChanges DEF Stores
<1>5. CASE c.cmd = "theme_select"
  <2>1. d = [disk EXCEPT !.theme = c.arg]
    BY <1>0, <1>5 DEF Page!Outcomes, Page!ThemeAfter, OfPlugin
  <2> QED BY <1>5, <2>1, WhatChanges DEF Stores, DiskFields
<1>6. CASE c.cmd \in OfPlugin
  <2>1. c.arg \in {"card", "catalog"}
    BY <1>6 DEF WellAsked
  <2>2. Page!Outcomes(c) = {[disk EXCEPT !.plugin = p] : p \in Page!PluginAfter(c.cmd, disk.plugin)}
    BY <1>6, <2>1 DEF Page!Outcomes, OfPlugin
  <2>3. Set("plugin")
    BY <2>2
  <2>4. c.cmd # "theme_select"
    BY <1>6 DEF OfPlugin
  <2> QED BY <1>1, <1>6, <2>3, <2>4, WhatChanges DEF Stores
<1>7. CASE c.cmd \notin DOMAIN Page!Changes
  <2>1. Page!Outcomes(c) = {disk}
    BY <1>0, <1>7, WhatChanges DEF Page!Outcomes
  <2> QED BY <1>7, <2>1, WhatChanges
<1> QED BY <1>2, <1>3, <1>4, <1>5, <1>6, <1>7, WhatChanges

LEMMA CompletesLawfully ==
  ASSUME PanelShapes, RegistryFits, NEW i \in DOMAIN sent, Page!Completes(i)
  PROVE  \E ok \in BOOLEAN : \E d : Page!Ends(i, ok, d) /\ Lawful(sent[i], ok, d)
<1>1. PICK c : c = sent[i]
  OBVIOUS
<1>2. WellAsked(c) /\ DOMAIN disk = DiskFields /\ DOMAIN stale = {"late", "broken"}
  BY <1>1 DEF PanelShapes
<1>3. ASSUME NEW e \in Page!Outcomes(c), Page!Ends(i, TRUE, Page!Registered(c, e)), stale' = stale
      PROVE  Lawful(c, TRUE, Page!Registered(c, e))
  <2>1. /\ DOMAIN e = DiskFields /\ e.registry = disk.registry
        /\ \A f \in Stores : e[f] = disk[f] \/ (c.cmd \in DOMAIN Page!Changes /\ Page!Changes[c.cmd] = f)
        /\ c.cmd = "theme_select" => e.theme = c.arg
    BY <1>2, OutcomesChange
  <2>2. PICK d : d = Page!Registered(c, e)
    OBVIOUS
  <2>3. /\ DOMAIN d = DiskFields /\ \A f \in Stores : d[f] = e[f]
        /\ d.registry = e.servers \/ (d = e /\ c.cmd \notin {"server_add", "server_remove"})
    BY <2>1, <2>2 DEF Page!Registered, Stores, DiskFields
  <2>4. "providers" \in stale.broken \/ d.registry = d.servers
    <3>1. CASE d.registry = e.servers
      BY <2>3, <3>1 DEF Stores
    <3>2. CASE d = e /\ c.cmd \notin {"server_add", "server_remove"}
      <4>1. e.servers = disk.servers
        BY <2>1, <3>2, WhatChanges DEF Stores, OfPlugin
      <4> QED BY <2>1, <3>2, <4>1 DEF RegistryFits
    <3> QED BY <2>3, <3>1, <3>2
  <2>5. Lawful(c, TRUE, d)
    BY <1>2, <1>3, <2>1, <2>3, <2>4 DEF Lawful, Stores
  <2> QED BY <2>2, <2>5
<1>4. ASSUME stale' = stale PROVE Lawful(c, FALSE, disk)
  BY <1>2, <1>4 DEF Lawful, RegistryFits
<1>5. ASSUME NEW d \in Page!Outcomes(c), Page!HalfDone(c),
             stale' = [stale EXCEPT !.broken = @ \cup Page!PanelsOf(c)]
      PROVE  Lawful(c, FALSE, d)
  <2>1. /\ DOMAIN d = DiskFields /\ d.registry = disk.registry
        /\ \A f \in Stores : d[f] = disk[f] \/ (c.cmd \in DOMAIN Page!Changes /\ Page!Changes[c.cmd] = f)
    BY <1>2, OutcomesChange
  <2>2. /\ DOMAIN stale' = {"late", "broken"} /\ stale'.late = stale.late
        /\ stale'.broken = stale.broken \cup Page!PanelsOf(c)
    BY <1>2, <1>5
  <2>3. "providers" \in stale'.broken \/ d.registry = d.servers
    <3>1. CASE c.cmd \in {"server_add", "server_remove"}
      <4>1. "providers" \in Page!PanelsOf(c)
        <5>1. c.arg \notin {"card", "catalog"}
          BY <1>2, <3>1 DEF WellAsked, OfPlugin
        <5> QED BY <3>1, <5>1 DEF Page!PanelsOf, Page!Panel
      <4> QED BY <2>2, <4>1
    <3>2. CASE c.cmd \notin {"server_add", "server_remove"}
      <4>1. d.servers = disk.servers
        BY <2>1, <3>2, WhatChanges DEF Stores, OfPlugin
      <4> QED BY <2>1, <2>2, <4>1 DEF RegistryFits
    <3> QED BY <3>1, <3>2
  <2> QED BY <1>5, <2>1, <2>2, <2>3 DEF Lawful
<1>6. \/ \E e \in Page!Outcomes(c) : Page!Ends(i, TRUE, Page!Registered(c, e)) /\ stale' = stale
      \/ Page!Ends(i, FALSE, disk) /\ stale' = stale
      \/ \E d \in Page!Outcomes(c) : /\ Page!HalfDone(c) /\ Page!Ends(i, FALSE, d)
                                     /\ stale' = [stale EXCEPT !.broken = @ \cup Page!PanelsOf(c)]
  BY <1>1 DEF Page!Completes
<1>7. TRUE \in BOOLEAN /\ FALSE \in BOOLEAN
  OBVIOUS
<1>8. CASE \E e \in Page!Outcomes(c) : Page!Ends(i, TRUE, Page!Registered(c, e)) /\ stale' = stale
  BY <1>1, <1>3, <1>7, <1>8
<1>9. CASE Page!Ends(i, FALSE, disk) /\ stale' = stale
  BY <1>1, <1>4, <1>7, <1>9
<1>10. CASE \E d \in Page!Outcomes(c) : /\ Page!HalfDone(c) /\ Page!Ends(i, FALSE, d)
                                        /\ stale' = [stale EXCEPT !.broken = @ \cup Page!PanelsOf(c)]
  BY <1>1, <1>5, <1>7, <1>10
<1> QED BY <1>6, <1>8, <1>9, <1>10

(* What the calls look like after one of them is done.                     *)
EndedCalls(i, ok, d) ==
  /\ sent' \in Seq(ToSet(sent')) /\ DOMAIN sent' = DOMAIN sent
  /\ DOMAIN sent'[i] = SentFields
  /\ sent'[i].cmd = sent[i].cmd /\ sent'[i].arg = sent[i].arg
  /\ sent'[i].overtaken = sent[i].overtaken
  /\ sent'[i].stage = "done" /\ sent'[i].ok = ok /\ sent'[i].got = Page!Brings(sent[i], d)
  /\ \A k \in DOMAIN sent : k # i =>
       /\ WellAsked(sent'[k])
       /\ sent'[k].cmd = sent[k].cmd /\ sent'[k].arg = sent[k].arg /\ sent'[k].stage = sent[k].stage
       /\ sent'[k].ok = sent[k].ok
       /\ sent'[k] = sent[k] \/ sent'[k].overtaken
       /\ (/\ sent[k].stage = "done" /\ d # disk /\ sent[i].cmd \in DOMAIN Page!Changes
           /\ Page!StoreOf(sent[k].cmd) = Page!Changes[sent[i].cmd]) => sent'[k].overtaken

LEMMA EndsCalls ==
  ASSUME PanelShapes, NEW i \in DOMAIN sent, sent[i].stage # "done", NEW ok, NEW d,
         Page!Ends(i, ok, d)
  PROVE  EndedCalls(i, ok, d) /\ disk' = d
<1> DEFINE changed == d # disk /\ sent[i].cmd \in DOMAIN Page!Changes
<1>1. PICK got : got = Page!Brings(sent[i], d)
  OBVIOUS
<1>2. PICK old : old = IF changed THEN Page!Overtake(sent, Page!Changes[sent[i].cmd]) ELSE sent
  OBVIOUS
<1>3. disk' = d /\ sent' = [old EXCEPT ![i].stage = "done", ![i].ok = ok, ![i].got = got]
  BY <1>1, <1>2 DEF Page!Ends
<1>4. sent \in Seq(ToSet(sent)) /\ \A k \in DOMAIN sent : WellAsked(sent[k])
  BY DEF PanelShapes
<1>5. /\ Marked(sent, old) /\ old[i] = sent[i]
      /\ \A k \in DOMAIN sent :
           changed /\ sent[k].stage = "done" /\ Page!StoreOf(sent[k].cmd) = Page!Changes[sent[i].cmd]
             => old[k].overtaken
  <2>1. CASE changed
    <3>1. old = Page!Overtake(sent, Page!Changes[sent[i].cmd])
      BY <1>2, <2>1
    <3> QED BY <2>1, <3>1, Overtaken
  <2>2. CASE ~changed
    <3>1. old = sent
      BY <1>2, <2>2
    <3> QED BY <1>4, <2>2, <3>1 DEF Marked
  <2> QED BY <2>1, <2>2
<1>6. /\ old \in Seq(ToSet(old)) /\ DOMAIN old = DOMAIN sent /\ i \in DOMAIN old
      /\ DOMAIN old[i] = SentFields
  BY <1>4, <1>5 DEF Marked, WellAsked
<1>7. PICK e : e = [sent[i] EXCEPT !.stage = "done", !.ok = ok, !.got = got]
  OBVIOUS
<1>8. sent' = [old EXCEPT ![i] = e]
  BY <1>3, <1>5, <1>6, <1>7
<1>9. sent' \in Seq(ToSet(sent')) /\ DOMAIN sent' = DOMAIN sent
  <2> DEFINE S == ToSet(old) \cup {e}
  <2>1. old \in Seq(S) /\ e \in S
    BY <1>6, SeqMonotonic
  <2>2. Len(old) \in Nat /\ DOMAIN old = 1..Len(old)
    BY <1>6, LenProperties
  <2> HIDE DEF S
  <2>3. [old EXCEPT ![i] = e] \in Seq(S)
    BY <1>6, <2>1, <2>2, ExceptSeq
  <2>4. sent' \in Seq(S)
    BY <1>8, <2>3
  <2>5. sent' \in Seq(ToSet(sent'))
    BY <2>4, OwnElements
  <2> QED BY <1>6, <1>8, <2>5
<1>10. sent'[i] = e /\ \A k \in DOMAIN sent : k # i => sent'[k] = old[k]
  BY <1>6, <1>8
<1>11. /\ DOMAIN e = SentFields /\ e.cmd = sent[i].cmd /\ e.arg = sent[i].arg
       /\ e.overtaken = sent[i].overtaken /\ e.stage = "done" /\ e.ok = ok /\ e.got = got
  BY <1>5, <1>6, <1>7 DEF SentFields
<1>12. EndedCalls(i, ok, d)
  BY <1>1, <1>5, <1>9, <1>10, <1>11 DEF EndedCalls, Marked
<1> QED BY <1>3, <1>12

(* What an answer brings is what is stored then.                           *)
LEMMA BringsIt ==
  ASSUME NEW c, WellAsked(c), NEW d, Lawful(c, TRUE, d), NEW got, got = Page!Brings(c, d)
  PROVE  /\ c.cmd \in {"stats", "sleeve_svg"} => got = d.history
         /\ c.cmd = "providers" => "providers" \in stale'.broken \/ got = d.servers
         /\ c.cmd = "servers_list" => got = d.servers
         /\ c.cmd = "plugins" => got = d.plugin
         /\ c.cmd = "secrets" => got = d.secrets
         /\ c.cmd = "themes_list" => /\ got = [active |-> d.theme, themes |-> got.themes]
                                     /\ got.themes \subseteq Themes
         /\ c.cmd = "theme_active" => got \in {Null, d.theme}
         /\ c.cmd = "theme_select" => got = d.theme
<1>1. CASE c.cmd = "themes_list"
  <2>1. got = [active |-> d.theme, themes |-> Page!Loadable(d)]
    BY <1>1 DEF Page!Brings, Page!Reads, Page!Themes, Page!ThemeList
  <2>2. Page!Loadable(d) \subseteq Themes
    BY DEF Page!Loadable, Themes
  <2> QED BY <1>1, <2>1, <2>2
<1>2. CASE c.cmd = "theme_active"
  BY <1>2 DEF Page!Brings, Page!Reads, Page!Themes, Page!ActiveTheme, Page!Loadable
<1>3. CASE c.cmd = "theme_select"
  BY <1>3 DEF Page!Brings, Page!Reads, Page!Themes, Lawful
<1>4. CASE c.cmd \in {"stats", "sleeve_svg", "servers_list", "plugins", "secrets"}
  BY <1>4 DEF Page!Brings, Page!Reads, Page!Themes
<1>5. CASE c.cmd = "providers"
  <2>1. got = d.registry
    BY <1>5 DEF Page!Brings, Page!Reads, Page!Themes
  <2> QED BY <1>5, <2>1 DEF Lawful
<1> QED BY <1>1, <1>2, <1>3, <1>4, <1>5

LEMMA SameStoreFits ==
  ASSUME NEW u, NEW d, NEW e, NEW p \in Page!Drawn, Fits(u, d, p),
         p \in {"stats", "sleeve"} => e.history = d.history,
         p \in {"providers", "servers"} => e.servers = d.servers,
         p \in {"plugins", "badge"} => e.plugin = d.plugin,
         p = "secrets" => e.secrets = d.secrets,
         p \in {"themes", "worn"} => e.theme = d.theme
  PROVE  Fits(u, e, p)
BY DEF Fits

StoreOfPanel(p) ==
  IF p \in {"stats", "sleeve"} THEN "history" ELSE IF p \in {"providers", "servers"} THEN "servers"
  ELSE IF p \in {"plugins", "badge"} THEN "plugin" ELSE IF p = "secrets" THEN "secrets" ELSE "theme"

(* A command that changed what a panel is drawn from makes it drawn again. *)
LEMMA ChangeDraws ==
  ASSUME NEW c, WellAsked(c), NEW p \in Page!Drawn,
         c.cmd \in DOMAIN Page!Changes, Page!Changes[c.cmd] = StoreOfPanel(p)
  PROVE  /\ Page!HalfDone(c) => p \in Page!PanelsOf(c)
         /\ \A e : /\ DOMAIN e = SentFields /\ e.cmd = c.cmd /\ e.arg = c.arg
                   /\ e.stage = "done" /\ e.ok = TRUE
                   => Draws(e, p) \/ Redraws(e, p)
<1>1. c.cmd \in OfPlugin <=> c.arg \in {"card", "catalog"}
  BY DEF WellAsked
<1>2. \/ c.cmd = "import" /\ p \in {"stats", "sleeve"}
      \/ c.cmd \in {"server_add", "server_remove"} /\ p \in {"providers", "servers"}
      \/ c.cmd \in OfPlugin /\ p \in {"plugins", "badge"}
      \/ c.cmd \in {"secret_set", "secret_remove"} /\ p = "secrets"
      \/ c.cmd = "theme_select" /\ p \in {"themes", "worn"}
  BY WhatChanges DEF StoreOfPanel, Page!Drawn
<1>3. ASSUME Page!HalfDone(c) PROVE p \in Page!PanelsOf(c)
  <2>1. CASE c.cmd \in OfPlugin
    BY <1>1, <1>2, <2>1 DEF Page!PanelsOf, Page!Panel, OfPlugin
  <2>2. CASE c.cmd \notin OfPlugin
    BY <1>1, <1>2, <1>3, <2>2 DEF Page!PanelsOf, Page!Panel, Page!HalfDone
  <2> QED BY <2>1, <2>2
<1>4. ASSUME NEW e, DOMAIN e = SentFields, e.cmd = c.cmd, e.arg = c.arg, e.stage = "done", e.ok = TRUE
      PROVE  Draws(e, p) \/ Redraws(e, p)
  <2>1. CASE c.cmd = "theme_select" /\ p = "worn"
    BY <1>1, <1>4, <2>1 DEF Draws, Page!PanelsOf, Page!Panel, OfPlugin
  <2>2. CASE ~(c.cmd = "theme_select" /\ p = "worn")
    BY <1>2, <1>4, <2>2 DEF Redraws
  <2> QED BY <2>1, <2>2
<1> QED BY <1>3, <1>4

(* All but the busy line.                                                  *)
LEMMA EndKeeps ==
  ASSUME PanelsInv, NEW i \in DOMAIN sent, sent[i].stage # "done", NEW ok \in BOOLEAN, NEW d,
         Page!Ends(i, ok, d), Lawful(sent[i], ok, d), ui' = ui,
         notices' \in Seq(ToSet(notices')),
         \A k \in DOMAIN notices : k \in DOMAIN notices' /\ notices'[k] = notices[k]
  PROVE  PanelShapes' /\ Drawing' /\ RegistryFits' /\ AnswersFit'
<1> USE DEF PanelsInv
<1>1. EndedCalls(i, ok, d) /\ disk' = d
  BY EndsCalls
<1>2. PICK c : c = sent[i]
  OBVIOUS
<1>3. WellAsked(c) /\ Lawful(c, ok, d) /\ c.stage # "done"
  BY <1>2 DEF PanelShapes
<1>4. PICK got : got = Page!Brings(c, d)
  OBVIOUS
<1>5. /\ c.cmd \in {"stats", "sleeve_svg"} /\ ok => got = d.history
      /\ c.cmd = "providers" /\ ok => "providers" \in stale'.broken \/ got = d.servers
      /\ c.cmd = "servers_list" /\ ok => got = d.servers
      /\ c.cmd = "plugins" /\ ok => got = d.plugin
      /\ c.cmd = "secrets" /\ ok => got = d.secrets
      /\ c.cmd = "themes_list" /\ ok => /\ got = [active |-> d.theme, themes |-> got.themes]
                                        /\ got.themes \subseteq Themes
      /\ c.cmd = "theme_active" /\ ok => got \in {Null, d.theme}
      /\ c.cmd = "theme_select" /\ ok => got = d.theme
  <2>1. CASE ok
    <3>1. Lawful(c, TRUE, d)
      BY <1>3, <2>1
    <3> QED BY ONLY <1>3, <1>4, <2>1, <3>1, BringsIt
  <2>2. CASE ~ok
    BY ONLY <2>2
  <2> QED BY <2>1, <2>2
<1>6. /\ DOMAIN sent'[i] = SentFields /\ sent'[i].cmd = c.cmd /\ sent'[i].arg = c.arg
      /\ sent'[i].overtaken = c.overtaken /\ sent'[i].stage = "done" /\ sent'[i].ok = ok
      /\ sent'[i].got = got
  BY <1>1, <1>2, <1>4 DEF EndedCalls
<1>7. WellAsked(sent'[i])
  BY <1>3, <1>5, <1>6 DEF WellAsked
<1>8. PanelShapes'
  <2>1. \A k \in DOMAIN sent' : WellAsked(sent'[k])
    BY <1>1, <1>7 DEF EndedCalls
  <2> QED BY <1>1, <1>3, <2>1 DEF PanelShapes, EndedCalls, Lawful
<1>9. RegistryFits'
  BY <1>1, <1>3 DEF RegistryFits, Lawful
<1>10. ASSUME NEW p \in Page!Drawn
       PROVE  p \in stale'.late \cup stale'.broken \/ Fits(ui', disk', p) \/ DrawingComes(p)'
  <2>1. CASE p \in stale.late \cup stale.broken
    BY <1>3, <2>1 DEF Lawful
  <2>2. CASE Fits(ui, disk, p)
    <3> DEFINE f == StoreOfPanel(p)
    <3>1. f \in Stores
      BY DEF StoreOfPanel, Stores
    <3>2. CASE d[f] = disk[f]
      <4>1. Fits(ui, d, p)
        BY <2>2, <3>2, SameStoreFits DEF StoreOfPanel
      <4> QED BY <1>1, <4>1
    <3>3. CASE d[f] # disk[f]
      <4>1. /\ c.cmd \in DOMAIN Page!Changes /\ Page!Changes[c.cmd] = f
            /\ ok \/ (Page!HalfDone(c) /\ Page!PanelsOf(c) \subseteq stale'.broken)
        BY <1>3, <3>1, <3>3 DEF Lawful
      <4>2. CASE ok
        <5>1. Draws(sent'[i], p) \/ Redraws(sent'[i], p)
          BY <1>3, <1>6, <4>1, <4>2, ChangeDraws
        <5>2. i \in DOMAIN sent'
          BY <1>1 DEF EndedCalls
        <5> QED BY <5>1, <5>2 DEF DrawingComes
      <4>3. CASE ~ok
        <5>1. p \in Page!PanelsOf(c)
          BY <1>3, <4>1, <4>3, ChangeDraws
        <5> QED BY <4>1, <4>3, <5>1
      <4> QED BY <4>2, <4>3
    <3> QED BY <3>2, <3>3
  <2>3. ASSUME NEW j \in DOMAIN sent, Draws(sent[j], p) \/ Redraws(sent[j], p)
        PROVE  DrawingComes(p)'
    <3>1. j \in DOMAIN sent'
      BY <1>1 DEF EndedCalls
    <3>2. CASE j # i
      <4>1. /\ sent'[j].cmd = sent[j].cmd /\ sent'[j].arg = sent[j].arg
            /\ sent'[j].stage = sent[j].stage /\ sent'[j].ok = sent[j].ok
        BY <1>1, <3>2 DEF EndedCalls
      <4>2. Draws(sent'[j], p) \/ Redraws(sent'[j], p)
        BY <2>3, <4>1 DEF Draws, Redraws, Page!PanelsOf
      <4> QED BY <3>1, <4>2 DEF DrawingComes
    <3>3. CASE j = i
      <4>1. Draws(c, p) \/ (c.cmd = "providers" /\ p = "servers")
        BY <1>2, <1>3, <2>3, <3>3 DEF Redraws
      <4>2. Draws(sent'[i], p) \/ Redraws(sent'[i], p)
        BY <1>6, <4>1 DEF Draws, Redraws, Page!PanelsOf
      <4> QED BY <3>1, <3>3, <4>2 DEF DrawingComes
    <3> QED BY <3>2, <3>3
  <2>4. CASE p \in {"stats", "sleeve"} /\ \E k \in DOMAIN notices : notices[k].grew
    BY <2>4 DEF DrawingComes
  <2> QED BY <2>1, <2>2, <2>3, <2>4 DEF Drawing, DrawingComes
<1>11. Drawing'
  BY <1>10 DEF Drawing
<1>12. ASSUME NEW k \in DOMAIN sent', sent'[k].stage = "done", sent'[k].ok, ~sent'[k].overtaken
       PROVE  Current(sent[k])'
  <2>1. CASE k = i
    <3>1. ok
      BY <1>6, <1>12, <2>1
    <3> QED BY <1>1, <1>5, <1>6, <2>1, <3>1 DEF Current
  <2>2. CASE k # i
    <3>1. PICK e : e = sent[k]
      OBVIOUS
    <3>2. /\ k \in DOMAIN sent /\ sent'[k] = e /\ e.stage = "done" /\ e.ok /\ ~e.overtaken
          /\ ~(/\ d # disk /\ c.cmd \in DOMAIN Page!Changes
               /\ Page!StoreOf(e.cmd) = Page!Changes[c.cmd])
      BY <1>1, <1>2, <1>12, <2>2, <3>1 DEF EndedCalls
    <3>3. Current(e)
      BY <3>1, <3>2 DEF AnswersFit
    <3>4. \A f \in Stores : Page!StoreOf(e.cmd) = f => d[f] = disk[f]
      BY <1>3, <3>2 DEF Lawful
    <3>5. stale.broken \subseteq stale'.broken
      BY <1>3 DEF Lawful
    <3>6. /\ e.cmd \in {"stats", "sleeve_svg"} => d.history = disk.history
          /\ e.cmd \in {"providers", "servers_list"} => d.servers = disk.servers
          /\ e.cmd = "plugins" => d.plugin = disk.plugin
          /\ e.cmd = "secrets" => d.secrets = disk.secrets
          /\ e.cmd \in {"themes_list", "theme_active", "theme_select"} => d.theme = disk.theme
      BY <3>4, WhatIsStored DEF Stores
    <3> QED BY <1>1, <3>2, <3>3, <3>5, <3>6 DEF Current
  <2> QED BY <2>1, <2>2
<1>13. ASSUME NEW k \in DOMAIN sent', sent'[k].cmd = "sleeve_svg", ~sent'[k].overtaken
       PROVE  sent'[k].arg = ui'.format
  <2>1. k \in DOMAIN sent /\ sent[k].cmd = "sleeve_svg" /\ ~sent[k].overtaken /\ sent'[k].arg = sent[k].arg
    BY <1>1, <1>2, <1>6, <1>13 DEF EndedCalls
  <2> QED BY <2>1 DEF AnswersFit
<1>14. AnswersFit'
  BY <1>12, <1>13 DEF AnswersFit
<1> QED BY <1>8, <1>9, <1>11, <1>14

(* A call that is done and was not running leaves the core as it was.      *)
LEMMA QuietEnd ==
  ASSUME PanelsInv, NEW i \in DOMAIN sent, sent[i].stage = "sent", NEW ok \in BOOLEAN, NEW d,
         Page!Ends(i, ok, d), Lawful(sent[i], ok, d), ui' = ui, notices' = notices
  PROVE  PanelsInv'
<1>1. PanelShapes' /\ Drawing' /\ RegistryFits' /\ AnswersFit'
  <2>1. notices' \in Seq(ToSet(notices'))
    BY DEF PanelsInv, PanelShapes
  <2> QED BY <2>1, EndKeeps
<1>2. BusyEnds'
  <2>1. EndedCalls(i, ok, d)
    BY EndsCalls DEF PanelsInv
  <2>2. Page!Idle' => Page!Idle
    BY <2>1 DEF Page!Idle, EndedCalls
  <2> QED BY <2>2 DEF PanelsInv, BusyEnds
<1> QED BY <1>1, <1>2 DEF PanelsInv

LEMMA ShortKeeps ==
  ASSUME PanelsInv, NEW i \in DOMAIN sent, Page!Short(i)
  PROVE  PanelsInv'
<1>1. Page!Completes(i) /\ sent[i].stage = "sent" /\ ui' = ui /\ notices' = notices
  BY DEF Page!Short
<1>2. PICK ok \in BOOLEAN : \E d : Page!Ends(i, ok, d) /\ Lawful(sent[i], ok, d)
  BY <1>1, CompletesLawfully DEF PanelsInv
<1> QED BY <1>1, <1>2, QuietEnd

LEMMA FinishKeeps ==
  ASSUME PanelsInv, NEW i \in DOMAIN sent, Page!Finish(i)
  PROVE  PanelsInv'
<1> DEFINE n == [busy |-> Null, grew |-> FALSE]
<1>1. /\ Page!Completes(i) /\ sent[i].stage # "done" /\ ui' = ui /\ notices' = Append(notices, n)
  BY DEF Page!Finish, Page!Tells
<1>2. PICK ok \in BOOLEAN : \E d : Page!Ends(i, ok, d) /\ Lawful(sent[i], ok, d)
  BY <1>1, CompletesLawfully DEF PanelsInv
<1>3. n.busy = Null /\ ~n.grew
  OBVIOUS
<1> HIDE DEF n
<1>4. /\ notices' \in Seq(ToSet(notices')) /\ Len(notices) \in Nat
      /\ Len(notices') = Len(notices) + 1 /\ notices'[Len(notices) + 1] = n
      /\ \A k \in DOMAIN notices : k \in DOMAIN notices' /\ notices'[k] = notices[k]
  <2>1. notices \in Seq(ToSet(notices))
    BY DEF PanelsInv, PanelShapes
  <2> QED BY ONLY <1>1, <2>1, Noted
<1>5. PanelShapes' /\ Drawing' /\ RegistryFits' /\ AnswersFit'
  BY <1>1, <1>2, <1>4, EndKeeps
<1>6. BusyEnds'
  <2>1. PICK k : k = Len(notices')
    OBVIOUS
  <2>2. k \in 0..Len(notices') /\ k # 0 /\ notices'[k] = n
    BY <1>4, <2>1
  <2>3. \A j \in (k + 1)..Len(notices') : notices'[j].grew
    BY <1>4, <2>1
  <2> QED BY <1>3, <2>2, <2>3 DEF BusyEnds
<1> QED BY <1>5, <1>6 DEF PanelsInv

LEMMA BeginKeeps ==
  ASSUME PanelsInv, NEW i \in DOMAIN sent, Page!Begin(i)
  PROVE  PanelsInv'
<1> USE DEF PanelsInv
<1>1. sent[i].stage = "sent" /\ ui' = ui
  BY DEF Page!Begin
<1>2. CASE Page!Ends(i, FALSE, disk) /\ notices' = notices /\ stale' = stale
  <2>1. Lawful(sent[i], FALSE, disk)
    BY <1>2 DEF Lawful, PanelShapes, RegistryFits
  <2>2. FALSE \in BOOLEAN
    OBVIOUS
  <2> QED BY <1>1, <1>2, <2>1, <2>2, QuietEnd
<1>3. CASE /\ Page!Tells([busy |-> sent[i].cmd, grew |-> FALSE])
           /\ sent' = [sent EXCEPT ![i].stage = "running"]
           /\ disk' = disk /\ stale' = stale
  <2>1. PICK n : n = [busy |-> sent[i].cmd, grew |-> FALSE]
    OBVIOUS
  <2>2. notices' = Append(notices, n)
    BY <1>3, <2>1 DEF Page!Tells
  <2>3. notices \in Seq(ToSet(notices)) /\ sent \in Seq(ToSet(sent)) /\ \A k \in DOMAIN sent : WellAsked(sent[k])
    BY DEF PanelShapes
  <2>4. /\ notices' \in Seq(ToSet(notices'))
        /\ \A k \in DOMAIN notices : k \in DOMAIN notices' /\ notices'[k] = notices[k]
    BY ONLY <2>2, <2>3, Noted
  <2>5. PICK e : e = [sent[i] EXCEPT !.stage = "running"]
    OBVIOUS
  <2>6. sent' = [sent EXCEPT ![i] = e]
    BY <1>3, <2>5
  <2>7. sent' \in Seq(ToSet(sent')) /\ DOMAIN sent' = DOMAIN sent
    <3> DEFINE S == ToSet(sent) \cup {e}
    <3>1. sent \in Seq(S) /\ e \in S
      BY <2>3, SeqMonotonic
    <3>2. DOMAIN sent = 1..Len(sent)
      BY <2>3, LenProperties
    <3> HIDE DEF S
    <3>3. [sent EXCEPT ![i] = e] \in Seq(S)
      BY <3>1, <3>2, ExceptSeq
    <3>4. sent' \in Seq(S)
      BY <2>6, <3>3
    <3> QED BY <2>6, <3>4, OwnElements
  <2>8. sent'[i] = e /\ \A k \in DOMAIN sent : k # i => sent'[k] = sent[k]
    BY <2>6
  <2>9. /\ DOMAIN e = SentFields /\ e.cmd = sent[i].cmd /\ e.arg = sent[i].arg /\ e.ok = sent[i].ok
        /\ e.overtaken = sent[i].overtaken /\ e.stage = "running"
    <3>1. DOMAIN sent[i] = SentFields
      BY <2>3 DEF WellAsked
    <3> QED BY <2>5, <3>1 DEF SentFields
  <2>10. WellAsked(e)
    BY <2>3, <2>9 DEF WellAsked
  <2>11. PanelShapes'
    <3>1. \A k \in DOMAIN sent' : WellAsked(sent'[k])
      BY <2>3, <2>7, <2>8, <2>10
    <3> QED BY <1>1, <1>3, <2>4, <2>7, <3>1 DEF PanelShapes
  <2>12. ASSUME NEW p, NEW j \in DOMAIN sent, Draws(sent[j], p) \/ Redraws(sent[j], p)
         PROVE  j \in DOMAIN sent' /\ (Draws(sent'[j], p) \/ Redraws(sent'[j], p))
    <3>1. CASE j = i
      <4>1. Draws(sent[i], p) \/ (sent[i].cmd = "providers" /\ p = "servers")
        BY <1>1, <2>12, <3>1 DEF Redraws
      <4>2. Draws(e, p) \/ Redraws(e, p)
        BY <2>9, <4>1 DEF Draws, Redraws, Page!PanelsOf
      <4> QED BY <2>7, <2>8, <3>1, <4>2
    <3>2. CASE j # i
      BY <2>7, <2>8, <2>12, <3>2
    <3> QED BY <3>1, <3>2
  <2>13. Drawing' /\ RegistryFits'
    BY <1>1, <1>3, <2>4, <2>12 DEF Drawing, DrawingComes, RegistryFits
  <2>14. AnswersFit'
    <3>1. ASSUME NEW k \in DOMAIN sent', sent'[k].stage = "done", sent'[k].ok, ~sent'[k].overtaken
          PROVE  Current(sent[k])'
      <4>1. k \in DOMAIN sent /\ k # i /\ sent'[k] = sent[k]
        BY <2>7, <2>8, <2>9, <3>1
      <4>2. Current(sent[k])
        BY <3>1, <4>1 DEF AnswersFit
      <4> QED BY <1>3, <4>1, <4>2 DEF Current
    <3>2. ASSUME NEW k \in DOMAIN sent', sent'[k].cmd = "sleeve_svg", ~sent'[k].overtaken
          PROVE  sent'[k].arg = ui'.format
      BY <1>1, <2>7, <2>8, <2>9, <3>2 DEF AnswersFit
    <3> QED BY <3>1, <3>2 DEF AnswersFit
  <2>15. BusyEnds'
    <3>1. ~Page!Idle'
      BY <2>7, <2>8, <2>9 DEF Page!Idle
    <3> QED BY <3>1 DEF BusyEnds
  <2> QED BY <2>11, <2>13, <2>14, <2>15
<1> QED BY <1>2, <1>3 DEF Page!Begin

-----------------------------------------------------------------------------
LEMMA PanelsStart ==
  ASSUME Page!PanelsInit
  PROVE  PanelsInv
<1> DEFINE c == Page!Asks("theme_active", Null)
           u == [base |-> "library", tab |-> "tabInstalled", loaded |-> FALSE, years |-> Null,
                 previewed |-> FALSE, format |-> "square", catalog |-> Null,
                 busy |-> Null, shown |-> [p \in Page!Drawn |-> Null]]
<1>1. /\ sent = <<c>> /\ notices = <<>> /\ stale = [late |-> {}, broken |-> {}] /\ ui = u
      /\ \E p : disk = [history |-> 0, servers |-> FALSE, registry |-> FALSE, plugin |-> p,
                        secrets |-> FALSE, theme |-> Null, loads |-> TRUE]
  BY DEF Page!PanelsInit
<1>2. Wants("theme_active", Null)
  BY PanelsAssumption DEF Wants, Page!Commands, Page!Reads, OfPlugin
<1>3. WellAsked(c) /\ c.stage = "sent" /\ ~c.overtaken /\ c.cmd = "theme_active"
  BY <1>2, AskIsWell
<1> HIDE DEF c
<1>4. sent \in Seq(ToSet(sent)) /\ DOMAIN sent = {1} /\ sent[1] = c
  BY <1>1, FewCalls
<1>5. /\ DOMAIN ui = UiFields /\ DOMAIN ui.shown = Page!Drawn /\ ui.loaded = FALSE
      /\ ui.previewed = FALSE /\ ui.format \in Page!Formats /\ ui.busy = Null
      /\ \A p \in Page!Drawn : ui.shown[p] = Null
  BY <1>1 DEF UiFields, Page!Formats
<1>6. IsUi(ui)
  BY <1>5 DEF IsUi, Page!Drawn
<1>7. /\ DOMAIN disk = DiskFields /\ disk.registry = disk.servers
      /\ DOMAIN stale = {"late", "broken"}
  BY <1>1 DEF DiskFields
<1>8. notices \in Seq(ToSet(notices)) /\ Len(notices) = 0
  BY <1>1, FewCalls
<1>9. PanelShapes
  BY <1>3, <1>4, <1>6, <1>7, <1>8 DEF PanelShapes
<1>10. Drawing /\ RegistryFits
  BY <1>5, <1>7 DEF Drawing, Fits, RegistryFits
<1>11. AnswersFit
  BY <1>3, <1>4 DEF AnswersFit
<1>12. BusyEnds
  BY <1>5, <1>8 DEF BusyEnds
<1> QED BY <1>9, <1>10, <1>11, <1>12 DEF PanelsInv

LEMMA PanelsStep ==
  ASSUME PanelsInv, [Page!PanelsNext]_panelVars
  PROVE  PanelsInv'
<1>1. CASE Page!PanelsNext
  <2>1. CASE Page!Gesture
    BY <2>1, PanelGestureKeeps
  <2>2. CASE Page!AnswerComes
    BY <2>2, PanelAnswerKeeps
  <2>3. CASE Page!NoticeComes
    BY <2>3, NoticeKeeps
  <2>4. CASE Page!ListensRecorded
    BY <2>4, ListensKeep
  <2>5. CASE Page!ThemeEdited
    BY <2>5, ThemeEditedKeeps
  <2>6. ASSUME NEW i \in DOMAIN sent, Page!Short(i) \/ Page!Begin(i) \/ Page!Finish(i)
        PROVE  PanelsInv'
    BY <2>6, ShortKeeps, BeginKeeps, FinishKeeps
  <2> QED BY <1>1, <2>1, <2>2, <2>3, <2>4, <2>5, <2>6 DEF Page!PanelsNext
<1>2. CASE UNCHANGED panelVars
  BY <1>2 DEF panelVars, PanelsInv, PanelShapes, Drawing, DrawingComes, RegistryFits, AnswersFit,
              Current, BusyEnds, Page!Idle
<1> QED BY <1>1, <1>2

LEMMA QuietPanels ==
  ASSUME PanelsInv
  PROVE  PanelsCatchUp
<1> SUFFICES ASSUME sent = <<>>, notices = <<>>
             PROVE  /\ \A p \in Page!Drawn \ (stale.late \cup stale.broken) :
                         Fits(ui, disk, p)
                    /\ ui.busy = Null
  <2>1. ASSUME NEW p \in Page!Drawn, Fits(ui, disk, p), IsUi(ui)
        PROVE  \/ ui.shown[p] = Null
               \/ ui.shown[p] =
                    CASE p = "stats" -> IF ui.loaded THEN disk.history ELSE ui.shown[p]
                      [] p = "sleeve" -> IF ui.previewed THEN [of |-> disk.history, format |-> ui.format]
                                         ELSE ui.shown[p]
                      [] p \in {"providers", "servers"} -> disk.servers
                      [] p \in {"plugins", "badge"} -> disk.plugin
                      [] p = "secrets" -> disk.secrets
                      [] p = "themes" -> [ui.shown.themes EXCEPT !.active = disk.theme]
                      [] p = "worn" -> IF disk.loads THEN disk.theme ELSE ui.shown.worn
    <3>1. CASE p = "themes"
      <4>1. PICK t : t = ui.shown["themes"]
        OBVIOUS
      <4>2. t = Null \/ t = [active |-> disk.theme, themes |-> t.themes]
        BY <2>1, <3>1, <4>1 DEF Fits
      <4>3. t = Null \/ t = [t EXCEPT !.active = disk.theme]
        BY <4>2
      <4> QED BY <3>1, <4>1, <4>3
    <3>2. CASE p # "themes"
      BY <2>1, <3>2 DEF Fits, Page!Drawn
    <3> QED BY <3>1, <3>2
  <2>2. IsUi(ui)
    BY DEF PanelsInv, PanelShapes
  <2> QED BY <2>1, <2>2 DEF PanelsCatchUp, Page!PanelsCatchUp
<1>1. DOMAIN sent = {} /\ DOMAIN notices = {} /\ Len(notices) = 0
  OBVIOUS
<1>2. \A p \in Page!Drawn \ (stale.late \cup stale.broken) : Fits(ui, disk, p)
  BY <1>1 DEF PanelsInv, Drawing, DrawingComes
<1>3. Page!Idle
  BY <1>1 DEF Page!Idle
<1>4. ui.busy = Null
  <2>1. PICK k \in 0..Len(notices) :
          IF k = 0 THEN ui.busy = Null ELSE ~notices[k].grew /\ notices[k].busy = Null
    BY <1>3 DEF PanelsInv, BusyEnds
  <2> QED BY <1>1, <2>1
<1> QED BY <1>2, <1>4

(* What makes a panel right again is always under way.                     *)
THEOREM PanelsAreOnTheirWay == OneSpec => []PanelsInv
<1>1. OneInit => PanelsInv
  BY PanelsStart DEF OneInit
<1>2. PanelsInv /\ [OneNext]_<<part, vars, panelVars>> => PanelsInv'
  <2>1. [OneNext]_<<part, vars, panelVars>> => [Page!PanelsNext]_panelVars
    BY DEF OneNext
  <2> QED BY <2>1, PanelsStep
<1> QED BY <1>1, <1>2, PTL DEF OneSpec

(* "The numbers on screen must not go stale": once nothing is under way, a *)
(* panel that was drawn shows what is stored, or is marked to be computed  *)
(* again, and the busy line names no job, whatever the user, the player    *)
(* and failing commands did, and in whatever order answers and events      *)
(* came.                                                                   *)
THEOREM PanelsHold == OneSpec => []PanelsCatchUp
BY PanelsAreOnTheirWay, QuietPanels, PTL
=============================================================================
