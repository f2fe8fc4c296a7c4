------------------------------- MODULE Lookups -------------------------------
(***************************************************************************)
(* Asking the services on the network: the rate limiter of net/mod.rs, the *)
(* clients of identity/musicbrainz.rs, identity/acoustid.rs and            *)
(* artwork/lookup.rs with their retries, and the scripts of requests that  *)
(* the commands and the cover chain run over them.                         *)
(*                                                                         *)
(* The threads of one process share one limiter for each service: the core *)
(* thread resolves and imports, the cover worker looks covers up.  Time is *)
(* kept relative to now: "slot" is how far ahead of now the last reserved  *)
(* call is, "left" how long a thread still sleeps, and nothing further     *)
(* from now than an interval is told apart.  A sleep may end late, by      *)
(* MaxLate at most.                                                        *)
(***************************************************************************)
EXTENDS Integers, Sequences, FiniteSets

CONSTANTS
  Threads,
  Workers,    \* the threads that only look covers up
  Services,   \* musicbrainz, acoustid, archive
  Limited,    \* those with a limiter
  Interval,   \* MIN_INTERVAL of each; 0 without a limiter
  MaxLate,    \* how late a sleeping thread may wake
  Retries,    \* RATE_LIMIT_RETRIES
  MaxTracks   \* bound of the model: tracks of an import

LookupsAssumption ==
  /\ Workers \subseteq Threads /\ Limited \subseteq Services
  /\ Interval \in [Services -> Nat] /\ MaxLate \in Nat /\ Retries \in Nat /\ MaxTracks \in Nat

VARIABLES
  slot,     \* RateLimiter.last of each service
  thread,   \* what each thread is doing
  left,     \* what remains of its sleep, negative when it is late
  since     \* history: time since a thread last called a service

vars == <<slot, thread, left, since>>

Larger(a, b) == IF a >= b THEN a ELSE b
Smaller(a, b) == IF a <= b THEN a ELSE b

Idle == [pc |-> "idle", kind |-> "none", step |-> "none", album |-> FALSE, tracks |-> 0,
         attempt |-> 0]

Init ==
  /\ slot = [s \in Services |-> -Interval[s]]
  /\ thread = [t \in Threads |-> Idle] /\ left = [t \in Threads |-> 0]
  /\ since = [t \in Threads |-> [s \in Services |-> Interval[s]]]

ServiceOf(step) ==
  CASE step \in {"resolve", "releases", "search"} -> "musicbrainz"
    [] step = "sound" -> "acoustid"
    [] OTHER -> "archive"

\* A thread that may go on, or has slept as late as it may.
Due(t) == thread[t].pc = "sleep" /\ left[t] <= -MaxLate

Tick ==
  /\ \A t \in Threads : ~Due(t)
  /\ slot' = [s \in Services |-> Larger(slot[s] - 1, -Interval[s])]
  /\ left' = [t \in Threads |-> IF thread[t].pc = "sleep" THEN left[t] - 1 ELSE left[t]]
  /\ since' = [t \in Threads |-> [s \in Services |-> Smaller(since[t][s] + 1, Interval[s])]]
  /\ UNCHANGED thread

---------------------------------------------------------------------------
(* What a thread asks for.                                                 *)

Turn(t, step) == thread' = [thread EXCEPT ![t].pc = "turn", ![t].step = step, ![t].attempt = 0]

Rest(t) == thread' = [thread EXCEPT ![t] = Idle]

\* resolve, resolve --file, import, and a cover nobody nearer has.
Start(t) ==
  /\ thread[t].pc = "idle"
  /\ \E kind \in {"ask", "file", "import", "cover"}, album \in BOOLEAN :
       /\ t \in Workers => kind = "cover"
       /\ kind # "cover" => ~album
       /\ thread' = [thread EXCEPT ![t] =
            [Idle EXCEPT !.pc = "turn", !.kind = kind, !.step = "resolve", !.album = album,
                         !.tracks = IF kind = "import" THEN MaxTracks ELSE 1]]
  /\ UNCHANGED <<slot, left, since>>

\* What comes after an answer.  "useful": the chain found an authority, a
\* release was chosen, there was an image.
GoesOn(t, useful) ==
  LET job == thread[t]
      first == job.step = "resolve"
  IN  \/ first /\ job.kind = "ask" /\ Rest(t)
      \/ first /\ job.kind = "import" /\ job.tracks = 1 /\ Rest(t)
      \/ /\ first /\ job.kind = "import" /\ job.tracks > 1
         /\ thread' = [thread EXCEPT ![t].pc = "turn", ![t].attempt = 0, ![t].tracks = @ - 1]
      \/ first /\ job.kind = "file" /\ useful /\ Rest(t)
      \/ first /\ job.kind = "file" /\ ~useful /\ Turn(t, "sound")
      \/ first /\ job.kind = "cover" /\ useful /\ Turn(t, "releases")
      \/ first /\ job.kind = "cover" /\ ~useful /\ job.album /\ Turn(t, "search")
      \/ first /\ job.kind = "cover" /\ ~useful /\ ~job.album /\ Rest(t)
      \/ job.step \in {"releases", "search"} /\ useful /\ Turn(t, "front")
      \/ job.step = "releases" /\ ~useful /\ job.album /\ Turn(t, "search")
      \/ job.step = "releases" /\ ~useful /\ ~job.album /\ Rest(t)
      \/ job.step = "search" /\ ~useful /\ Rest(t)
      \/ job.step = "front" /\ Rest(t)
      \/ job.step = "front" /\ ~useful /\ Turn(t, "group")
      \/ job.step \in {"sound", "group"} /\ Rest(t)

---------------------------------------------------------------------------
(* One request.                                                            *)

\* RateLimiter::acquire: how long to wait, by the call last reserved.  The
\* time since a call that is still to come is none.
Wait(s) == Interval[s] - Larger(0, -slot[s])

\* A slip: the stamp is the time of the asking, not of the call.
AcquireSlip(t) ==
  LET s == ServiceOf(thread[t].step)
  IN  /\ thread[t].pc = "turn" /\ s \in Limited
      /\ left' = [left EXCEPT ![t] = Wait(s)]
      /\ slot' = [slot EXCEPT ![s] = 0]
      /\ thread' = [thread EXCEPT ![t].pc = "sleep"]
      /\ UNCHANGED since

\* The call is reserved under the lock, the sleep comes after it.
Acquire(t) ==
  LET s == ServiceOf(thread[t].step)
  IN  /\ thread[t].pc = "turn" /\ s \in Limited
      /\ left' = [left EXCEPT ![t] = Wait(s)]
      /\ slot' = [slot EXCEPT ![s] = Wait(s)]
      /\ thread' = [thread EXCEPT ![t].pc = "sleep"]
      /\ UNCHANGED since

\* The Cover Art Archive has no limiter.
NoLimiter(t) ==
  /\ thread[t].pc = "turn" /\ ServiceOf(thread[t].step) \notin Limited
  /\ left' = [left EXCEPT ![t] = 0]
  /\ thread' = [thread EXCEPT ![t].pc = "sleep"]
  /\ UNCHANGED <<slot, since>>

Call(t) ==
  LET s == ServiceOf(thread[t].step)
  IN  /\ thread[t].pc = "sleep" /\ left[t] <= 0
      /\ thread' = [thread EXCEPT ![t].pc = "call"]
      /\ since' = [since EXCEPT ![t][s] = 0]
      /\ left' = [left EXCEPT ![t] = 0]
      /\ UNCHANGED slot

\* 2xx, and the 404 that means it is not known.
Answered(t) ==
  /\ thread[t].pc = "call"
  /\ \E useful \in BOOLEAN : GoesOn(t, useful)
  /\ UNCHANGED <<slot, left, since>>

\* A slip: the attempt is not counted.
RefusedSlip(t) ==
  /\ thread[t].pc = "call" /\ ServiceOf(thread[t].step) \in Limited
  /\ thread' = [thread EXCEPT ![t].pc = "pause"]
  /\ UNCHANGED <<slot, left, since>>

\* 503 of MusicBrainz, 429 of AcoustID: two more tries, each after a pause
\* that comes on top of the limiter's.
Refused(t) ==
  /\ thread[t].pc = "call" /\ ServiceOf(thread[t].step) \in Limited
  /\ thread[t].attempt < Retries
  /\ thread' = [thread EXCEPT ![t].pc = "pause", ![t].attempt = @ + 1]
  /\ UNCHANGED <<slot, left, since>>

\* Any other status, and a network that fails: an import or a lookup ends.
Failed(t) ==
  /\ thread[t].pc = "call"
  /\ Rest(t)
  /\ UNCHANGED <<slot, left, since>>

\* The pause ends; how long it was is left to the scheduler.
Resume(t) ==
  /\ thread[t].pc = "pause"
  /\ thread' = [thread EXCEPT ![t].pc = "turn"]
  /\ UNCHANGED <<slot, left, since>>

Step(t) ==
  \/ Acquire(t) \/ NoLimiter(t) \/ Call(t) \/ Answered(t) \/ Refused(t) \/ Failed(t) \/ Resume(t)

Next == Tick \/ \E t \in Threads : Start(t) \/ Step(t)

Spec == Init /\ [][Next]_vars

\* Time passes, sleeps end and every request is answered or times out
\* (TIMEOUT of net/ureq_client.rs).
FairSpec == Spec /\ WF_vars(Tick) /\ \A t \in Threads : WF_vars(Step(t))

---------------------------------------------------------------------------
\* Times lie within an interval of now.
TypeOK ==
  /\ \A s \in Services : slot[s] \in -Interval[s]..Interval[s]
  /\ \A t \in Threads, s \in Services : since[t][s] \in 0..Interval[s]

\* A thread's calls to a service are an interval apart, but for the time it
\* woke late for the one before, however the other threads interleave and
\* whatever is refused and tried again (RateLimiter::acquire): n threads make at
\* most n calls in an interval.  More is not so: `last` may be a moment to come,
\* duration_since of it is zero, and two threads may then call at once.
OwnCallsAreSpaced ==
  [][\A t \in Threads, s \in Limited :
       Call(t) /\ ServiceOf(thread[t].step) = s => since[t][s] >= Interval[s] - MaxLate]_vars

\* A lookup ends, with an answer or an error: refusals are not retried for
\* ever (MusicBrainzLookup::get_json, AcoustIdLookup::lookup).
LookupsReturn == \A t \in Threads : thread[t].pc # "idle" ~> thread[t].pc = "idle"
=============================================================================
