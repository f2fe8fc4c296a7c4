--------------------------- MODULE PluginProvider ---------------------------
(***************************************************************************)
(* One plugin and its engines: PluginProvider (plugin/mod.rs), the worker  *)
(* that talks to an engine's thread and the thread itself                  *)
(* (plugin/script.rs), and the store the plugin keeps (plugin/host.rs).    *)
(*                                                                         *)
(* Every engine has a thread of its own, numbered by its start.  The core  *)
(* thread and the cover worker call the same plugin: a call holds the      *)
(* provider's mutex from its first look to its answer.  A time limit gives *)
(* up on an engine; the thread goes on until the call it is stuck in ends. *)
(*                                                                         *)
(* A call stores at most one value, under a key of its own; a script that  *)
(* stores while it loads is left out, as are the network, the tools and    *)
(* the secret files.  Time is not counted: a limit may run out whenever    *)
(* somebody waits.                                                         *)
(***************************************************************************)
EXTENDS Naturals, FiniteSets, SequencesExt

CONSTANTS
  Caller,     \* threads of the program that call the plugin
  MaxStarts,  \* MAX_STARTS
  MaxCalls    \* bound of the model: calls made

VARIABLES
  worker,    \* the engine in use, 0 for none
  starts,
  giveUp,    \* a reason not to try again is kept
  closed,    \* the provider was dropped
  caller,    \* what each caller does, and the answer it was sent
  calls,     \* calls made so far, which number them
  thread,    \* one per start
  \* the store's file and the temporary file next to it
  disk, temp,
  \* history, read by no action
  halfDone,  \* engines on which a call ran out of time or fell over
  stored,    \* calls that were told their value is stored
  strayed    \* a thread given up wrote to the store

provider == <<worker, starts, giveUp, closed>>
files == <<disk, temp>>
history == <<halfDone, stored, strayed>>
vars == <<provider, caller, calls, thread, files, history>>

Engine == 1..MaxStarts
CallNumber == 1..MaxCalls
Answer == {"value", "threw", "interrupted", "contract"}

CallerState ==
  [pc : {"idle", "locking", "deciding", "starting", "sending", "waiting", "dropping",
         "joining"},
   call : 0..MaxCalls, reply : Answer \cup {"none"}]

Thread ==
  [pc : {"none", "loading", "idle", "running", "renaming", "gone"},
   open : BOOLEAN,                \* somebody holds the sending end of its jobs
   ready : {"none", "ok", "contract", "failed"},
   inbox : UNION {[1..n -> CallNumber] : n \in 0..1}, job : 0..MaxCalls,
   read : BOOLEAN,                \* the store was read
   snapshot : SUBSET CallNumber,  \* the store as this engine knows it
   next : SUBSET CallNumber]      \* as it is being written

TypeOK ==
  /\ worker \in 0..MaxStarts /\ starts \in 0..MaxStarts
  /\ giveUp \in BOOLEAN /\ closed \in BOOLEAN
  /\ caller \in [Caller -> CallerState] /\ calls \in 0..MaxCalls
  /\ thread \in [Engine -> Thread]
  /\ disk \in SUBSET CallNumber
  /\ temp \in [there : BOOLEAN, content : SUBSET CallNumber]
  /\ halfDone \in SUBSET Engine /\ stored \in SUBSET CallNumber
  /\ strayed \in BOOLEAN

NoTemp == [there |-> FALSE, content |-> {}]

NewThread == [pc |-> "none", open |-> FALSE, ready |-> "none", inbox |-> <<>>, job |-> 0,
              read |-> FALSE, snapshot |-> {}, next |-> {}]

Init ==
  /\ worker = 0 /\ starts = 0 /\ giveUp = FALSE /\ closed = FALSE
  /\ caller = [c \in Caller |-> [pc |-> "idle", call |-> 0, reply |-> "none"]]
  /\ calls = 0
  /\ thread = [t \in Engine |-> NewThread]
  /\ disk = {} /\ temp = NoTemp
  /\ halfDone = {} /\ stored = {} /\ strayed = FALSE

-----------------------------------------------------------------------------
(* A caller: PluginProvider::call, start and ScriptWorker::start, call,    *)
(* shutdown.                                                               *)

Free == \A c \in Caller : caller[c].pc \in {"idle", "locking"}

Goes(c, to) == caller' = [caller EXCEPT ![c].pc = to]
Returns(c) == caller' = [caller EXCEPT ![c] = [pc |-> "idle", call |-> 0, reply |-> "none"]]

Call(c) ==
  /\ caller[c].pc = "idle"
  /\ ~closed /\ calls < MaxCalls
  /\ calls' = calls + 1
  /\ caller' = [caller EXCEPT ![c].pc = "locking", ![c].call = calls']
  /\ UNCHANGED <<provider, thread, files, history>>

Lock(c) ==
  /\ caller[c].pc = "locking"
  /\ Free
  /\ Goes(c, "deciding")
  /\ UNCHANGED <<provider, calls, thread, files, history>>

IsRefused == giveUp

Refuse(c) ==
  /\ caller[c].pc = "deciding"
  /\ IsRefused
  /\ Returns(c)
  /\ UNCHANGED <<provider, calls, thread, files, history>>

UseWorker(c) ==
  /\ caller[c].pc = "deciding"
  /\ ~IsRefused /\ worker # 0
  /\ Goes(c, "sending")
  /\ UNCHANGED <<provider, calls, thread, files, history>>

MayStart == starts < MaxStarts

GiveUp(c) ==
  /\ caller[c].pc = "deciding"
  /\ ~IsRefused /\ worker = 0 /\ ~MayStart
  /\ giveUp' = TRUE
  /\ Returns(c)
  /\ UNCHANGED <<worker, starts, closed, calls, thread, files, history>>

Start(c) ==
  /\ caller[c].pc = "deciding"
  /\ ~IsRefused /\ worker = 0 /\ MayStart
  /\ starts' = starts + 1
  /\ thread' = [thread EXCEPT ![starts'] = [NewThread EXCEPT !.pc = "loading", !.open = TRUE]]
  /\ Goes(c, "starting")
  /\ UNCHANGED <<worker, giveUp, closed, calls, files, history>>

(* The sending end of the jobs is dropped.                                 *)
LetGo(t) == [thread EXCEPT ![t].open = FALSE]

Started(c) ==
  /\ caller[c].pc = "starting"
  /\ thread[starts].ready = "ok"
  /\ worker' = starts
  /\ Goes(c, "sending")
  /\ UNCHANGED <<starts, giveUp, closed, calls, thread, files, history>>

(* The load failed, the thread fell over, or the time ran out; only a      *)
(* broken contract is not worth a second try.                              *)
StartFails(c) ==
  /\ caller[c].pc = "starting"
  /\ thread[starts].ready # "ok"
  /\ giveUp' = (thread[starts].ready = "contract")
  /\ thread' = LetGo(starts)
  /\ Returns(c)
  /\ UNCHANGED <<worker, starts, closed, calls, files, history>>

Send(c) ==
  /\ caller[c].pc = "sending"
  /\ IF thread[worker].pc = "gone"
       THEN /\ Goes(c, "dropping")
            /\ thread' = thread
       ELSE /\ thread' = [thread EXCEPT ![worker].inbox = Append(@, caller[c].call)]
            /\ Goes(c, "waiting")
  /\ UNCHANGED <<provider, calls, files, history>>

(* Slip: an engine that only ran out of time is kept.                      *)
DropsEngineSlip(outcome) == outcome = "fell"

DropsEngine(outcome) == outcome \in {"interrupted", "silence", "fell"}

Ends(c, outcome) ==
  IF DropsEngine(outcome) THEN Goes(c, "dropping") ELSE Returns(c)

Answered(c) ==
  /\ caller[c].pc = "waiting"
  /\ caller[c].reply # "none"
  /\ Ends(c, caller[c].reply)
  /\ UNCHANGED <<provider, calls, thread, files, history>>

(* Slip: recv instead of recv_timeout.                                     *)
TimesOutSlip(c) == caller[c].pc = "none" /\ UNCHANGED vars

TimesOut(c) ==
  /\ caller[c].pc = "waiting"
  /\ caller[c].reply = "none" /\ thread[worker].pc # "gone"
  /\ halfDone' = halfDone \cup {worker}
  /\ Ends(c, "silence")
  /\ UNCHANGED <<provider, calls, thread, files, stored, strayed>>

FellOver(c) ==
  /\ caller[c].pc = "waiting"
  /\ caller[c].reply = "none" /\ thread[worker].pc = "gone"
  /\ Ends(c, "fell")
  /\ UNCHANGED <<provider, calls, thread, files, history>>

(* state.worker = None drops the worker, whose own drop closes the jobs... *)
CloseJobs(c) ==
  /\ caller[c].pc = "dropping"
  /\ worker' = 0
  /\ thread' = LetGo(worker)
  /\ Goes(c, "joining")
  /\ UNCHANGED <<starts, giveUp, closed, calls, files, history>>

(* ...and waits for the thread, but not long, the mutex still held.        *)
JoinEnds(c) ==
  /\ caller[c].pc = "joining"
  /\ Returns(c)
  /\ UNCHANGED <<provider, calls, thread, files, history>>

(* The last owner drops the provider.                                      *)
DropProvider ==
  /\ \A c \in Caller : caller[c].pc = "idle"
  /\ ~closed
  /\ closed' = TRUE
  /\ worker' = 0
  /\ thread' = IF worker = 0 THEN thread ELSE LetGo(worker)
  /\ UNCHANGED <<starts, giveUp, caller, calls, files, history>>

CallerStep(c) ==
  \/ Refuse(c) \/ UseWorker(c) \/ GiveUp(c) \/ Start(c) \/ Started(c) \/ StartFails(c)
  \/ Send(c) \/ Answered(c) \/ TimesOut(c) \/ FellOver(c) \/ CloseJobs(c) \/ JoinEnds(c)

-----------------------------------------------------------------------------
(* An engine's thread: worker_main.                                        *)

(* Somebody still waits for this engine to load.                           *)
Awaited(t) == t = starts /\ \E c \in Caller : caller[c].pc = "starting"

LoadEnds(t) ==
  /\ thread[t].pc = "loading"
  /\ \E r \in {"ok", "contract", "failed"} :
       thread' = [thread EXCEPT ![t].ready = IF Awaited(t) THEN r ELSE "none",
                                ![t].pc = IF r = "ok" /\ Awaited(t) THEN "idle" ELSE "gone"]
  /\ UNCHANGED <<provider, caller, calls, files, history>>

TakeJob(t) ==
  /\ thread[t].pc = "idle"
  /\ thread[t].inbox # <<>>
  /\ thread' = [thread EXCEPT ![t].pc = "running", ![t].job = Head(thread[t].inbox),
                              ![t].inbox = Tail(thread[t].inbox)]
  /\ UNCHANGED <<provider, caller, calls, files, history>>

(* The jobs are closed: the loop ends.                                     *)
Exit(t) ==
  /\ thread[t].pc = "idle"
  /\ thread[t].inbox = <<>> /\ ~thread[t].open
  /\ thread' = [thread EXCEPT ![t].pc = "gone"]
  /\ UNCHANGED <<provider, caller, calls, files, history>>

ReadStore(t) ==
  /\ thread[t].pc = "running"
  /\ ~thread[t].read
  /\ thread' = [thread EXCEPT ![t].read = TRUE, ![t].snapshot = disk]
  /\ UNCHANGED <<provider, caller, calls, files, history>>

(* storage_write: the engine's snapshot and the new value go to a file     *)
(* named by the process, not by the thread...                              *)
WriteTemp(t) ==
  /\ thread[t].pc = "running" /\ thread[t].read
  /\ thread[t].job \notin thread[t].snapshot
  /\ LET next == thread[t].snapshot \cup {thread[t].job}
     IN  /\ temp' = [there |-> TRUE, content |-> next]
         /\ thread' = [thread EXCEPT ![t].pc = "renaming", ![t].next = next]
  /\ strayed' = (strayed \/ t # worker)
  /\ UNCHANGED <<provider, caller, calls, disk, halfDone, stored>>

(* Slip: the snapshot stays as it was read.                                *)
SnapshotAfterSlip(t) == thread[t].snapshot

SnapshotAfter(t) == thread[t].next

(* ...which is renamed into place; if it is there no more, the plugin gets *)
(* an error.                                                               *)
RenameTemp(t) ==
  /\ thread[t].pc = "renaming"
  /\ temp' = NoTemp
  /\ IF temp.there
       THEN /\ disk' = temp.content
            /\ stored' = stored \cup {thread[t].job}
            /\ thread' = [thread EXCEPT ![t].pc = "running", ![t].next = {},
                                        ![t].snapshot = SnapshotAfter(t)]
       ELSE /\ thread' = [thread EXCEPT ![t].pc = "running", ![t].next = {}]
            /\ UNCHANGED <<disk, stored>>
  /\ strayed' = (strayed \/ t # worker)
  /\ UNCHANGED <<provider, caller, calls, halfDone>>

(* A value, an exception, a broken contract, or the interrupt hook ran out *)
(* the time.  If the caller stopped waiting, the answer has nowhere to go. *)
Reply(t) ==
  /\ thread[t].pc = "running"
  /\ \E a \in Answer :
       /\ caller' = [c \in Caller |->
            IF caller[c].pc = "waiting" /\ caller[c].call = thread[t].job
              THEN [caller[c] EXCEPT !.reply = a] ELSE caller[c]]
       /\ halfDone' = IF a = "interrupted" THEN halfDone \cup {t} ELSE halfDone
  /\ thread' = [thread EXCEPT ![t].pc = "idle", ![t].job = 0]
  /\ UNCHANGED <<provider, calls, files, stored, strayed>>

(* A thread falls over: its channels close with it.                        *)
Fall(t) ==
  /\ thread[t].pc \in {"loading", "running", "renaming"}
  /\ thread' = [thread EXCEPT ![t].pc = "gone", ![t].job = 0, ![t].next = {}]
  /\ halfDone' = halfDone \cup {t}
  /\ UNCHANGED <<provider, caller, calls, files, stored, strayed>>

ThreadStep(t) ==
  \/ LoadEnds(t) \/ TakeJob(t) \/ Exit(t) \/ ReadStore(t) \/ WriteTemp(t) \/ RenameTemp(t)
  \/ Reply(t) \/ Fall(t)

-----------------------------------------------------------------------------
Next == \/ \E c \in Caller : Call(c) \/ Lock(c) \/ CallerStep(c)
        \/ \E t \in Engine : ThreadStep(t)
        \/ DropProvider

Spec == Init /\ [][Next]_vars

(* The callers run and their clocks tick; the mutex is given back again    *)
(* and again.  Nothing makes a plugin's own code come to an end.           *)
FairSpec == /\ Spec
            /\ \A c \in Caller : WF_vars(CallerStep(c)) /\ SF_vars(Lock(c))

-----------------------------------------------------------------------------
(* "We do not carry on with the state a timed-out call left half done": an  *)
(* engine is asked only when every call before was answered, it works on   *)
(* nothing else meanwhile, and a thread given up is never asked again.      *)
EngineIsClean ==
  \A c \in Caller :
    caller[c].pc = "waiting" /\ caller[c].reply = "none" /\ thread[worker].pc # "gone" =>
      /\ worker \notin halfDone
      /\ <<thread[worker].job>> \o thread[worker].inbox
           \in {<<caller[c].call>>, <<0, caller[c].call>>}

(* Of all the threads ever started only the present engine's has a loop     *)
(* that waits for more: the others end with the call they are stuck in.     *)
OthersEnd ==
  \A t \in Engine : thread[t].open =>
    /\ t = starts /\ ~closed
    /\ worker = t \/ Awaited(t)

(* The two together: whatever ran out of time or fell over is left behind    *)
(* for good (ScriptWorker, PluginProvider::call).                           *)
EnginesAreLeftBehind == EngineIsClean /\ OthersEnd

(* What the plugin was told to be stored is stored, through every restart   *)
(* of its engine; unless a thread that was given up writes its own old      *)
(* snapshot, which nothing in the code prevents.                            *)
StoredIsKept == strayed \/ stored \subseteq disk

(* "A stuck plugin does not stall the core": a call returns, whatever the   *)
(* plugin does and whoever else calls it.                                   *)
CallsReturn == \A c \in Caller : []<>(caller[c].pc = "idle")
=============================================================================
