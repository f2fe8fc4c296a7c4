---------------------------- MODULE SourcesProofs ----------------------------
(***************************************************************************)
(* What the two places that wait for somebody they do not trust promise,   *)
(* whatever answers them: HttpSource a decoder, for every size of the      *)
(* buffer, of a chunk and of a body, and PluginProvider a plugin's callers,*)
(* for every number of callers, starts and calls.                          *)
(*                                                                         *)
(* HttpSource: an end of file is believed when it is reported; the         *)
(* invariant says why it may be: once `done` is seen nothing more can      *)
(* arrive or fail, and a failure has filled the slot before.               *)
(*                                                                         *)
(* PluginProvider: a call is never answered by an engine on which another  *)
(* went wrong, and what was stored stays stored.  A call holds the mutex   *)
(* from its first look to its answer, so between two calls the engine in   *)
(* use is quiet; a call number is used once, so what a thread left behind  *)
(* still answers reaches nobody.                                           *)
(***************************************************************************)
EXTENDS MCSources, Sequences, SequenceTheorems, TLAPS

(***************************************************************************)
(* HttpSource.                                                             *)
(***************************************************************************)

(* Where the download is when it can no longer fail nor receive.           *)
Over == {"waking", "ending", "lastWake", "gone"}

(* The flag comes last, and what failed is known by where the thread is.   *)
Phases ==
  /\ done => download.pc \in Over
  /\ download.pc \in {"receiving", "appending", "notifying"} => ~failed
  /\ download.pc \in {"failing", "closing", "waking"} => failed

(* The bytes received are those kept and the chunk at hand.                *)
Bytes ==
  /\ data <= received
  /\ download.pc = "appending" => received = data + download.got
  /\ ~failed /\ download.pc # "appending" => received = data

(* A failure is in the slot until the reader has been given it.            *)
ErrorSlot ==
  /\ error => failed
  /\ failed => error \/ told \/ download.pc = "failing"
  /\ told => failed /\ done /\ ~error

(* Between a look at the buffer and what follows from it the reader holds  *)
(* the lock, so what it saw stays true.                                    *)
ReaderAt ==
  /\ locked <=> reader.pc \in {"looking", "asking", "taking", "sleeping"}
  /\ reader.pc \in {"asking", "taking"} => reader.pos >= data
  /\ reader.pc = "taking" => done

Answers ==
  /\ reader.answer # "none" => reader.pc = "idle"
  /\ reader.answer = "end" => done /\ (IF failed THEN told ELSE reader.pos >= received)
  /\ reader.answer = "error" => done /\ failed /\ reader.pos >= data

IInv == TypeOK /\ Phases /\ Bytes /\ ErrorSlot /\ ReaderAt /\ Answers

LEMMA Sizes == MaxBuffer \in Nat /\ Chunk \in Nat /\ MaxBody \in Nat
<1> DEFINE sizes == {MaxBuffer, Chunk, MaxBody}
<1>1. sizes \subseteq Nat
  BY HttpAssumption DEF HttpAssumption
<1>2. MaxBuffer \in sizes /\ Chunk \in sizes /\ MaxBody \in sizes
  OBVIOUS
<1> HIDE DEF sizes
<1> QED BY <1>1, <1>2

LEMMA InitEstablishes == Init => IInv
<1>1. Init => TypeOK
  <2>1. 0 \in 0..MaxBuffer /\ 0 \in 0..MaxBody /\ 0 \in 0..Chunk
    BY Sizes
  <2>2. Init => /\ data \in 0..MaxBuffer /\ received \in 0..MaxBody
                /\ {done, error, locked, failed, told} \subseteq BOOLEAN
    BY <2>1, Zenon DEF Init
  <2>3. Init => download \in [pc : {"receiving", "appending", "notifying", "failing",
                                  "closing", "waking", "ending", "lastWake", "gone"},
                             got : 0..Chunk]
    BY <2>1 DEF Init
  <2>4. Init => reader \in [pc : {"idle", "locking", "looking", "asking", "taking",
                                "sleeping", "waiting", "dropped"},
                           pos : 0..MaxBody,
                           answer : {"none", "data", "end", "error"}]
    BY <2>1 DEF Init
  <2> QED BY <2>2, <2>3, <2>4, Zenon DEF TypeOK
<1>2. Init => Phases /\ Bytes /\ ErrorSlot /\ ReaderAt /\ Answers
  BY DEF Init, Phases, Bytes, ErrorSlot, ReaderAt, Answers, Over
<1> QED BY <1>1, <1>2 DEF IInv

(* A receive: bytes, the end or an error; none of it once `done` is set.   *)
LEMMA ReceivePreserves ==
  ASSUME IInv, Receive \/ ReceiveEnd \/ ReceiveError
  PROVE  IInv'
<1> USE DEF IInv, TypeOK, Phases, Bytes, ErrorSlot, ReaderAt, Answers, Over,
            shared, history
<1>1. CASE Receive
  BY <1>1 DEF Receive
<1>2. CASE ReceiveEnd
  BY <1>2 DEF ReceiveEnd
<1>3. CASE ReceiveError
  BY <1>3 DEF ReceiveError
<1> QED BY <1>1, <1>2, <1>3

(* The download thread's own steps.                                        *)
LEMMA DownloadPreserves ==
  ASSUME IInv, DownloadStep
  PROVE  IInv'
<1> USE DEF IInv, TypeOK, Phases, Bytes, ErrorSlot, ReaderAt, Answers, Over,
            shared, history
<1>1. CASE AppendChunk
  <2>1. ~done /\ ~failed /\ data + download.got = received
    BY <1>1 DEF AppendChunk
  <2>2. download.got \in Nat /\ data \in Nat
    BY Sizes
  <2>3. CASE TooMuch
    BY <1>1, <2>1, <2>2, <2>3, Sizes DEF AppendChunk
  <2>4. CASE ~TooMuch
    <3>1. data + download.got \in 0..MaxBuffer
      BY <2>2, <2>4, Sizes DEF TooMuch
    <3>2. /\ data' = received /\ failed' = failed
          /\ download' = [pc |-> "notifying", got |-> 0]
      BY <1>1, <2>1, <2>4 DEF AppendChunk
    <3>3. reader.answer \in {"none", "data"} /\ reader.pc \notin {"asking", "taking"}
      BY <1>1, <2>1 DEF AppendChunk
    <3> QED BY <1>1, <2>1, <3>1, <3>2, <3>3, Sizes DEF AppendChunk
  <2> QED BY <2>3, <2>4
<1>2. CASE NotifyData
  BY <1>2 DEF NotifyData, Wake, Woken
<1>3. CASE Fail
  BY <1>3 DEF Fail
<1>4. CASE FailDone
  BY <1>4 DEF FailDone
<1>5. CASE FailNotify
  BY <1>5 DEF FailNotify, Wake, Woken
<1>6. CASE End
  BY <1>6 DEF End
<1>7. CASE EndNotify
  BY <1>7 DEF EndNotify, Wake, Woken
<1> QED BY <1>1, <1>2, <1>3, <1>4, <1>5, <1>6, <1>7 DEF DownloadStep

(* The reader's steps.                                                     *)
LEMMA ReaderPreserves ==
  ASSUME IInv, Seek \/ Read \/ ReaderStep \/ DropSource
  PROVE  IInv'
<1> USE DEF IInv, TypeOK, Phases, Bytes, ErrorSlot, ReaderAt, Answers, Over,
            shared, history
<1>1. CASE Seek
  BY <1>1 DEF Seek
<1>2. CASE Read
  BY <1>2 DEF Read
<1>3. CASE Lock
  BY <1>3 DEF Lock
<1>4. CASE Give
  <2>1. PICK n \in 1..(data - reader.pos) :
          reader' = [pc |-> "idle", pos |-> reader.pos + n, answer |-> "data"]
    BY <1>4 DEF Give
  <2>2. data \in Nat /\ reader.pos \in Nat /\ data <= MaxBody
    BY Sizes
  <2>3. reader.pos + n \in 0..MaxBody
    BY <2>2, Sizes
  <2> QED BY <1>4, <2>1, <2>3 DEF Give
<1>5. CASE RunDry
  BY <1>5 DEF RunDry
<1>6. CASE AskDone
  BY <1>6 DEF AskDone
<1>7. CASE TakeError
  BY <1>7 DEF TakeError, Answer
<1>8. CASE Sleep
  BY <1>8 DEF Sleep
<1>9. CASE WaitOver
  BY <1>9 DEF WaitOver
<1>10. CASE DropSource
  BY <1>10 DEF DropSource
<1> QED
  BY <1>1, <1>2, <1>3, <1>4, <1>5, <1>6, <1>7, <1>8, <1>9, <1>10 DEF ReaderStep

(* The invariant is inductive: in every reachable state the flag is set    *)
(* only after the slot, and what the reader saw under the lock still holds.*)
THEOREM SourceInvariant == Spec => []IInv
<1>1. IInv /\ [Next]_vars => IInv'
  <2> SUFFICES ASSUME IInv, [Next]_vars PROVE IInv'
    OBVIOUS
  <2>1. CASE Next
    BY <2>1, ReceivePreserves, DownloadPreserves, ReaderPreserves DEF Next
  <2>2. CASE UNCHANGED vars
    BY <2>2 DEF vars, shared, history, IInv, TypeOK, Phases, Bytes, ErrorSlot,
                ReaderAt, Answers, Over
  <2> QED BY <2>1, <2>2
<1> QED BY <1>1, InitEstablishes, PTL DEF Spec

(* The buffer never grows past its cap and no position past the bytes the  *)
(* server sent is read.                                                    *)
THEOREM SourceTypeCorrect == Spec => []TypeOK
<1>1. IInv => TypeOK
  BY DEF IInv
<1> QED BY <1>1, SourceInvariant, PTL

(* A track is never silently cut off: an end of file means that everything *)
(* sent before it was readable, or that the reader was given the error;    *)
(* an error comes after the last byte that arrived.                        *)
THEOREM NothingIsCutOffHolds == Spec => []NothingIsCutOff
<1>1. IInv => NothingIsCutOff
  BY DEF IInv, Answers, NothingIsCutOff
<1> QED BY <1>1, SourceInvariant, PTL

-----------------------------------------------------------------------------
(* The refinement.  A read is under way, as the mapping says it.           *)
Asked == reader.pc \notin {"idle", "dropped"}

LEMMA InitRefines == Init => Stream!Init
  BY DEF Init, Stream!Init

(* The server's bytes, its end and its errors.                             *)
LEMMA ReceiveRefines ==
  ASSUME IInv, Receive \/ ReceiveEnd \/ ReceiveError
  PROVE  [Stream!Next]_Stream!vars
<1> USE DEF IInv, TypeOK, Phases, Over, shared, history
<1>1. CASE Receive
  <2>1. PICK n \in 1..Chunk : received + n <= MaxBody /\ received' = received + n
    BY <1>1 DEF Receive
  <2>2. received' \in (received + 1)..MaxBody
    BY <2>1, Sizes
  <2>3. ~done /\ UNCHANGED <<shared, reader, failed, told>>
    BY <1>1 DEF Receive
  <2>4. Stream!Send
    BY <2>2, <2>3 DEF Stream!Send
  <2> QED BY <2>4 DEF Stream!Next
<1>2. CASE ReceiveEnd
  BY <1>2 DEF ReceiveEnd, Stream!vars
<1>3. CASE ReceiveError
  <2>1. ~done /\ UNCHANGED <<shared, reader, received, told>>
    BY <1>3 DEF ReceiveError
  <2> QED BY <2>1 DEF Stream!vars
<1> QED BY <1>1, <1>2, <1>3

(* A chunk arrives; the flag finishes the stream or breaks it.             *)
LEMMA DownloadRefines ==
  ASSUME IInv, DownloadStep
  PROVE  [Stream!Next]_Stream!vars
<1> USE DEF IInv, TypeOK, Phases, Bytes, ErrorSlot, Over, shared, history
<1>1. CASE AppendChunk
  <2>1. ~done /\ data + download.got = received /\ UNCHANGED <<done, error, locked, reader, received, told>>
    BY <1>1 DEF AppendChunk
  <2>2. CASE TooMuch
    <3>1. data' = data
      BY <1>1, <2>2 DEF AppendChunk
    <3> QED BY <2>1, <3>1 DEF Stream!vars
  <2>3. CASE ~TooMuch
    <3>1. data' = received /\ data' <= MaxBuffer
      BY <1>1, <2>1, <2>3, Sizes DEF AppendChunk, TooMuch
    <3>2. CASE download.got = 0
      <4>1. data' = data
        BY <2>1, <3>1, <3>2, Sizes
      <4> QED BY <2>1, <4>1 DEF Stream!vars
    <3>3. CASE download.got # 0
      <4>1. data' \in (data + 1)..received
        BY <2>1, <3>1, <3>3, Sizes
      <4>2. Stream!Arrive
        BY <2>1, <3>1, <4>1 DEF Stream!Arrive
      <4> QED BY <4>2 DEF Stream!Next
    <3> QED BY <3>2, <3>3
  <2> QED BY <2>2, <2>3
<1>2. CASE NotifyData \/ FailNotify \/ EndNotify
  <2>1. /\ UNCHANGED <<shared, history>>
        /\ reader'.pos = reader.pos /\ reader'.answer = reader.answer
        /\ Asked' = Asked
    BY <1>2 DEF NotifyData, FailNotify, EndNotify, Wake, Woken, Asked
  <2> QED BY <2>1 DEF Stream!vars, Asked
<1>3. CASE Fail
  BY <1>3 DEF Fail, Stream!vars
<1>4. CASE FailDone
  <2>1. ~done /\ done' /\ failed /\ UNCHANGED <<data, error, locked, reader, history>>
    BY <1>4 DEF FailDone
  <2>2. Stream!Break
    BY <2>1 DEF Stream!Break
  <2> QED BY <2>2 DEF Stream!Next
<1>5. CASE End
  <2>1. done' /\ UNCHANGED <<data, error, locked, reader, history>>
    BY <1>5 DEF End
  <2>2. CASE done
    BY <2>1, <2>2 DEF Stream!vars
  <2>3. CASE ~done /\ failed
    <3>1. Stream!Break
      BY <2>1, <2>3 DEF Stream!Break
    <3> QED BY <3>1 DEF Stream!Next
  <2>4. CASE ~done /\ ~failed
    <3>1. data = received
      BY <1>5, <2>4 DEF End
    <3>2. Stream!Finish
      BY <2>1, <2>4, <3>1 DEF Stream!Finish
    <3> QED BY <3>2 DEF Stream!Next
  <2> QED BY <2>2, <2>3, <2>4
<1> QED BY <1>1, <1>2, <1>3, <1>4, <1>5 DEF DownloadStep

(* A reader's step that answers is the stream's answer; the others are not  *)
(* seen.                                                                    *)
LEMMA ReaderRefines ==
  ASSUME IInv, Seek \/ Read \/ ReaderStep \/ DropSource
  PROVE  [Stream!Next]_Stream!vars
<1> USE DEF IInv, TypeOK, Phases, Bytes, ErrorSlot, ReaderAt, Answers, Over, shared, history
<1>1. CASE Seek
  <2>1. PICK to \in 0..MaxBody : reader' = [reader EXCEPT !.pos = to, !.answer = "none"]
    BY <1>1 DEF Seek
  <2>2. reader'.pos \in 0..MaxBody /\ reader'.answer = "none" /\ reader'.pc = "idle"
    BY <1>1, <2>1 DEF Seek
  <2>3. Stream!Seek
    BY <1>1, <2>2 DEF Seek, Stream!Seek
  <2> QED BY <2>3 DEF Stream!Next
<1>2. CASE Read
  <2>1. reader.pc = "idle" /\ reader'.pc = "locking" /\ reader'.answer = "none"
        /\ reader'.pos = reader.pos /\ UNCHANGED <<shared, download, history>>
    BY <1>2 DEF Read
  <2>2. Stream!Ask
    BY <2>1 DEF Stream!Ask
  <2> QED BY <2>2 DEF Stream!Next
<1>3. CASE Give
  <2>1. PICK n \in 1..(data - reader.pos) :
          reader' = [pc |-> "idle", pos |-> reader.pos + n, answer |-> "data"]
    BY <1>3 DEF Give
  <2>2. data \in Nat /\ reader.pos \in Nat
    BY Sizes
  <2>3. reader'.pos \in (reader.pos + 1)..data /\ reader'.answer = "data" /\ reader'.pc = "idle"
    BY <2>1, <2>2
  <2>4. reader.pc = "looking" /\ UNCHANGED <<data, done, error, download, history>>
    BY <1>3 DEF Give
  <2>5. Stream!ReplyData
    BY <2>3, <2>4 DEF Stream!ReplyData, Stream!Reply
  <2> QED BY <2>5 DEF Stream!Next
<1>4. CASE TakeError
  <2>1. /\ reader.pc = "taking" /\ reader'.pc = "idle" /\ reader'.pos = reader.pos
        /\ reader'.answer = (IF error THEN "error" ELSE "end")
        /\ UNCHANGED <<data, done, download, received, failed>>
    BY <1>4 DEF TakeError, Answer
  <2>2. done /\ reader.pos >= data /\ told' = (told \/ error)
    BY <1>4 DEF TakeError
  <2>3. CASE error
    <3>1. failed /\ ~told /\ told'
      BY <2>2, <2>3
    <3>2. Stream!ReplyError
      BY <2>1, <2>2, <2>3, <3>1 DEF Stream!ReplyError, Stream!Reply
    <3> QED BY <3>2 DEF Stream!Next
  <2>4. CASE ~error
    <3>1. told' = told /\ (failed => told)
      BY <2>2, <2>4
    <3>2. Stream!ReplyEnd
      BY <2>1, <2>2, <2>4, <3>1 DEF Stream!ReplyEnd, Stream!Reply
    <3> QED BY <3>2 DEF Stream!Next
  <2> QED BY <2>3, <2>4
<1>5. CASE Lock \/ RunDry \/ AskDone \/ Sleep \/ WaitOver
  <2>1. /\ UNCHANGED <<data, done, history>>
        /\ reader.pc \notin {"idle", "dropped"} /\ reader'.pc \notin {"idle", "dropped"}
        /\ reader'.pos = reader.pos /\ reader'.answer = reader.answer
    BY <1>5 DEF Lock, RunDry, AskDone, Sleep, WaitOver
  <2> QED BY <2>1 DEF Stream!vars
<1>6. CASE DropSource
  <2>1. /\ UNCHANGED <<shared, download, history>> /\ reader.pc = "idle" /\ reader'.pc = "dropped"
        /\ reader'.pos = reader.pos /\ reader'.answer = "none"
    BY <1>6 DEF DropSource
  <2>2. reader'.pos \in 0..MaxBody
    BY <2>1
  <2>3. Stream!Seek
    BY <2>1, <2>2 DEF Stream!Seek
  <2> QED BY <2>3 DEF Stream!Next
<1> QED BY <1>1, <1>2, <1>3, <1>4, <1>5, <1>6 DEF ReaderStep

(* The threads, the lock and the signals implement the stream a decoder is *)
(* promised: every step is one of its steps or is not seen by a reader.    *)
THEOREM SourceIsAStream == Spec => ImplementsStream
<1>1. IInv /\ [Next]_vars => [Stream!Next]_Stream!vars
  <2> SUFFICES ASSUME IInv, [Next]_vars PROVE [Stream!Next]_Stream!vars
    OBVIOUS
  <2>1. CASE Next
    BY <2>1, ReceiveRefines, DownloadRefines, ReaderRefines DEF Next
  <2>2. CASE UNCHANGED vars
    BY <2>2 DEF vars, shared, history, Stream!vars
  <2> QED BY <2>1, <2>2
<1> QED BY <1>1, InitRefines, SourceInvariant, PTL DEF Spec, ImplementsStream, Stream!Spec

-----------------------------------------------------------------------------
(***************************************************************************)
(* PluginProvider.                                                         *)
(***************************************************************************)

(* The provider's mutex is held from the first look to the answer.         *)
Inside(c) == caller[c].pc \notin {"idle", "locking"}

(* A call is with the engine, or its answer is being dealt with.           *)
Asking(c) == caller[c].pc \in {"waiting", "dropping"}

(* What a store, an inbox and a thread may be.                             *)
Keys == SUBSET (1..MaxCalls)

Inbox == {<<>>} \cup {<<i>> : i \in 1..MaxCalls}

ThreadShape ==
  [pc : {"none", "loading", "idle", "running", "renaming", "gone"}, open : BOOLEAN,
   ready : {"none", "ok", "contract", "failed"}, inbox : Inbox, job : 0..MaxCalls,
   read : BOOLEAN, snapshot : Keys, next : Keys]

PluginShapes ==
  /\ worker \in 0..MaxStarts /\ starts \in 0..MaxStarts /\ calls \in 0..MaxCalls
  /\ giveUp \in BOOLEAN /\ closed \in BOOLEAN
  /\ caller \in [Caller -> Plugin!CallerState]
  /\ thread \in [1..MaxStarts -> ThreadShape]
  /\ disk \in Keys
  /\ temp \in [there : BOOLEAN, content : Keys]
  /\ halfDone \in SUBSET (1..MaxStarts) /\ stored \in Keys
  /\ strayed \in BOOLEAN

(* Who holds the mutex, and what the engine in use is then.                *)
OneInside ==
  /\ \A c, d \in Caller : Inside(c) /\ Inside(d) => c = d
  /\ \A c \in Caller :
       /\ caller[c].pc # "idle" => ~closed /\ caller[c].call \in 1..calls
       /\ caller[c].pc \in {"starting", "joining"} => worker = 0
       /\ caller[c].pc \in {"sending", "waiting", "dropping"} => worker # 0
       /\ caller[c].reply # "none" => caller[c].pc \in {"waiting", "dropping", "joining"}

(* The call a thread works on, or has been sent.                           *)
Has(t, n) == thread[t].job = n \/ thread[t].inbox = <<n>>

(* Call numbers are used once; a thread that was left behind may still     *)
(* have its call, but that caller waits no more.                           *)
Given == \A t \in 1..MaxStarts, n \in 1..MaxCalls : Has(t, n) => n <= calls

Distinct ==
  \A c, d \in Caller : caller[c].pc # "idle" /\ caller[d].pc # "idle"
                        /\ caller[c].call = caller[d].call => c = d

Owned ==
  \A c \in Caller, t \in 1..MaxStarts :
    caller[c].pc # "idle" /\ Has(t, caller[c].call) =>
      caller[c].pc \in {"waiting", "dropping", "joining"}
      /\ (caller[c].pc = "waiting" => t = worker)

(* An engine with nothing to do, on which no call went wrong.              *)
Quiet(t) == /\ thread[t].pc = "idle" /\ thread[t].inbox = <<>> /\ thread[t].job = 0
            /\ t \notin halfDone

(* What the engine in use is up to for the caller that waits.              *)
WorksFor(c) ==
  IF caller[c].reply = "none"
    THEN \/ thread[worker].pc = "gone"
         \/ /\ worker \notin halfDone
            /\ \/ thread[worker].pc = "idle" /\ thread[worker].job = 0
                  /\ thread[worker].inbox = <<caller[c].call>>
               \/ thread[worker].pc \in {"running", "renaming"}
                  /\ thread[worker].job = caller[c].call /\ thread[worker].inbox = <<>>
    ELSE /\ thread[worker].pc = "idle" /\ thread[worker].inbox = <<>> /\ thread[worker].job = 0
         /\ caller[c].reply = "interrupted" \/ worker \notin halfDone

(* What a thread is before and while it loads, and what it has when it runs.*)
Loads(t) ==
  /\ t > starts => thread[t] = Plugin!NewThread /\ t \notin halfDone
  /\ thread[t].pc = "loading" => /\ thread[t].inbox = <<>> /\ thread[t].job = 0
                                 /\ ~thread[t].read /\ t \notin halfDone
  /\ thread[t].pc \in {"running", "renaming"} => thread[t].job # 0
  /\ thread[t].pc = "renaming" => thread[t].read

(* With nobody's call on it the engine in use is quiet...                  *)
AtRest == worker # 0 /\ (\A c \in Caller : ~Asking(c)) => Quiet(worker)

(* ...and so is the one that is being started, once it is ready.          *)
Starting(c) ==
  caller[c].pc = "starting" =>
    /\ starts # 0 /\ thread[starts].open /\ ~thread[starts].read
    /\ IF thread[starts].ready = "ok" THEN Quiet(starts)
       ELSE thread[starts].pc \in {"loading", "gone"}

Engines ==
  /\ Plugin!OthersEnd
  /\ worker # 0 => worker = starts /\ ~closed /\ thread[worker].open
  /\ \A t \in 1..MaxStarts : Loads(t)
  /\ AtRest
  /\ \A c \in Caller : Starting(c)
  /\ \A c \in Caller : caller[c].pc = "waiting" => WorksFor(c)

(* While only engines in use have written: the engine in use knows all     *)
(* that is stored, and the temporary file is its own until it is renamed.  *)
Kept ==
  strayed \/
  /\ stored \subseteq disk
  /\ worker # 0 =>
       /\ thread[worker].read => stored \subseteq thread[worker].snapshot
       /\ thread[worker].pc = "renaming" =>
            /\ temp = [there |-> TRUE, content |-> thread[worker].next]
            /\ thread[worker].next = thread[worker].snapshot \cup {thread[worker].job}

PluginInv ==
  PluginShapes /\ OneInside /\ Given /\ Distinct /\ Owned /\ Engines /\ Kept

(* What a step does to its caller.                                         *)
CallerIs(c, pc, call, reply) ==
  /\ caller' \in [Caller -> Plugin!CallerState]
  /\ \A d \in Caller : d # c => caller'[d] = caller[d]
  /\ caller'[c].pc = pc /\ caller'[c].call = call /\ caller'[c].reply = reply

OthersAreKept(t) ==
  /\ thread' \in [1..MaxStarts -> ThreadShape]
  /\ \A u \in 1..MaxStarts : u # t => thread'[u] = thread[u]

LEMMA Heads ==
  ASSUME NEW q \in Inbox, q # <<>>
  PROVE  Head(q) \in 1..MaxCalls /\ q = <<Head(q)>> /\ Tail(q) = <<>>
<1>1. PICK i \in 1..MaxCalls : q = <<i>>
  BY DEF Inbox
<1>2. Head(<<i>>) = i /\ Tail(<<i>>) = <<>>
  OBVIOUS
<1> QED BY <1>1, <1>2

LEMMA Nothing ==
  /\ {} \in Keys /\ 0 \in 0..MaxCalls /\ <<>> \in Inbox
  /\ \A n : <<>> # <<n>>
  BY PluginAssumption DEF Inbox, Keys

(* A caller goes from one place to another and nothing else moves: it takes *)
(* the mutex, goes on to send, drops its engine, or is back with an answer. *)
LEMMA MoveKeeps ==
  ASSUME PluginInv, NEW c \in Caller, NEW pc, NEW call, NEW reply,
         CallerIs(c, pc, call, reply), giveUp' \in BOOLEAN,
         UNCHANGED <<worker, starts, closed, calls, disk, temp, halfDone, stored,
                     strayed,
                     thread>>,
         caller[c].pc # "idle",
         \/ /\ pc = "idle" /\ call = 0 /\ reply = "none"
            /\ caller[c].pc \in {"deciding", "joining", "waiting"}
            /\ caller[c].pc = "waiting" => Quiet(worker)
         \/ /\ call = caller[c].call /\ reply = caller[c].reply
            /\ \/ pc = "deciding" /\ caller[c].pc = "locking" /\ (\A d \in Caller : ~Inside(d))
               \/ pc = "sending" /\ caller[c].pc = "deciding" /\ worker # 0
               \/ pc = "dropping" /\ caller[c].pc = "waiting"
  PROVE  PluginInv'
<1> USE PluginAssumption
<1>1. PluginShapes /\ OneInside /\ Given /\ Distinct /\ Owned /\ Engines /\ Kept
  BY DEF PluginInv
<1>2. /\ \A d \in Caller : d # c => caller'[d] = caller[d]
      /\ caller'[c].pc = pc /\ caller'[c].call = call /\ caller'[c].reply = reply
  BY DEF CallerIs
<1>3. /\ pc \in {"idle", "deciding", "sending", "dropping"}
      /\ pc # "idle" => call = caller[c].call /\ reply = caller[c].reply
  OBVIOUS
<1>4. PluginShapes'
  BY <1>1 DEF PluginShapes, CallerIs
<1>5. OneInside'
  BY <1>1, <1>2, <1>3 DEF OneInside, Inside
<1>6. Given' /\ Distinct' /\ Owned'
  <2>1. \A u, n : Has(u, n)' <=> Has(u, n)
    BY DEF Has
  <2>2. Distinct'
    BY <1>1, <1>2, <1>3 DEF Distinct
  <2>3. \A d \in Caller : caller'[d].pc # "idle" =>
          caller[d].pc # "idle" /\ caller'[d].call = caller[d].call
          /\ caller[d].call \in 1..MaxCalls
    BY <1>1, <1>2, <1>3 DEF OneInside, PluginShapes
  <2>4. Owned'
    BY <1>1, <1>2, <2>1, <2>3 DEF Owned
  <2> QED BY <1>1, <2>1, <2>2, <2>4 DEF Given
<1>7. Engines'
  <2>1. Plugin!OthersEnd'
    BY <1>1, <1>2, <1>3 DEF Engines, Plugin!OthersEnd, Plugin!Awaited, Plugin!Engine,
       OneInside
  <2>2. (\A t : Quiet(t)' <=> Quiet(t)) /\ (\A u \in 1..MaxStarts : Loads(u)')
    BY <1>1 DEF Engines, Quiet, Loads
  <2>3. AtRest'
    BY <1>1, <1>2, <1>3, <2>2 DEF Engines, AtRest, Asking, OneInside, Inside
  <2>4. \A d \in Caller : Starting(d)'
    BY <1>1, <1>2, <1>3, <2>2 DEF Engines, Starting
  <2>5. ASSUME NEW d \in Caller, caller'[d].pc = "waiting" PROVE WorksFor(d)'
    <3>1. d # c /\ caller'[d] = caller[d] /\ WorksFor(d)
      BY <1>1, <1>2, <1>3, <2>5 DEF Engines
    <3> QED BY <3>1 DEF WorksFor
  <2> QED BY <1>1, <2>1, <2>2, <2>3, <2>4, <2>5 DEF Engines
<1>8. Kept'
  BY <1>1 DEF Kept
<1> QED BY <1>4, <1>5, <1>6, <1>7, <1>8 DEF PluginInv

-----------------------------------------------------------------------------
(* A caller's steps that do more, one by one.                               *)
LEMMA CallKeeps ==
  ASSUME PluginInv, NEW c \in Caller, Plugin!Call(c)
  PROVE  PluginInv'
<1> USE PluginAssumption
<1>1. PluginShapes /\ OneInside /\ Given /\ Distinct /\ Owned /\ Engines /\ Kept
  BY DEF PluginInv
<1>2. /\ caller[c].pc = "idle" /\ ~closed /\ calls' = calls + 1
      /\ calls' \in 1..MaxCalls
      /\ UNCHANGED <<worker, starts, giveUp, closed, disk, temp, halfDone, stored,
                     strayed, thread>>
  BY <1>1 DEF Plugin!Call, Plugin!provider, Plugin!files, Plugin!history, PluginShapes
<1>3. CallerIs(c, "locking", calls', caller[c].reply)
  <2> DEFINE asks == [caller[c] EXCEPT !.pc = "locking", !.call = calls']
  <2>1. caller' = [caller EXCEPT ![c] = asks]
    BY DEF Plugin!Call
  <2>2. calls' \in 0..MaxCalls
    BY <1>2
  <2>3. /\ asks \in Plugin!CallerState
        /\ asks.pc = "locking" /\ asks.call = calls' /\ asks.reply = caller[c].reply
    BY <1>1, <2>2 DEF PluginShapes, Plugin!CallerState
  <2> HIDE DEF asks
  <2> QED BY <1>1, <2>1, <2>3 DEF CallerIs, PluginShapes
<1>4. UNCHANGED thread
  BY <1>2
<1>5. PluginShapes'
  BY <1>1, <1>2, <1>3, <1>4 DEF PluginShapes, CallerIs
<1>6. OneInside'
  <2>1. \A i \in 1..calls : i \in 1..calls'
    BY <1>1, <1>2 DEF PluginShapes
  <2>2. calls' \in 1..calls'
    <3>1. \A n \in 0..MaxCalls : n + 1 \in 1..(n + 1)
      OBVIOUS
    <3>2. calls \in 0..MaxCalls /\ calls' = calls + 1
      BY <1>1, <1>2 DEF PluginShapes
    <3> QED BY <3>1, <3>2
  <2> QED BY <1>1, <1>2, <1>3, <2>1, <2>2 DEF OneInside, Inside, CallerIs
<1>7. Given' /\ Distinct' /\ Owned'
  <2>1. \A u \in 1..MaxStarts, n \in 1..MaxCalls : Has(u, n)' => Has(u, n)
    BY <1>4 DEF Has
  <2>2. Given'
    BY <1>1, <1>2, <1>3, <1>4, <2>1 DEF Given, PluginShapes
  <2>3. Distinct'
    BY <1>1, <1>2, <1>3, <1>4 DEF Distinct, OneInside, PluginShapes, CallerIs
  <2>4. Owned'
    BY <1>1, <1>2, <1>3, <1>4, <2>1 DEF Owned, Given, OneInside, Inside, PluginShapes,
       CallerIs
  <2> QED BY <2>2, <2>3, <2>4
<1>8. Engines'
  <2>1. Plugin!OthersEnd'
    BY <1>1, <1>2, <1>3, <1>4 DEF Engines, Plugin!OthersEnd, Plugin!Awaited,
       Plugin!Engine, OneInside, Inside, PluginShapes, CallerIs
  <2>2. (worker # 0 => worker = starts /\ ~closed /\ thread[worker].open)'
    BY <1>1, <1>2, <1>3, <1>4 DEF Engines, OneInside, PluginShapes, CallerIs
  <2>3. \A u \in 1..MaxStarts : Loads(u)'
    BY <1>1, <1>2, <1>3, <1>4 DEF Engines, Loads, Plugin!NewThread, PluginShapes,
       CallerIs
  <2>4. AtRest'
    BY <1>1, <1>2, <1>3, <1>4 DEF Engines, AtRest, Asking, Quiet, OneInside, Inside,
       PluginShapes, CallerIs
  <2>5. \A d \in Caller : Starting(d)'
    BY <1>1, <1>2, <1>3, <1>4 DEF Engines, Starting, Quiet, OneInside, Inside,
       PluginShapes, CallerIs
  <2>6. \A d \in Caller : (caller[d].pc = "waiting" => WorksFor(d))'
    BY <1>1, <1>2, <1>3, <1>4 DEF Engines, WorksFor, AtRest, OneInside, Inside,
       PluginShapes, CallerIs
  <2> QED BY <2>1, <2>2, <2>3, <2>4, <2>5, <2>6 DEF Engines
<1>9. Kept'
  BY <1>1, <1>2, <1>3, <1>4 DEF Kept, PluginShapes, OneInside, Engines, Starting, Quiet,
     CallerIs
<1> QED BY <1>5, <1>6, <1>7, <1>8, <1>9 DEF PluginInv

LEMMA LockKeeps ==
  ASSUME PluginInv, NEW c \in Caller, Plugin!Lock(c)
  PROVE  PluginInv'
<1>1. /\ caller[c].pc = "locking" /\ \A d \in Caller : ~Inside(d)
      /\ UNCHANGED <<worker, starts, closed, calls, disk, temp, halfDone, stored,
                     strayed, thread, giveUp>>
  BY DEF Plugin!Lock, Plugin!Free, Inside, Plugin!provider, Plugin!files, Plugin!history
<1>2. CallerIs(c, "deciding", caller[c].call, caller[c].reply)
  BY <1>1, Nothing DEF Plugin!Lock, Plugin!Free, Inside, Plugin!Goes, CallerIs,
     PluginInv, PluginShapes, Plugin!CallerState
<1>3. giveUp' \in BOOLEAN
  BY <1>1 DEF PluginInv, PluginShapes
<1> QED BY <1>1, <1>2, <1>3, MoveKeeps

LEMMA RefuseKeeps ==
  ASSUME PluginInv, NEW c \in Caller, Plugin!Refuse(c)
  PROVE  PluginInv'
<1>1. /\ caller[c].pc = "deciding"
      /\ UNCHANGED <<worker, starts, closed, calls, disk, temp, halfDone, stored,
                     strayed, thread, giveUp>>
  BY DEF Plugin!Refuse, Plugin!provider, Plugin!files, Plugin!history
<1>2. CallerIs(c, "idle", 0, "none")
  BY <1>1, Nothing DEF Plugin!Refuse, Plugin!Returns, CallerIs, PluginInv, PluginShapes,
     Plugin!CallerState
<1>3. giveUp' \in BOOLEAN
  BY <1>1 DEF PluginInv, PluginShapes
<1> QED BY <1>1, <1>2, <1>3, MoveKeeps

LEMMA UseWorkerKeeps ==
  ASSUME PluginInv, NEW c \in Caller, Plugin!UseWorker(c)
  PROVE  PluginInv'
<1>1. /\ caller[c].pc = "deciding" /\ worker # 0
      /\ UNCHANGED <<worker, starts, closed, calls, disk, temp, halfDone, stored,
                     strayed, thread, giveUp>>
  BY DEF Plugin!UseWorker, Plugin!provider, Plugin!files, Plugin!history
<1>2. CallerIs(c, "sending", caller[c].call, caller[c].reply)
  BY <1>1, Nothing DEF Plugin!UseWorker, Plugin!Goes, CallerIs, PluginInv, PluginShapes,
     Plugin!CallerState
<1>3. giveUp' \in BOOLEAN
  BY <1>1 DEF PluginInv, PluginShapes
<1> QED BY <1>1, <1>2, <1>3, MoveKeeps

LEMMA GiveUpKeeps ==
  ASSUME PluginInv, NEW c \in Caller, Plugin!GiveUp(c)
  PROVE  PluginInv'
<1>1. /\ caller[c].pc = "deciding" /\ giveUp' \in BOOLEAN
      /\ UNCHANGED <<worker, starts, closed, calls, disk, temp, halfDone, stored,
                     strayed, thread>>
  BY DEF Plugin!GiveUp, Plugin!provider, Plugin!files, Plugin!history
<1>2. CallerIs(c, "idle", 0, "none")
  BY <1>1, Nothing DEF Plugin!GiveUp, Plugin!Returns, CallerIs, PluginInv, PluginShapes,
     Plugin!CallerState
<1> QED BY <1>1, <1>2, MoveKeeps

LEMMA StartKeeps ==
  ASSUME PluginInv, NEW c \in Caller, Plugin!Start(c)
  PROVE  PluginInv'
<1> USE PluginAssumption
<1>1. PluginShapes /\ OneInside /\ Given /\ Distinct /\ Owned /\ Engines /\ Kept
  BY DEF PluginInv
<1>2. /\ caller[c].pc = "deciding" /\ worker = 0 /\ starts' = starts + 1
      /\ starts' \in 1..MaxStarts
      /\ UNCHANGED <<worker, giveUp, closed, calls, disk, temp, halfDone, stored,
                     strayed>>
  BY <1>1 DEF Plugin!Start, Plugin!provider, Plugin!files, Plugin!history,
     Plugin!MayStart, PluginShapes
<1>3. CallerIs(c, "starting", caller[c].call, caller[c].reply)
  BY <1>1, <1>2 DEF Plugin!Start, Plugin!Goes, CallerIs, PluginShapes,
     Plugin!CallerState
<1>4. /\ OthersAreKept(starts')
     /\ thread'[starts'].pc = "loading" /\ thread'[starts'].open = TRUE
      /\ thread'[starts'].ready = "none"
     /\ thread'[starts'].inbox = <<>> /\ thread'[starts'].job = 0
      /\ thread'[starts'].read = FALSE
      /\ thread'[starts'].snapshot = {} /\ thread'[starts'].next = {}
  BY <1>1, <1>2, Nothing DEF Plugin!Start, Plugin!NewThread, Inbox, OthersAreKept,
     PluginShapes, ThreadShape
<1>5. PluginShapes'
  BY <1>1, <1>2, <1>3, <1>4 DEF PluginShapes, CallerIs, OthersAreKept
<1>6. OneInside'
  BY <1>1, <1>2, <1>3, <1>4 DEF OneInside, Inside, PluginShapes, CallerIs
<1>7. Given' /\ Distinct' /\ Owned'
  <2>1. \A u \in 1..MaxStarts, n \in 1..MaxCalls : Has(u, n)' => Has(u, n)
    <3>1. ASSUME NEW u \in 1..MaxStarts, NEW n \in 1..MaxCalls, u = starts'
          PROVE  ~Has(u, n)'
      <4>1. n # 0 /\ <<>> # <<n>>
        BY Nothing
      <4> QED BY <1>4, <3>1, <4>1 DEF Has
    <3> QED BY <1>2, <1>4, <3>1 DEF Has, OthersAreKept
  <2>2. Given'
    BY <1>1, <1>2, <1>3, <1>4, <2>1 DEF Given, PluginShapes
  <2>3. Distinct'
    BY <1>1, <1>2, <1>3, <1>4 DEF Distinct, OneInside, PluginShapes, CallerIs
  <2>4. Owned'
    BY <1>1, <1>2, <1>3, <1>4, <2>1 DEF Owned, Given, OneInside, Inside, PluginShapes,
       CallerIs
  <2> QED BY <2>2, <2>3, <2>4
<1>8. Engines'
  <2>1. Plugin!OthersEnd'
    <3>1. \A d \in Caller : caller[d].pc # "starting"
      BY <1>1, <1>2 DEF OneInside, Inside
    <3>2. \A u \in 1..MaxStarts : ~thread[u].open
      BY <1>1, <1>2, <3>1 DEF Engines, Plugin!OthersEnd, Plugin!Awaited, Plugin!Engine
    <3>3. \A u \in 1..MaxStarts : thread'[u].open => u = starts'
      BY <1>4, <3>2 DEF OthersAreKept
    <3>4. caller'[c].pc = "starting" /\ ~closed'
      BY <1>1, <1>2, <1>3 DEF CallerIs, OneInside
    <3> QED BY <3>3, <3>4 DEF Plugin!OthersEnd, Plugin!Awaited, Plugin!Engine
  <2>2. (worker # 0 => worker = starts /\ ~closed /\ thread[worker].open)'
    BY <1>1, <1>2, <1>3, <1>4 DEF Engines, OneInside, PluginShapes, CallerIs,
       OthersAreKept
  <2>3. ASSUME NEW u \in 1..MaxStarts
        PROVE  Loads(u)'
    <3>1. Loads(u) /\ starts \in Nat /\ starts' > starts /\ Plugin!NewThread' = Plugin!NewThread
      BY <1>1, <1>2 DEF Engines, PluginShapes, Plugin!NewThread
    <3>2. CASE u = starts'
      <4>1. u \notin halfDone'
        BY <1>2, <3>1, <3>2 DEF Loads
      <4> QED BY <1>4, <3>1, <3>2, <4>1 DEF Loads
    <3>3. CASE u # starts'
      <4>1. thread'[u] = thread[u] /\ (u \in halfDone') = (u \in halfDone)
        BY <1>2, <1>4, <3>3 DEF OthersAreKept
      <4>2. u > starts' => u > starts
        BY <1>2, <3>1
      <4> QED BY <3>1, <4>1, <4>2, Zenon DEF Loads
    <3> QED BY <3>2, <3>3
  <2>4. AtRest'
    BY <1>1, <1>2, <1>3, <1>4 DEF Engines, AtRest, Asking, Quiet, OneInside, Inside,
       PluginShapes, CallerIs, OthersAreKept
  <2>5. \A d \in Caller : Starting(d)'
    BY <1>1, <1>2, <1>3, <1>4 DEF Engines, Starting, Quiet, OneInside, Inside,
       PluginShapes, CallerIs, OthersAreKept
  <2>6. \A d \in Caller : (caller[d].pc = "waiting" => WorksFor(d))'
    BY <1>1, <1>2, <1>3, <1>4 DEF Engines, WorksFor, AtRest, OneInside, Inside,
       PluginShapes, CallerIs, OthersAreKept
  <2> QED BY <2>1, <2>2, <2>3, <2>4, <2>5, <2>6 DEF Engines
<1>9. Kept'
  BY <1>1, <1>2, <1>3, <1>4 DEF Kept, PluginShapes, OneInside, Engines, Starting, Quiet,
     CallerIs, OthersAreKept
<1> QED BY <1>5, <1>6, <1>7, <1>8, <1>9 DEF PluginInv

LEMMA StartedKeeps ==
  ASSUME PluginInv, NEW c \in Caller, Plugin!Started(c)
  PROVE  PluginInv'
<1> USE PluginAssumption
<1>1. PluginShapes /\ OneInside /\ Given /\ Distinct /\ Owned /\ Engines /\ Kept
  BY DEF PluginInv
<1>2. /\ caller[c].pc = "starting" /\ thread[starts].ready = "ok" /\ worker' = starts
      /\ UNCHANGED <<starts, giveUp, closed, calls, disk, temp, halfDone, stored,
                     strayed, thread>>
  BY <1>1 DEF Plugin!Started, Plugin!provider, Plugin!files, Plugin!history
<1>3. CallerIs(c, "sending", caller[c].call, caller[c].reply)
  BY <1>1, <1>2 DEF Plugin!Started, Plugin!Goes, CallerIs, PluginShapes,
     Plugin!CallerState
<1>4. UNCHANGED thread
  BY <1>2
<1>5. PluginShapes'
  BY <1>1, <1>2, <1>3, <1>4 DEF PluginShapes, CallerIs
<1>6. OneInside'
  BY <1>1, <1>2, <1>3, <1>4 DEF OneInside, Inside, PluginShapes, CallerIs, Engines,
     Starting
<1>7. Given' /\ Distinct' /\ Owned'
  <2>1. \A u \in 1..MaxStarts, n \in 1..MaxCalls : Has(u, n)' => Has(u, n)
    BY <1>4 DEF Has
  <2>2. Given'
    BY <1>1, <1>2, <1>3, <1>4, <2>1 DEF Given, PluginShapes
  <2>3. Distinct'
    BY <1>1, <1>2, <1>3, <1>4 DEF Distinct, OneInside, PluginShapes, CallerIs
  <2>4. Owned'
    BY <1>1, <1>2, <1>3, <1>4, <2>1 DEF Owned, Given, OneInside, Inside, PluginShapes,
       CallerIs
  <2> QED BY <2>2, <2>3, <2>4
<1>8. Engines'
  <2>1. Plugin!OthersEnd'
    BY <1>1, <1>2, <1>3, <1>4 DEF Engines, Plugin!OthersEnd, Plugin!Awaited,
       Plugin!Engine, OneInside, Inside, PluginShapes, CallerIs
  <2>2. (worker # 0 => worker = starts /\ ~closed /\ thread[worker].open)'
    BY <1>1, <1>2, <1>3, <1>4 DEF Engines, OneInside, Starting, PluginShapes, CallerIs
  <2>3. \A u \in 1..MaxStarts : Loads(u)'
    BY <1>1, <1>2, <1>3, <1>4 DEF Engines, Loads, Plugin!NewThread, PluginShapes,
       CallerIs
  <2>4. AtRest'
    BY <1>1, <1>2, <1>3, <1>4 DEF Engines, AtRest, Asking, Quiet, OneInside, Inside,
       Starting, PluginShapes, CallerIs
  <2>5. \A d \in Caller : Starting(d)'
    BY <1>1, <1>2, <1>3, <1>4 DEF Engines, Starting, Quiet, OneInside, Inside,
       PluginShapes, CallerIs
  <2>6. \A d \in Caller : (caller[d].pc = "waiting" => WorksFor(d))'
    BY <1>1, <1>2, <1>3, <1>4 DEF Engines, WorksFor, AtRest, OneInside, Inside,
       PluginShapes, CallerIs
  <2> QED BY <2>1, <2>2, <2>3, <2>4, <2>5, <2>6 DEF Engines
<1>9. Kept'
  BY <1>1, <1>2, <1>3, <1>4 DEF Kept, PluginShapes, OneInside, Engines, Starting, Quiet,
     CallerIs
<1> QED BY <1>5, <1>6, <1>7, <1>8, <1>9 DEF PluginInv

LEMMA StartFailsKeeps ==
  ASSUME PluginInv, NEW c \in Caller, Plugin!StartFails(c)
  PROVE  PluginInv'
<1> USE PluginAssumption
<1>1. PluginShapes /\ OneInside /\ Given /\ Distinct /\ Owned /\ Engines /\ Kept
  BY DEF PluginInv
<1>2. /\ caller[c].pc = "starting" /\ giveUp' \in BOOLEAN /\ starts \in 1..MaxStarts
      /\ UNCHANGED <<worker, starts, closed, calls, disk, temp, halfDone, stored,
                     strayed>>
  BY <1>1 DEF Plugin!StartFails, Plugin!provider, Plugin!files, Plugin!history, Engines,
     Starting, PluginShapes
<1>3. CallerIs(c, "idle", 0, "none")
  BY <1>1, <1>2 DEF Plugin!StartFails, Plugin!Returns, CallerIs, PluginShapes,
     Plugin!CallerState
<1>4. /\ OthersAreKept(starts)
     /\ thread'[starts].pc = thread[starts].pc /\ thread'[starts].open = FALSE
      /\ thread'[starts].ready = thread[starts].ready
     /\ thread'[starts].inbox = thread[starts].inbox
      /\ thread'[starts].job = thread[starts].job
      /\ thread'[starts].read = thread[starts].read
     /\ thread'[starts].snapshot = thread[starts].snapshot
      /\ thread'[starts].next = thread[starts].next
  BY <1>1, <1>2, Nothing DEF Plugin!StartFails, Plugin!LetGo, OthersAreKept,
     PluginShapes, ThreadShape
<1>5. PluginShapes'
  BY <1>1, <1>2, <1>3, <1>4 DEF PluginShapes, CallerIs, OthersAreKept
<1>6. OneInside'
  BY <1>1, <1>2, <1>3, <1>4 DEF OneInside, Inside, PluginShapes, CallerIs
<1>7. Given' /\ Distinct' /\ Owned'
  <2>1. \A u \in 1..MaxStarts, n \in 1..MaxCalls : Has(u, n)' => Has(u, n)
    BY <1>1, <1>2, <1>3, <1>4 DEF Has, OthersAreKept, PluginShapes
  <2>2. Given'
    BY <1>1, <1>2, <1>3, <1>4, <2>1 DEF Given, PluginShapes
  <2>3. Distinct'
    BY <1>1, <1>2, <1>3, <1>4 DEF Distinct, OneInside, PluginShapes, CallerIs
  <2>4. Owned'
    <3>1. caller'[c].pc = "idle" /\ worker' = worker
      BY <1>2, <1>3 DEF CallerIs
    <3>2. \A d \in Caller : caller'[d].pc # "idle" =>
            caller'[d] = caller[d] /\ caller[d].call \in 1..MaxCalls
      BY <1>1, <1>3, <3>1 DEF CallerIs, OneInside, PluginShapes
    <3> QED BY <1>1, <2>1, <3>1, <3>2 DEF Owned
  <2> QED BY <2>2, <2>3, <2>4
<1>8. Engines'
  <2>1. Plugin!OthersEnd'
    BY <1>1, <1>2, <1>3, <1>4 DEF Engines, Plugin!OthersEnd, Plugin!Awaited,
       Plugin!Engine, OneInside, Inside, PluginShapes, CallerIs, OthersAreKept
  <2>2. (worker # 0 => worker = starts /\ ~closed /\ thread[worker].open)'
    BY <1>1, <1>2, <1>3, <1>4 DEF Engines, OneInside, PluginShapes, CallerIs,
       OthersAreKept
  <2>3. \A u \in 1..MaxStarts : Loads(u)'
    <3>1. \A u \in 1..MaxStarts : u # starts => Loads(u)'
      BY <1>1, <1>2, <1>4 DEF Engines, Loads, OthersAreKept
    <3>2. Loads(starts)
      BY <1>1, <1>2 DEF Engines
    <3>3. ~(starts > starts)
      BY <1>1, <1>2, <3>2 DEF Loads, Plugin!NewThread, Engines, PluginShapes
    <3>4. \A u \in 1..MaxStarts : u = starts => Loads(u)'
      BY <1>2, <1>4, <3>2, <3>3 DEF Loads
    <3> QED BY <3>1, <3>4
  <2>4. AtRest'
    BY <1>1, <1>2, <1>3, <1>4 DEF Engines, AtRest, Asking, Quiet, OneInside, Inside,
       PluginShapes, CallerIs, OthersAreKept
  <2>5. \A d \in Caller : Starting(d)'
    BY <1>1, <1>2, <1>3, <1>4 DEF Engines, Starting, Quiet, OneInside, Inside,
       PluginShapes, CallerIs, OthersAreKept
  <2>6. \A d \in Caller : (caller[d].pc = "waiting" => WorksFor(d))'
    BY <1>1, <1>2, <1>3, <1>4 DEF Engines, WorksFor, AtRest, OneInside, Inside,
       PluginShapes, CallerIs, OthersAreKept
  <2> QED BY <2>1, <2>2, <2>3, <2>4, <2>5, <2>6 DEF Engines
<1>9. Kept'
  BY <1>1, <1>2, <1>3, <1>4 DEF Kept, PluginShapes, OneInside, Engines, Starting, Quiet,
     CallerIs, OthersAreKept
<1> QED BY <1>5, <1>6, <1>7, <1>8, <1>9 DEF PluginInv

LEMMA TimesOutKeeps ==
  ASSUME PluginInv, NEW c \in Caller, Plugin!TimesOut(c)
  PROVE  PluginInv'
<1> USE PluginAssumption
<1>1. PluginShapes /\ OneInside /\ Given /\ Distinct /\ Owned /\ Engines /\ Kept
  BY DEF PluginInv
<1>2. /\ caller[c].pc = "waiting" /\ worker \in 1..MaxStarts
      /\ halfDone' = halfDone \cup {worker}
      /\ caller[c].reply = "none" /\ thread[worker].pc # "loading"
      /\ UNCHANGED <<worker, starts, giveUp, closed, calls, disk, temp, stored, strayed,
                     thread>>
  BY <1>1 DEF Plugin!TimesOut, Plugin!provider, Plugin!files, Plugin!history, OneInside,
     PluginShapes, Engines, WorksFor
<1>3. CallerIs(c, "dropping", caller[c].call, caller[c].reply)
  <2>1. Plugin!Goes(c, "dropping")
    BY DEF Plugin!TimesOut, Plugin!Ends, Plugin!DropsEngine
  <2> QED BY <1>1, <2>1 DEF Plugin!Goes, CallerIs, PluginShapes, Plugin!CallerState
<1>4. UNCHANGED thread
  BY <1>2
<1>5. PluginShapes'
  BY <1>1, <1>2, <1>3, <1>4 DEF PluginShapes, CallerIs
<1>6. OneInside'
  BY <1>1, <1>2, <1>3, <1>4 DEF OneInside, Inside, PluginShapes, CallerIs
<1>7. Given' /\ Distinct' /\ Owned'
  <2>1. \A u \in 1..MaxStarts, n \in 1..MaxCalls : Has(u, n)' => Has(u, n)
    BY <1>4 DEF Has
  <2>2. Given'
    BY <1>1, <1>2, <1>3, <1>4, <2>1 DEF Given, PluginShapes
  <2>3. Distinct'
    BY <1>1, <1>2, <1>3, <1>4 DEF Distinct, OneInside, PluginShapes, CallerIs
  <2>4. Owned'
    BY <1>1, <1>2, <1>3, <1>4, <2>1 DEF Owned, Given, OneInside, Inside, PluginShapes,
       CallerIs
  <2> QED BY <2>2, <2>3, <2>4
<1>8. Engines'
  <2>1. Plugin!OthersEnd'
    BY <1>1, <1>2, <1>3, <1>4 DEF Engines, Plugin!OthersEnd, Plugin!Awaited,
       Plugin!Engine, OneInside, Inside, PluginShapes, CallerIs
  <2>2. (worker # 0 => worker = starts /\ ~closed /\ thread[worker].open)'
    BY <1>1, <1>2, <1>3, <1>4 DEF Engines, OneInside, PluginShapes, CallerIs
  <2>3. \A u \in 1..MaxStarts : Loads(u)'
    BY <1>1, <1>2, <1>3, <1>4 DEF Engines, Loads, Plugin!NewThread, PluginShapes,
       CallerIs
  <2>4. AtRest'
    BY <1>1, <1>2, <1>3, <1>4 DEF Engines, AtRest, Asking, Quiet, OneInside, Inside,
       PluginShapes, CallerIs
  <2>5. \A d \in Caller : Starting(d)'
    BY <1>1, <1>2, <1>3, <1>4 DEF Engines, Starting, Quiet, OneInside, Inside,
       PluginShapes, CallerIs
  <2>6. \A d \in Caller : (caller[d].pc = "waiting" => WorksFor(d))'
    BY <1>1, <1>2, <1>3, <1>4 DEF Engines, WorksFor, AtRest, OneInside, Inside,
       PluginShapes, CallerIs
  <2> QED BY <2>1, <2>2, <2>3, <2>4, <2>5, <2>6 DEF Engines
<1>9. Kept'
  BY <1>1, <1>2, <1>3, <1>4 DEF Kept, PluginShapes, OneInside, Engines, Starting, Quiet,
     CallerIs
<1> QED BY <1>5, <1>6, <1>7, <1>8, <1>9 DEF PluginInv

LEMMA FellOverKeeps ==
  ASSUME PluginInv, NEW c \in Caller, Plugin!FellOver(c)
  PROVE  PluginInv'
<1>1. /\ caller[c].pc = "waiting"
      /\ UNCHANGED <<worker, starts, closed, calls, disk, temp, halfDone, stored,
                     strayed, thread, giveUp>>
  BY DEF Plugin!FellOver, Plugin!provider, Plugin!files, Plugin!history
<1>2. CallerIs(c, "dropping", caller[c].call, caller[c].reply)
  <2>1. Plugin!Goes(c, "dropping")
    BY DEF Plugin!FellOver, Plugin!Ends, Plugin!DropsEngine
  <2> QED BY <2>1, Nothing DEF Plugin!Goes, CallerIs, PluginInv, PluginShapes,
             Plugin!CallerState
<1>3. giveUp' \in BOOLEAN
  BY <1>1 DEF PluginInv, PluginShapes
<1> QED BY <1>1, <1>2, <1>3, MoveKeeps

LEMMA CloseJobsKeeps ==
  ASSUME PluginInv, NEW c \in Caller, Plugin!CloseJobs(c)
  PROVE  PluginInv'
<1> USE PluginAssumption
<1>1. PluginShapes /\ OneInside /\ Given /\ Distinct /\ Owned /\ Engines /\ Kept
  BY DEF PluginInv
<1>2. /\ caller[c].pc = "dropping" /\ worker \in 1..MaxStarts /\ worker' = 0
      /\ UNCHANGED <<starts, giveUp, closed, calls, disk, temp, halfDone, stored,
                     strayed>>
  BY <1>1 DEF Plugin!CloseJobs, Plugin!provider, Plugin!files, Plugin!history,
     OneInside, PluginShapes
<1>3. CallerIs(c, "joining", caller[c].call, caller[c].reply)
  BY <1>1, <1>2 DEF Plugin!CloseJobs, Plugin!Goes, CallerIs, PluginShapes,
     Plugin!CallerState
<1>4. /\ OthersAreKept(worker)
     /\ thread'[worker].pc = thread[worker].pc /\ thread'[worker].open = FALSE
      /\ thread'[worker].ready = thread[worker].ready
     /\ thread'[worker].inbox = thread[worker].inbox
      /\ thread'[worker].job = thread[worker].job
      /\ thread'[worker].read = thread[worker].read
     /\ thread'[worker].snapshot = thread[worker].snapshot
      /\ thread'[worker].next = thread[worker].next
  BY <1>1, <1>2, Nothing DEF Plugin!CloseJobs, Plugin!LetGo, OthersAreKept,
     PluginShapes, ThreadShape
<1>5. PluginShapes'
  BY <1>1, <1>2, <1>3, <1>4 DEF PluginShapes, CallerIs, OthersAreKept
<1>6. OneInside'
  BY <1>1, <1>2, <1>3, <1>4 DEF OneInside, Inside, PluginShapes, CallerIs
<1>7. Given' /\ Distinct' /\ Owned'
  <2>1. \A u \in 1..MaxStarts, n \in 1..MaxCalls : Has(u, n)' => Has(u, n)
    BY <1>1, <1>2, <1>3, <1>4 DEF Has, OthersAreKept, PluginShapes
  <2>2. Given'
    BY <1>1, <1>2, <1>3, <1>4, <2>1 DEF Given, PluginShapes
  <2>3. Distinct'
    BY <1>1, <1>2, <1>3, <1>4 DEF Distinct, OneInside, PluginShapes, CallerIs
  <2>4. Owned'
    BY <1>1, <1>2, <1>3, <1>4, <2>1 DEF Owned, Given, OneInside, Inside, PluginShapes,
       CallerIs
  <2> QED BY <2>2, <2>3, <2>4
<1>8. Engines'
  <2>1. Plugin!OthersEnd'
    BY <1>1, <1>2, <1>3, <1>4 DEF Engines, Plugin!OthersEnd, Plugin!Awaited,
       Plugin!Engine, OneInside, Inside, PluginShapes, CallerIs, OthersAreKept
  <2>2. (worker # 0 => worker = starts /\ ~closed /\ thread[worker].open)'
    BY <1>1, <1>2, <1>3, <1>4 DEF Engines, OneInside, PluginShapes, CallerIs,
       OthersAreKept
  <2>3. \A u \in 1..MaxStarts : Loads(u)'
    <3>1. \A u \in 1..MaxStarts : u # worker => Loads(u)'
      BY <1>1, <1>2, <1>4 DEF Engines, Loads, OthersAreKept
    <3>2. Loads(worker)
      BY <1>1, <1>2 DEF Engines
    <3>3. ~(worker > starts)
      BY <1>1, <1>2, <3>2 DEF Loads, Plugin!NewThread, Engines, PluginShapes
    <3>4. \A u \in 1..MaxStarts : u = worker => Loads(u)'
      BY <1>2, <1>4, <3>2, <3>3 DEF Loads
    <3> QED BY <3>1, <3>4
  <2>4. AtRest'
    BY <1>1, <1>2, <1>3, <1>4 DEF Engines, AtRest, Asking, Quiet, OneInside, Inside,
       PluginShapes, CallerIs, OthersAreKept
  <2>5. \A d \in Caller : Starting(d)'
    BY <1>1, <1>2, <1>3, <1>4 DEF Engines, Starting, Quiet, OneInside, Inside,
       PluginShapes, CallerIs, OthersAreKept
  <2>6. \A d \in Caller : (caller[d].pc = "waiting" => WorksFor(d))'
    BY <1>1, <1>2, <1>3, <1>4 DEF Engines, WorksFor, AtRest, OneInside, Inside,
       PluginShapes, CallerIs, OthersAreKept
  <2> QED BY <2>1, <2>2, <2>3, <2>4, <2>5, <2>6 DEF Engines
<1>9. Kept'
  BY <1>1, <1>2, <1>3, <1>4 DEF Kept, PluginShapes, OneInside, Engines, Starting, Quiet,
     CallerIs, OthersAreKept
<1> QED BY <1>5, <1>6, <1>7, <1>8, <1>9 DEF PluginInv

LEMMA InterruptedKeeps ==
  ASSUME PluginInv, NEW c \in Caller, Plugin!Answered(c), caller[c].reply = "interrupted"
  PROVE  PluginInv'
<1>1. /\ caller[c].pc = "waiting"
      /\ UNCHANGED <<worker, starts, closed, calls, disk, temp, halfDone, stored,
                     strayed, thread, giveUp>>
  BY DEF Plugin!Answered, Plugin!provider, Plugin!files, Plugin!history
<1>2. CallerIs(c, "dropping", caller[c].call, caller[c].reply)
  <2>1. Plugin!Goes(c, "dropping")
    BY DEF Plugin!Answered, Plugin!Ends, Plugin!DropsEngine
  <2> QED BY <2>1, Nothing DEF Plugin!Goes, CallerIs, PluginInv, PluginShapes,
             Plugin!CallerState
<1>3. giveUp' \in BOOLEAN
  BY <1>1 DEF PluginInv, PluginShapes
<1> QED BY <1>1, <1>2, <1>3, MoveKeeps

LEMMA AnsweredKeeps ==
  ASSUME PluginInv, NEW c \in Caller, Plugin!Answered(c), caller[c].reply # "interrupted"
  PROVE  PluginInv'
<1>1. /\ caller[c].pc = "waiting"
      /\ UNCHANGED <<worker, starts, closed, calls, disk, temp, halfDone, stored,
                     strayed, thread, giveUp>>
  BY DEF Plugin!Answered, Plugin!provider, Plugin!files, Plugin!history
<1>2. CallerIs(c, "idle", 0, "none")
  <2>1. Plugin!Returns(c)
    BY DEF Plugin!Answered, Plugin!Ends, Plugin!DropsEngine, PluginInv, PluginShapes,
       Plugin!CallerState, Plugin!Answer
  <2> QED BY <2>1, Nothing DEF Plugin!Returns, CallerIs, PluginInv, PluginShapes,
             Plugin!CallerState
<1>3. Quiet(worker)
  BY <1>1 DEF Plugin!Answered, PluginInv, Engines, WorksFor, Quiet
<1>4. giveUp' \in BOOLEAN
  BY <1>1 DEF PluginInv, PluginShapes
<1> QED BY <1>1, <1>2, <1>3, <1>4, MoveKeeps

LEMMA JoinEndsKeeps ==
  ASSUME PluginInv, NEW c \in Caller, Plugin!JoinEnds(c)
  PROVE  PluginInv'
<1>1. /\ caller[c].pc = "joining"
      /\ UNCHANGED <<worker, starts, closed, calls, disk, temp, halfDone, stored,
                     strayed, thread, giveUp>>
  BY DEF Plugin!JoinEnds, Plugin!provider, Plugin!files, Plugin!history
<1>2. CallerIs(c, "idle", 0, "none")
  BY <1>1, Nothing DEF Plugin!JoinEnds, Plugin!Returns, CallerIs, PluginInv,
     PluginShapes, Plugin!CallerState
<1>3. giveUp' \in BOOLEAN
  BY <1>1 DEF PluginInv, PluginShapes
<1> QED BY <1>1, <1>2, <1>3, MoveKeeps

LEMMA TakeJobKeeps ==
  ASSUME PluginInv, NEW t \in 1..MaxStarts, Plugin!TakeJob(t)
  PROVE  PluginInv'
<1> USE PluginAssumption
<1>1. PluginShapes /\ OneInside /\ Given /\ Distinct /\ Owned /\ Engines /\ Kept
  BY DEF PluginInv
<1>2. /\ thread[t].pc = "idle" /\ thread[t].inbox # <<>>
     /\ thread[t].inbox = <<Head(thread[t].inbox)>>
      /\ Head(thread[t].inbox) \in 1..MaxCalls
      /\ UNCHANGED <<worker, starts, giveUp, closed, calls, disk, temp, halfDone,
                     stored, strayed, caller>>
  <2>1. thread[t].inbox \in Inbox /\ thread[t].inbox # <<>>
    BY <1>1 DEF Plugin!TakeJob, PluginShapes, ThreadShape
  <2> QED BY <2>1, Heads DEF Plugin!TakeJob, Plugin!provider, Plugin!files,
             Plugin!history
<1>3. UNCHANGED caller
  BY <1>2
<1>4. /\ OthersAreKept(t)
     /\ thread'[t].pc = "running" /\ thread'[t].open = thread[t].open
      /\ thread'[t].ready = thread[t].ready
     /\ thread'[t].inbox = <<>> /\ thread'[t].job = Head(thread[t].inbox)
      /\ thread'[t].read = thread[t].read
      /\ thread'[t].snapshot = thread[t].snapshot /\ thread'[t].next = thread[t].next
  BY <1>1, <1>2, Heads, Nothing DEF Plugin!TakeJob, OthersAreKept, PluginShapes,
     ThreadShape
<1>5. PluginShapes'
  BY <1>1, <1>2, <1>3, <1>4 DEF PluginShapes, OthersAreKept
<1>6. OneInside'
  BY <1>1, <1>2, <1>3, <1>4 DEF OneInside, Inside, PluginShapes
<1>7. Given' /\ Distinct' /\ Owned'
  <2>1. \A u \in 1..MaxStarts, n \in 1..MaxCalls : Has(u, n)' => Has(u, n)
    <3>1. \A n \in 1..MaxCalls : Has(t, n)' => Has(t, n)
      BY <1>2, <1>4, Nothing DEF Has
    <3> QED BY <1>4, <3>1 DEF Has, OthersAreKept
  <2>2. Given'
    BY <1>1, <1>2, <1>3, <1>4, <2>1 DEF Given, PluginShapes
  <2>3. Distinct'
    BY <1>1, <1>2, <1>3, <1>4 DEF Distinct, OneInside, PluginShapes
  <2>4. Owned'
    BY <1>1, <1>2, <1>3, <1>4, <2>1 DEF Owned, Given, OneInside, Inside, PluginShapes
  <2> QED BY <2>2, <2>3, <2>4
<1>8. Engines'
  <2>1. Plugin!OthersEnd'
    <3>1. \A u \in 1..MaxStarts : thread'[u].open = thread[u].open
      BY <1>4 DEF OthersAreKept
    <3> QED BY <1>1, <1>2, <3>1 DEF Engines, Plugin!OthersEnd, Plugin!Awaited,
               Plugin!Engine
  <2>2. (worker # 0 => worker = starts /\ ~closed /\ thread[worker].open)'
    BY <1>1, <1>2, <1>3, <1>4 DEF Engines, OneInside, PluginShapes, OthersAreKept
  <2>3. \A u \in 1..MaxStarts : Loads(u)'
    <3>1. \A u \in 1..MaxStarts : u # t => Loads(u)'
      BY <1>1, <1>2, <1>4 DEF Engines, Loads, OthersAreKept
    <3>2. Loads(t)
      BY <1>1 DEF Engines
    <3>3. ~(t > starts)
      BY <1>2, <3>2 DEF Loads, Plugin!NewThread
    <3>4. Loads(t)'
      BY <1>2, <1>4, <3>2, <3>3 DEF Loads
    <3> QED BY <3>1, <3>4
  <2>4. AtRest'
    BY <1>1, <1>2, <1>3, <1>4 DEF Engines, AtRest, Asking, Quiet, OneInside, Inside,
       PluginShapes, OthersAreKept
  <2>5. \A d \in Caller : Starting(d)'
    BY <1>1, <1>2, <1>3, <1>4 DEF Engines, Starting, Quiet, OneInside, Inside,
       PluginShapes, OthersAreKept
  <2>6. \A d \in Caller : (caller[d].pc = "waiting" => WorksFor(d))'
    BY <1>1, <1>2, <1>3, <1>4 DEF Engines, WorksFor, AtRest, OneInside, Inside,
       PluginShapes, OthersAreKept
  <2> QED BY <2>1, <2>2, <2>3, <2>4, <2>5, <2>6 DEF Engines
<1>9. Kept'
  BY <1>1, <1>2, <1>3, <1>4 DEF Kept, PluginShapes, OneInside, Engines, Starting, Quiet,
     OthersAreKept
<1> QED BY <1>5, <1>6, <1>7, <1>8, <1>9 DEF PluginInv

LEMMA ExitKeeps ==
  ASSUME PluginInv, NEW t \in 1..MaxStarts, Plugin!Exit(t)
  PROVE  PluginInv'
<1> USE PluginAssumption
<1>1. PluginShapes /\ OneInside /\ Given /\ Distinct /\ Owned /\ Engines /\ Kept
  BY DEF PluginInv
<1>2. /\ thread[t].pc = "idle" /\ thread[t].inbox = <<>> /\ ~thread[t].open
      /\ UNCHANGED <<worker, starts, giveUp, closed, calls, disk, temp, halfDone,
                     stored, strayed, caller>>
  BY <1>1 DEF Plugin!Exit, Plugin!provider, Plugin!files, Plugin!history
<1>3. UNCHANGED caller
  BY <1>2
<1>4. /\ OthersAreKept(t)
     /\ thread'[t].pc = "gone" /\ thread'[t].open = thread[t].open
      /\ thread'[t].ready = thread[t].ready
     /\ thread'[t].inbox = thread[t].inbox /\ thread'[t].job = thread[t].job
      /\ thread'[t].read = thread[t].read
      /\ thread'[t].snapshot = thread[t].snapshot /\ thread'[t].next = thread[t].next
  BY <1>1, <1>2, Nothing DEF Plugin!Exit, OthersAreKept, PluginShapes, ThreadShape
<1>5. PluginShapes'
  BY <1>1, <1>2, <1>3, <1>4 DEF PluginShapes, OthersAreKept
<1>6. OneInside'
  BY <1>1, <1>2, <1>3, <1>4 DEF OneInside, Inside, PluginShapes
<1>7. Given' /\ Distinct' /\ Owned'
  <2>1. \A u \in 1..MaxStarts, n \in 1..MaxCalls : Has(u, n)' => Has(u, n)
    BY <1>1, <1>2, <1>3, <1>4 DEF Has, OthersAreKept, PluginShapes
  <2>2. Given'
    BY <1>1, <1>2, <1>3, <1>4, <2>1 DEF Given, PluginShapes
  <2>3. Distinct'
    BY <1>1, <1>2, <1>3, <1>4 DEF Distinct, OneInside, PluginShapes
  <2>4. Owned'
    BY <1>1, <1>2, <1>3, <1>4, <2>1 DEF Owned, Given, OneInside, Inside, PluginShapes
  <2> QED BY <2>2, <2>3, <2>4
<1>8. Engines'
  <2>1. Plugin!OthersEnd'
    BY <1>1, <1>2, <1>3, <1>4 DEF Engines, Plugin!OthersEnd, Plugin!Awaited,
       Plugin!Engine, OneInside, Inside, PluginShapes, OthersAreKept
  <2>2. (worker # 0 => worker = starts /\ ~closed /\ thread[worker].open)'
    BY <1>1, <1>2, <1>3, <1>4 DEF Engines, OneInside, PluginShapes, OthersAreKept
  <2>3. \A u \in 1..MaxStarts : Loads(u)'
    BY <1>1, <1>2, <1>3, <1>4 DEF Engines, Loads, Plugin!NewThread, PluginShapes,
       OthersAreKept
  <2>4. AtRest'
    BY <1>1, <1>2, <1>3, <1>4 DEF Engines, AtRest, Asking, Quiet, OneInside, Inside,
       PluginShapes, OthersAreKept
  <2>5. \A d \in Caller : Starting(d)'
    BY <1>1, <1>2, <1>3, <1>4 DEF Engines, Starting, Quiet, OneInside, Inside,
       PluginShapes, OthersAreKept
  <2>6. \A d \in Caller : (caller[d].pc = "waiting" => WorksFor(d))'
    BY <1>1, <1>2, <1>3, <1>4 DEF Engines, WorksFor, AtRest, OneInside, Inside,
       PluginShapes, OthersAreKept
  <2> QED BY <2>1, <2>2, <2>3, <2>4, <2>5, <2>6 DEF Engines
<1>9. Kept'
  BY <1>1, <1>2, <1>3, <1>4 DEF Kept, PluginShapes, OneInside, Engines, Starting, Quiet,
     OthersAreKept
<1> QED BY <1>5, <1>6, <1>7, <1>8, <1>9 DEF PluginInv

LEMMA ReadStoreKeeps ==
  ASSUME PluginInv, NEW t \in 1..MaxStarts, Plugin!ReadStore(t)
  PROVE  PluginInv'
<1> USE PluginAssumption
<1>1. PluginShapes /\ OneInside /\ Given /\ Distinct /\ Owned /\ Engines /\ Kept
  BY DEF PluginInv
<1>2. /\ thread[t].pc = "running" /\ ~thread[t].read
      /\ UNCHANGED <<worker, starts, giveUp, closed, calls, disk, temp, halfDone,
                     stored, strayed, caller>>
  BY <1>1 DEF Plugin!ReadStore, Plugin!provider, Plugin!files, Plugin!history
<1>3. UNCHANGED caller
  BY <1>2
<1>4. /\ OthersAreKept(t)
     /\ thread'[t].pc = thread[t].pc /\ thread'[t].open = thread[t].open
      /\ thread'[t].ready = thread[t].ready
     /\ thread'[t].inbox = thread[t].inbox /\ thread'[t].job = thread[t].job
      /\ thread'[t].read = TRUE
      /\ thread'[t].snapshot = disk /\ thread'[t].next = thread[t].next
  BY <1>1, <1>2, Nothing DEF Plugin!ReadStore, OthersAreKept, PluginShapes, ThreadShape
<1>5. PluginShapes'
  BY <1>1, <1>2, <1>3, <1>4 DEF PluginShapes, OthersAreKept
<1>6. OneInside'
  BY <1>1, <1>2, <1>3, <1>4 DEF OneInside, Inside, PluginShapes
<1>7. Given' /\ Distinct' /\ Owned'
  <2>1. \A u \in 1..MaxStarts, n \in 1..MaxCalls : Has(u, n)' => Has(u, n)
    BY <1>1, <1>2, <1>3, <1>4 DEF Has, OthersAreKept, PluginShapes
  <2>2. Given'
    BY <1>1, <1>2, <1>3, <1>4, <2>1 DEF Given, PluginShapes
  <2>3. Distinct'
    BY <1>1, <1>2, <1>3, <1>4 DEF Distinct, OneInside, PluginShapes
  <2>4. Owned'
    BY <1>1, <1>2, <1>3, <1>4, <2>1 DEF Owned, Given, OneInside, Inside, PluginShapes
  <2> QED BY <2>2, <2>3, <2>4
<1>8. Engines'
  <2>1. Plugin!OthersEnd'
    BY <1>1, <1>2, <1>3, <1>4 DEF Engines, Plugin!OthersEnd, Plugin!Awaited,
       Plugin!Engine, OneInside, Inside, PluginShapes, OthersAreKept
  <2>2. (worker # 0 => worker = starts /\ ~closed /\ thread[worker].open)'
    BY <1>1, <1>2, <1>3, <1>4 DEF Engines, OneInside, PluginShapes, OthersAreKept
  <2>3. \A u \in 1..MaxStarts : Loads(u)'
    <3>1. \A u \in 1..MaxStarts : u # t => Loads(u)'
      BY <1>1, <1>2, <1>4 DEF Engines, Loads, OthersAreKept
    <3>2. Loads(t)
      BY <1>1, <1>2 DEF Engines
    <3>3. ~(t > starts)
      BY <1>1, <1>2, <3>2 DEF Loads, Plugin!NewThread, Engines, PluginShapes
    <3>4. \A u \in 1..MaxStarts : u = t => Loads(u)'
      BY <1>2, <1>4, <3>2, <3>3 DEF Loads
    <3> QED BY <3>1, <3>4
  <2>4. AtRest'
    BY <1>1, <1>2, <1>3, <1>4 DEF Engines, AtRest, Asking, Quiet, OneInside, Inside,
       PluginShapes, OthersAreKept
  <2>5. \A d \in Caller : Starting(d)'
    BY <1>1, <1>2, <1>3, <1>4 DEF Engines, Starting, Quiet, OneInside, Inside,
       PluginShapes, OthersAreKept
  <2>6. \A d \in Caller : (caller[d].pc = "waiting" => WorksFor(d))'
    BY <1>1, <1>2, <1>3, <1>4 DEF Engines, WorksFor, AtRest, OneInside, Inside,
       PluginShapes, OthersAreKept
  <2> QED BY <2>1, <2>2, <2>3, <2>4, <2>5, <2>6 DEF Engines
<1>9. Kept'
  BY <1>1, <1>2, <1>3, <1>4 DEF Kept, PluginShapes, OneInside, Engines, Starting, Quiet,
     OthersAreKept
<1> QED BY <1>5, <1>6, <1>7, <1>8, <1>9 DEF PluginInv

LEMMA WriteTempKeeps ==
  ASSUME PluginInv, NEW t \in 1..MaxStarts, Plugin!WriteTemp(t)
  PROVE  PluginInv'
<1> USE PluginAssumption
<1>1. PluginShapes /\ OneInside /\ Given /\ Distinct /\ Owned /\ Engines /\ Kept
  BY DEF PluginInv
<1>2. /\ thread[t].pc = "running" /\ thread[t].read
      /\ temp' = [there |-> TRUE, content |-> thread[t].snapshot \cup {thread[t].job}]
      /\ strayed' = (strayed \/ t # worker)
      /\ UNCHANGED <<worker, starts, giveUp, closed, calls, disk, halfDone, stored,
                     caller>>
  BY <1>1 DEF Plugin!WriteTemp, Plugin!provider, Plugin!files, Plugin!history
<1>3. UNCHANGED caller
  BY <1>2
<1>4. /\ OthersAreKept(t)
     /\ thread'[t].pc = "renaming" /\ thread'[t].open = thread[t].open
      /\ thread'[t].ready = thread[t].ready
     /\ thread'[t].inbox = thread[t].inbox /\ thread'[t].job = thread[t].job
      /\ thread'[t].read = thread[t].read
     /\ thread'[t].snapshot = thread[t].snapshot
      /\ thread'[t].next = thread[t].snapshot \cup {thread[t].job}
  <2> DEFINE after == [thread[t] EXCEPT !.pc = "renaming"
                                   , !.next = thread[t].snapshot \cup {thread[t].job}]
  <2>1. thread' = [thread EXCEPT ![t] = after]
    BY DEF Plugin!WriteTemp
  <2>2. thread[t].snapshot \cup {thread[t].job} \in Keys
    BY <1>1, <1>2, Nothing DEF PluginShapes, ThreadShape, Engines, Loads, Keys
  <2>3. thread[t] \in ThreadShape
    BY <1>1 DEF PluginShapes
  <2>4. after \in ThreadShape
    BY <2>2, <2>3, Nothing DEF ThreadShape
  <2>5. /\ after.pc = "renaming" /\ after.open = thread[t].open
        /\ after.ready = thread[t].ready /\ after.inbox = thread[t].inbox
       /\ after.job = thread[t].job /\ after.read = thread[t].read
        /\ after.snapshot = thread[t].snapshot
        /\ after.next = thread[t].snapshot \cup {thread[t].job}
    BY <2>3 DEF ThreadShape
  <2> HIDE DEF after
  <2> QED BY <1>1, <2>1, <2>4, <2>5 DEF OthersAreKept, PluginShapes
<1>5. PluginShapes'
  BY <1>1, <1>2, <1>3, <1>4 DEF PluginShapes, OthersAreKept, ThreadShape
<1>6. OneInside'
  BY <1>1, <1>2, <1>3, <1>4 DEF OneInside, Inside, PluginShapes
<1>7. Given' /\ Distinct' /\ Owned'
  <2>1. \A u \in 1..MaxStarts, n \in 1..MaxCalls : Has(u, n)' => Has(u, n)
    BY <1>1, <1>2, <1>3, <1>4 DEF Has, OthersAreKept, PluginShapes
  <2>2. Given'
    BY <1>1, <1>2, <1>3, <1>4, <2>1 DEF Given, PluginShapes
  <2>3. Distinct'
    BY <1>1, <1>2, <1>3, <1>4 DEF Distinct, OneInside, PluginShapes
  <2>4. Owned'
    BY <1>1, <1>2, <1>3, <1>4, <2>1 DEF Owned, Given, OneInside, Inside, PluginShapes
  <2> QED BY <2>2, <2>3, <2>4
<1>8. Engines'
  <2>1. Plugin!OthersEnd'
    <3>1. \A u \in 1..MaxStarts : thread'[u].open = thread[u].open
      BY <1>4 DEF OthersAreKept
    <3> QED BY <1>1, <1>2, <3>1 DEF Engines, Plugin!OthersEnd, Plugin!Awaited,
               Plugin!Engine
  <2>2. (worker # 0 => worker = starts /\ ~closed /\ thread[worker].open)'
    BY <1>1, <1>2, <1>3, <1>4 DEF Engines, OneInside, PluginShapes, OthersAreKept
  <2>3. \A u \in 1..MaxStarts : Loads(u)'
    <3>1. \A u \in 1..MaxStarts : u # t => Loads(u)'
      BY <1>1, <1>2, <1>4 DEF Engines, Loads, OthersAreKept
    <3>2. Loads(t)
      BY <1>1 DEF Engines
    <3>3. ~(t > starts)
      BY <1>2, <3>2 DEF Loads, Plugin!NewThread
    <3>4. Loads(t)'
      BY <1>2, <1>4, <3>2, <3>3 DEF Loads
    <3> QED BY <3>1, <3>4
  <2>4. AtRest'
    BY <1>1, <1>2, <1>3, <1>4 DEF Engines, AtRest, Asking, Quiet, OneInside, Inside,
       PluginShapes, OthersAreKept
  <2>5. \A d \in Caller : Starting(d)'
    BY <1>1, <1>2, <1>3, <1>4 DEF Engines, Starting, Quiet, OneInside, Inside,
       PluginShapes, OthersAreKept
  <2>6. \A d \in Caller : (caller[d].pc = "waiting" => WorksFor(d))'
    BY <1>1, <1>2, <1>3, <1>4 DEF Engines, WorksFor, AtRest, OneInside, Inside,
       PluginShapes, OthersAreKept
  <2> QED BY <2>1, <2>2, <2>3, <2>4, <2>5, <2>6 DEF Engines
<1>9. Kept'
  BY <1>1, <1>2, <1>3, <1>4 DEF Kept, PluginShapes, OneInside, Engines, Starting, Quiet,
     OthersAreKept
<1> QED BY <1>5, <1>6, <1>7, <1>8, <1>9 DEF PluginInv

LEMMA FallKeeps ==
  ASSUME PluginInv, NEW t \in 1..MaxStarts, Plugin!Fall(t)
  PROVE  PluginInv'
<1> USE PluginAssumption
<1>1. PluginShapes /\ OneInside /\ Given /\ Distinct /\ Owned /\ Engines /\ Kept
  BY DEF PluginInv
<1>2. /\ thread[t].pc \in {"loading", "running", "renaming"}
      /\ halfDone' = halfDone \cup {t}
      /\ UNCHANGED <<worker, starts, giveUp, closed, calls, disk, temp, stored, strayed,
                     caller>>
  BY <1>1 DEF Plugin!Fall, Plugin!provider, Plugin!files, Plugin!history
<1>3. UNCHANGED caller
  BY <1>2
<1>4. /\ OthersAreKept(t)
     /\ thread'[t].pc = "gone" /\ thread'[t].open = thread[t].open
      /\ thread'[t].ready = thread[t].ready
     /\ thread'[t].inbox = thread[t].inbox /\ thread'[t].job = 0
      /\ thread'[t].read = thread[t].read
      /\ thread'[t].snapshot = thread[t].snapshot /\ thread'[t].next = {}
  <2> DEFINE after == [thread[t] EXCEPT !.pc = "gone", !.job = 0, !.next = {}]
  <2>1. thread' = [thread EXCEPT ![t] = after]
    BY DEF Plugin!Fall
  <2>2. {} \in Keys
    BY <1>1, <1>2, Nothing
  <2>3. thread[t] \in ThreadShape
    BY <1>1 DEF PluginShapes
  <2>4. after \in ThreadShape
    BY <2>2, <2>3, Nothing DEF ThreadShape
  <2>5. /\ after.pc = "gone" /\ after.open = thread[t].open
        /\ after.ready = thread[t].ready /\ after.inbox = thread[t].inbox
       /\ after.job = 0 /\ after.read = thread[t].read
        /\ after.snapshot = thread[t].snapshot /\ after.next = {}
    BY <2>3 DEF ThreadShape
  <2> HIDE DEF after
  <2> QED BY <1>1, <2>1, <2>4, <2>5 DEF OthersAreKept, PluginShapes
<1>5. PluginShapes'
  BY <1>1, <1>2, <1>3, <1>4 DEF PluginShapes, OthersAreKept
<1>6. OneInside'
  BY <1>1, <1>2, <1>3, <1>4 DEF OneInside, Inside, PluginShapes
<1>7. Given' /\ Distinct' /\ Owned'
  <2>1. \A u \in 1..MaxStarts, n \in 1..MaxCalls : Has(u, n)' => Has(u, n)
    BY <1>1, <1>2, <1>3, <1>4 DEF Has, OthersAreKept, PluginShapes
  <2>2. Given'
    BY <1>1, <1>2, <1>3, <1>4, <2>1 DEF Given, PluginShapes
  <2>3. Distinct'
    BY <1>1, <1>2, <1>3, <1>4 DEF Distinct, OneInside, PluginShapes
  <2>4. Owned'
    BY <1>1, <1>2, <1>3, <1>4, <2>1 DEF Owned, Given, OneInside, Inside, PluginShapes
  <2> QED BY <2>2, <2>3, <2>4
<1>8. Engines'
  <2>1. Plugin!OthersEnd'
    BY <1>1, <1>2, <1>3, <1>4 DEF Engines, Plugin!OthersEnd, Plugin!Awaited,
       Plugin!Engine, OneInside, Inside, PluginShapes, OthersAreKept
  <2>2. (worker # 0 => worker = starts /\ ~closed /\ thread[worker].open)'
    BY <1>1, <1>2, <1>3, <1>4 DEF Engines, OneInside, PluginShapes, OthersAreKept
  <2>3. \A u \in 1..MaxStarts : Loads(u)'
    <3>1. \A u \in 1..MaxStarts : u # t => Loads(u)'
      BY <1>1, <1>2, <1>4 DEF Engines, Loads, OthersAreKept
    <3>2. Loads(t)
      BY <1>1, <1>2 DEF Engines
    <3>3. ~(t > starts)
      BY <1>1, <1>2, <3>2 DEF Loads, Plugin!NewThread, Engines, PluginShapes
    <3>4. \A u \in 1..MaxStarts : u = t => Loads(u)'
      BY <1>2, <1>4, <3>2, <3>3 DEF Loads
    <3> QED BY <3>1, <3>4
  <2>4. AtRest'
    BY <1>1, <1>2, <1>3, <1>4 DEF Engines, AtRest, Asking, Quiet, OneInside, Inside,
       PluginShapes, OthersAreKept
  <2>5. \A d \in Caller : Starting(d)'
    BY <1>1, <1>2, <1>3, <1>4 DEF Engines, Starting, Quiet, OneInside, Inside,
       PluginShapes, OthersAreKept
  <2>6. \A d \in Caller : (caller[d].pc = "waiting" => WorksFor(d))'
    BY <1>1, <1>2, <1>3, <1>4 DEF Engines, WorksFor, AtRest, OneInside, Inside,
       PluginShapes, OthersAreKept
  <2> QED BY <2>1, <2>2, <2>3, <2>4, <2>5, <2>6 DEF Engines
<1>9. Kept'
  BY <1>1, <1>2, <1>3, <1>4 DEF Kept, PluginShapes, OneInside, Engines, Starting, Quiet,
     OthersAreKept
<1> QED BY <1>5, <1>6, <1>7, <1>8, <1>9 DEF PluginInv

(* The engine that is asked is quiet: its loop waits for this very call.    *)
LEMMA SendKeeps ==
  ASSUME PluginInv, NEW c \in Caller, Plugin!Send(c)
  PROVE  PluginInv'
<1> USE PluginAssumption
<1>1. PluginShapes /\ OneInside /\ Given /\ Distinct /\ Owned /\ Engines /\ Kept
  BY DEF PluginInv
<1>2. /\ caller[c].pc = "sending" /\ worker \in 1..MaxStarts /\ Quiet(worker)
      /\ caller[c].call \in 1..calls /\ caller[c].call \in 1..MaxCalls
      /\ caller[c].reply = "none"
  <2>1. caller[c].pc = "sending" /\ worker # 0 /\ caller[c].call \in 1..calls
    BY <1>1 DEF Plugin!Send, OneInside
  <2>2. \A d \in Caller : ~Asking(d)
    BY <1>1, <2>1 DEF OneInside, Inside, Asking
  <2> QED BY <1>1, <2>1, <2>2 DEF PluginShapes, Engines, AtRest, OneInside
<1>3. /\ UNCHANGED <<worker, starts, giveUp, closed, calls, disk, temp, halfDone,
                     stored,
                     strayed>>
      /\ CallerIs(c, "waiting", caller[c].call, "none")
  <2>1. Plugin!Goes(c, "waiting")
    BY <1>2 DEF Plugin!Send, Quiet
  <2> QED BY <1>1, <1>2, <2>1 DEF Plugin!Send, Plugin!provider, Plugin!files,
             Plugin!history,
             Plugin!Goes, CallerIs, PluginShapes, Plugin!CallerState
<1>4. /\ OthersAreKept(worker)
      /\ thread'[worker].pc = "idle" /\ thread'[worker].open = thread[worker].open
      /\ thread'[worker].inbox = <<caller[c].call>> /\ thread'[worker].job = 0
      /\ thread'[worker].read = thread[worker].read
      /\ thread'[worker].snapshot = thread[worker].snapshot
  <2> DEFINE after == [thread[worker] EXCEPT !.inbox = Append(@, caller[c].call)]
  <2>1. thread' = [thread EXCEPT ![worker] = after]
    BY <1>2 DEF Plugin!Send, Quiet
  <2>2. Append(<<>>, caller[c].call) = <<caller[c].call>>
    OBVIOUS
  <2>3. thread[worker] \in ThreadShape /\ thread[worker].inbox = <<>>
    BY <1>1, <1>2 DEF PluginShapes, Quiet
  <2>4. <<caller[c].call>> \in Inbox
    BY <1>2 DEF Inbox
  <2>5. after \in ThreadShape
    BY <2>2, <2>3, <2>4 DEF ThreadShape
  <2>6. /\ after.pc = thread[worker].pc /\ after.open = thread[worker].open
        /\ after.inbox = <<caller[c].call>> /\ after.job = thread[worker].job
        /\ after.read = thread[worker].read /\ after.snapshot = thread[worker].snapshot
    BY <2>2, <2>3 DEF ThreadShape
  <2> HIDE DEF after
  <2> QED BY <1>1, <1>2, <2>1, <2>5, <2>6 DEF OthersAreKept, PluginShapes, Quiet
<1>5. PluginShapes'
  BY <1>1, <1>3, <1>4 DEF PluginShapes, CallerIs, OthersAreKept
<1>6. OneInside'
  BY <1>1, <1>2, <1>3 DEF OneInside, Inside, PluginShapes, CallerIs
<1>7. Given' /\ Distinct' /\ Owned'
  <2>1. \A u \in 1..MaxStarts, n \in 1..MaxCalls :
          Has(u, n)' => Has(u, n) \/ (u = worker /\ n = caller[c].call)
    <3>1. ASSUME NEW n \in 1..MaxCalls, Has(worker, n)' PROVE n = caller[c].call
      <4>1. <<caller[c].call>> = <<n>> => n = caller[c].call
        OBVIOUS
      <4> QED BY <1>2, <1>3, <1>4, <3>1, <4>1 DEF Has
    <3> QED BY <1>3, <1>4, <3>1 DEF Has, OthersAreKept
  <2>2. Given'
    BY <1>1, <1>2, <1>3, <2>1 DEF Given, PluginShapes
  <2>3. Distinct'
    BY <1>1, <1>2, <1>3 DEF Distinct, CallerIs
  <2>4. \A d \in Caller : caller'[d].pc # "idle" =>
          /\ caller[d].pc # "idle" /\ caller'[d].call = caller[d].call
          /\ caller[d].call \in 1..MaxCalls
    BY <1>1, <1>2, <1>3 DEF CallerIs, OneInside, PluginShapes
  <2>5. \A d \in Caller : d # c /\ caller[d].pc # "idle" => caller[d].call # caller[c].call
    BY <1>1, <1>2 DEF Distinct
  <2>6. ASSUME NEW d \in Caller, NEW u \in 1..MaxStarts, caller'[d].pc # "idle",
               Has(u, caller[d].call)'
        PROVE  /\ caller'[d].pc \in {"waiting", "dropping", "joining"}
               /\ caller'[d].pc = "waiting" => u = worker'
    <3>1. Has(u, caller[d].call) \/ (u = worker /\ caller[d].call = caller[c].call)
      BY <2>1, <2>4, <2>6 DEF Has
    <3>2. CASE d = c
      BY <1>1, <1>2, <1>3, <3>1, <3>2 DEF Owned, CallerIs
    <3>3. CASE d # c
      BY <1>1, <1>3, <2>4, <2>5, <2>6, <3>1, <3>3 DEF Owned, CallerIs
    <3> QED BY <3>2, <3>3
  <2>7. Owned'
    BY <2>6 DEF Owned
  <2> QED BY <2>2, <2>3, <2>7
<1>8. Engines'
  <2>1. Plugin!OthersEnd'
    <3>1. \A u \in 1..MaxStarts : thread'[u].open = thread[u].open
      BY <1>4 DEF OthersAreKept
    <3>2. \A d \in Caller : caller[d].pc # "starting"
      BY <1>1, <1>2 DEF OneInside
    <3> QED BY <1>1, <1>3, <3>1, <3>2
         DEF Engines, Plugin!OthersEnd, Plugin!Awaited, Plugin!Engine
  <2>2. (worker # 0 => worker = starts /\ ~closed /\ thread[worker].open)'
    BY <1>1, <1>3, <1>4 DEF Engines
  <2>3. \A u \in 1..MaxStarts : Loads(u)'
    BY <1>1, <1>2, <1>3, <1>4 DEF Engines, Loads, OthersAreKept, PluginShapes
  <2>4. AtRest'
    BY <1>3 DEF AtRest, Asking, CallerIs
  <2>5. \A d \in Caller : Starting(d)'
    BY <1>1, <1>2, <1>3 DEF Starting, OneInside, CallerIs
  <2>6. \A d \in Caller : (caller[d].pc = "waiting" => WorksFor(d))'
    <3>1. \A d \in Caller : caller'[d].pc = "waiting" => d = c
      BY <1>1, <1>2, <1>3 DEF OneInside, Inside, CallerIs
    <3>2. WorksFor(c)'
      BY <1>2, <1>3, <1>4 DEF WorksFor, CallerIs, Quiet
    <3> QED BY <3>1, <3>2
  <2> QED BY <2>1, <2>2, <2>3, <2>4, <2>5, <2>6 DEF Engines
<1>9. Kept'
  BY <1>1, <1>3, <1>4 DEF Kept
<1> QED BY <1>5, <1>6, <1>7, <1>8, <1>9 DEF PluginInv

LEMMA DropKeeps ==
  ASSUME PluginInv, Plugin!DropProvider
  PROVE  PluginInv'
<1> USE PluginAssumption
<1>1. PluginShapes /\ OneInside /\ Given /\ Distinct /\ Owned /\ Engines /\ Kept
  BY DEF PluginInv
<1>2. /\ \A c \in Caller : caller[c].pc = "idle"
      /\ worker' = 0 /\ closed' = TRUE
      /\ UNCHANGED <<starts, giveUp, caller, calls, disk, temp, halfDone, stored,
                     strayed>>
  BY DEF Plugin!DropProvider, Plugin!files, Plugin!history
<1>3. \A u \in 1..MaxStarts : thread[u].open => u = worker
  BY <1>1, <1>2 DEF Engines, Plugin!OthersEnd, Plugin!Awaited, Plugin!Engine
<1>4. /\ thread' \in [1..MaxStarts -> ThreadShape]
      /\ \A u \in 1..MaxStarts :
           /\ u # worker => thread'[u] = thread[u]
           /\ thread'[u].pc = thread[u].pc /\ thread'[u].inbox = thread[u].inbox
           /\ thread'[u].job = thread[u].job /\ thread'[u].read = thread[u].read
           /\ ~thread'[u].open
  <2>1. CASE worker = 0
    BY <1>1, <1>3, <2>1 DEF Plugin!DropProvider, PluginShapes
  <2>2. CASE worker # 0
    <3>1. worker \in 1..MaxStarts /\ thread' = [thread EXCEPT ![worker].open = FALSE]
      BY <1>1, <2>2 DEF Plugin!DropProvider, Plugin!LetGo, PluginShapes
    <3> DEFINE after == [thread[worker] EXCEPT !.open = FALSE]
    <3>2. thread' = [thread EXCEPT ![worker] = after]
      BY <3>1
    <3>3. thread[worker] \in ThreadShape
      BY <1>1, <3>1 DEF PluginShapes
    <3>4. /\ after \in ThreadShape /\ ~after.open
          /\ after.pc = thread[worker].pc /\ after.inbox = thread[worker].inbox
          /\ after.job = thread[worker].job /\ after.read = thread[worker].read
      BY <3>3 DEF ThreadShape
    <3> HIDE DEF after
    <3> QED BY <1>1, <1>3, <3>1, <3>2, <3>4 DEF PluginShapes
  <2> QED BY <2>1, <2>2
<1>5. PluginShapes'
  BY <1>1, <1>2, <1>4 DEF PluginShapes
<1>6. OneInside'
  BY <1>1, <1>2 DEF OneInside, Inside
<1>7. Given' /\ Distinct' /\ Owned'
  <2>1. \A u \in 1..MaxStarts, n \in 1..MaxCalls : Has(u, n)' => Has(u, n)
    BY <1>4 DEF Has
  <2> QED BY <1>1, <1>2, <2>1 DEF Given, Distinct, Owned
<1>8. Engines'
  <2>1. \A u \in 1..MaxStarts : Loads(u)'
    BY <1>1, <1>2, <1>4 DEF Engines, Loads, PluginShapes
  <2> QED BY <1>2, <1>4, <2>1
       DEF Engines, Plugin!OthersEnd, Plugin!Engine, AtRest, Starting
<1>9. Kept'
  BY <1>1, <1>2 DEF Kept
<1> QED BY <1>5, <1>6, <1>7, <1>8, <1>9 DEF PluginInv

-----------------------------------------------------------------------------
(* The threads' steps.                                                      *)
LEMMA LoadEndsKeeps ==
  ASSUME PluginInv, NEW t \in 1..MaxStarts, Plugin!LoadEnds(t)
  PROVE  PluginInv'
<1> USE PluginAssumption
<1>1. PluginShapes /\ OneInside /\ Given /\ Distinct /\ Owned /\ Engines /\ Kept
  BY DEF PluginInv
<1>2. /\ thread[t].pc = "loading" /\ t <= starts /\ thread[t].inbox = <<>>
      /\ thread[t].job = 0
      /\ ~thread[t].read /\ t \notin halfDone
      /\ UNCHANGED <<worker, starts, giveUp, closed, caller, calls, disk, temp,
                     halfDone,
                     stored, strayed>>
  <2>1. thread[t].pc = "loading" /\ Loads(t)
    BY <1>1 DEF Plugin!LoadEnds, Engines
  <2> QED BY <1>1, <2>1 DEF Plugin!LoadEnds, Loads, Plugin!NewThread, PluginShapes,
             Plugin!provider, Plugin!files, Plugin!history
<1>3. PICK r \in {"ok", "contract", "failed"} :
        thread' = [thread EXCEPT ![t].ready = IF Plugin!Awaited(t) THEN r ELSE "none",
                                 ![t].pc = IF r = "ok" /\ Plugin!Awaited(t)
                                             THEN "idle" ELSE "gone"]
  BY DEF Plugin!LoadEnds
<1>4. /\ OthersAreKept(t)
      /\ thread'[t].pc \in {"idle", "gone"} /\ thread'[t].open = thread[t].open
      /\ Plugin!Awaited(t) =>
           IF thread'[t].ready = "ok" THEN thread'[t].pc = "idle" ELSE thread'[t].pc = "gone"
      /\ thread'[t].inbox = <<>> /\ thread'[t].job = 0 /\ ~thread'[t].read
  <2> DEFINE ready == IF Plugin!Awaited(t) THEN r ELSE "none"
             pc == IF r = "ok" /\ Plugin!Awaited(t) THEN "idle" ELSE "gone"
             after == [thread[t] EXCEPT !.ready = ready, !.pc = pc]
  <2>1. thread' = [thread EXCEPT ![t] = after]
    BY <1>3
  <2>2. thread[t] \in ThreadShape
    BY <1>1 DEF PluginShapes
  <2>3. ready \in {"none", "ok", "contract", "failed"} /\ pc \in {"idle", "gone"}
    OBVIOUS
  <2>4. Plugin!Awaited(t) => IF ready = "ok" THEN pc = "idle" ELSE pc = "gone"
    OBVIOUS
  <2> HIDE DEF ready, pc
  <2>5. after \in ThreadShape
    BY <2>2, <2>3 DEF ThreadShape
  <2>6. /\ after.pc = pc /\ after.ready = ready /\ after.open = thread[t].open
        /\ after.inbox = thread[t].inbox /\ after.job = thread[t].job
        /\ after.read = thread[t].read
    BY <2>2 DEF ThreadShape
  <2> HIDE DEF after
  <2> QED BY <1>1, <1>2, <2>1, <2>3, <2>4, <2>5, <2>6 DEF OthersAreKept, PluginShapes
<1>5. PluginShapes'
  BY <1>1, <1>2, <1>4 DEF PluginShapes, OthersAreKept
<1>6. OneInside'
  BY <1>1, <1>2 DEF OneInside, Inside
<1>7. Given' /\ Distinct' /\ Owned'
  <2>1. \A u \in 1..MaxStarts, n \in 1..MaxCalls : Has(u, n)' => Has(u, n)
    <3>1. ASSUME NEW n \in 1..MaxCalls PROVE ~Has(t, n)'
      BY <1>4, Nothing DEF Has
    <3> QED BY <1>4, <3>1 DEF Has, OthersAreKept
  <2> QED BY <1>1, <1>2, <2>1 DEF Given, Distinct, Owned, OneInside, PluginShapes
<1>8. Engines'
  <2>1. Plugin!OthersEnd'
    <3>1. \A u \in 1..MaxStarts : thread'[u].open = thread[u].open
      BY <1>4 DEF OthersAreKept
    <3> QED BY <1>1, <1>2, <3>1 DEF Engines, Plugin!OthersEnd, Plugin!Awaited,
               Plugin!Engine
  <2>2. (worker # 0 => worker = starts /\ ~closed /\ thread[worker].open)'
    BY <1>1, <1>2, <1>4 DEF Engines, PluginShapes, OthersAreKept
  <2>3. \A u \in 1..MaxStarts : Loads(u)'
    <3>1. \A u \in 1..MaxStarts : u # t => Loads(u)'
      BY <1>1, <1>2, <1>4 DEF Engines, Loads, OthersAreKept
    <3>2. ~(t > starts)
      BY <1>1, <1>2 DEF PluginShapes
    <3>3. Loads(t)'
      BY <1>2, <1>4, <3>2 DEF Loads
    <3> QED BY <3>1, <3>3
  <2>4. AtRest'
    BY <1>1, <1>2, <1>4 DEF Engines, AtRest, Asking, Quiet, OthersAreKept, PluginShapes
  <2>5. ASSUME NEW d \in Caller PROVE Starting(d)'
    <3>1. CASE caller[d].pc = "starting" /\ t = starts
      <4>1. Plugin!Awaited(t) /\ Starting(d)
        BY <1>1, <3>1 DEF Plugin!Awaited, Engines
      <4> QED BY <1>2, <1>4, <3>1, <4>1 DEF Starting, Quiet
    <3>2. CASE caller[d].pc = "starting" /\ t # starts
      BY <1>1, <1>2, <1>4, <3>2 DEF Engines, Starting, Quiet, OthersAreKept,
         PluginShapes
    <3> QED BY <1>2, <3>1, <3>2 DEF Starting
  <2>6. \A d \in Caller : (caller[d].pc = "waiting" => WorksFor(d))'
    BY <1>1, <1>2, <1>4 DEF Engines, WorksFor, OthersAreKept, OneInside, PluginShapes
  <2> QED BY <2>1, <2>2, <2>3, <2>4, <2>5, <2>6 DEF Engines
<1>9. Kept'
  BY <1>1, <1>2, <1>4 DEF Kept, OthersAreKept, PluginShapes
<1> QED BY <1>5, <1>6, <1>7, <1>8, <1>9 DEF PluginInv

(* The file that is renamed is the thread's own if no stray thread wrote.   *)
LEMMA RenameTempKeeps ==
  ASSUME PluginInv, NEW t \in 1..MaxStarts, Plugin!RenameTemp(t)
  PROVE  PluginInv'
<1> USE PluginAssumption
<1>1. PluginShapes /\ OneInside /\ Given /\ Distinct /\ Owned /\ Engines /\ Kept
  BY DEF PluginInv
<1>2. /\ thread[t].pc = "renaming" /\ thread[t].job \in 1..MaxCalls /\ ~(t > starts)
      /\ thread[t].read /\ thread[t].next \in Keys /\ thread[t].snapshot \in Keys
      /\ temp' = Plugin!NoTemp /\ strayed' = (strayed \/ t # worker)
      /\ UNCHANGED <<worker, starts, giveUp, closed, caller, calls, halfDone>>
  <2>1. thread[t].pc = "renaming" /\ Loads(t) /\ thread[t] \in ThreadShape
    BY <1>1 DEF Plugin!RenameTemp, Engines, PluginShapes
  <2>2. thread[t].job \in 0..MaxCalls /\ thread[t].next \in Keys /\ thread[t].snapshot \in Keys
    BY <2>1 DEF ThreadShape
  <2> QED BY <2>1, <2>2 DEF Plugin!RenameTemp, Loads, Plugin!NewThread, Plugin!provider
<1>3. IF temp.there
        THEN disk' = temp.content /\ stored' = stored \cup {thread[t].job}
        ELSE UNCHANGED <<disk, stored>>
  BY DEF Plugin!RenameTemp
<1>4. /\ OthersAreKept(t)
      /\ thread'[t].pc = "running" /\ thread'[t].open = thread[t].open
      /\ thread'[t].inbox = thread[t].inbox /\ thread'[t].job = thread[t].job
      /\ thread'[t].read = thread[t].read
      /\ thread'[t].snapshot = IF temp.there THEN thread[t].next ELSE thread[t].snapshot
  <2> DEFINE snapshot == IF temp.there THEN thread[t].next ELSE thread[t].snapshot
             after == [thread[t] EXCEPT !.pc = "running", !.next = {}, !.snapshot = snapshot]
  <2>1. thread' = [thread EXCEPT ![t] = after]
    <3>1. CASE temp.there
      BY <1>1, <3>1 DEF Plugin!RenameTemp, Plugin!SnapshotAfter, PluginShapes
    <3>2. CASE ~temp.there
      <4>1. thread[t] = [thread[t] EXCEPT !.snapshot = thread[t].snapshot]
        BY <1>1 DEF PluginShapes, ThreadShape
      <4>2. after = [thread[t] EXCEPT !.pc = "running", !.next = {}]
        BY <1>1, <3>2, <4>1 DEF PluginShapes, ThreadShape
      <4> QED BY <3>2, <4>2 DEF Plugin!RenameTemp
    <3> QED BY <3>1, <3>2
  <2>2. thread[t] \in ThreadShape /\ snapshot \in Keys
    BY <1>1, <1>2 DEF PluginShapes
  <2> HIDE DEF snapshot
  <2>3. after \in ThreadShape
    BY <2>2, Nothing DEF ThreadShape
  <2>4. /\ after.pc = "running" /\ after.open = thread[t].open
        /\ after.inbox = thread[t].inbox /\ after.job = thread[t].job
        /\ after.read = thread[t].read /\ after.snapshot = snapshot
    BY <2>2 DEF ThreadShape
  <2> HIDE DEF after
  <2> QED BY <1>1, <2>1, <2>3, <2>4 DEF OthersAreKept, PluginShapes, snapshot
<1>5. PluginShapes'
  <2>1. Plugin!NoTemp \in [there : BOOLEAN, content : Keys]
    BY Nothing DEF Plugin!NoTemp
  <2>2. temp.content \in Keys /\ stored \cup {thread[t].job} \in Keys
    BY <1>1, <1>2 DEF PluginShapes, Keys
  <2> QED BY <1>1, <1>2, <1>3, <1>4, <2>1, <2>2 DEF PluginShapes, OthersAreKept
<1>6. OneInside'
  BY <1>1, <1>2 DEF OneInside, Inside
<1>7. Given' /\ Distinct' /\ Owned'
  <2>1. \A u \in 1..MaxStarts, n \in 1..MaxCalls : Has(u, n)' => Has(u, n)
    BY <1>4 DEF Has, OthersAreKept
  <2> QED BY <1>1, <1>2, <2>1 DEF Given, Distinct, Owned, OneInside, PluginShapes
<1>8. Engines'
  <2>1. Plugin!OthersEnd'
    <3>1. \A u \in 1..MaxStarts : thread'[u].open = thread[u].open
      BY <1>4 DEF OthersAreKept
    <3> QED BY <1>1, <1>2, <3>1 DEF Engines, Plugin!OthersEnd, Plugin!Awaited,
               Plugin!Engine
  <2>2. (worker # 0 => worker = starts /\ ~closed /\ thread[worker].open)'
    BY <1>1, <1>2, <1>4 DEF Engines, PluginShapes, OthersAreKept
  <2>3. \A u \in 1..MaxStarts : Loads(u)'
    <3>1. \A u \in 1..MaxStarts : u # t => Loads(u)'
      BY <1>1, <1>2, <1>4 DEF Engines, Loads, OthersAreKept
    <3>2. Loads(t)'
      BY <1>2, <1>4 DEF Loads
    <3> QED BY <3>1, <3>2
  <2>4. AtRest'
    BY <1>1, <1>2, <1>4 DEF Engines, AtRest, Asking, Quiet, OthersAreKept, PluginShapes
  <2>5. \A d \in Caller : Starting(d)'
    BY <1>1, <1>2, <1>4 DEF Engines, Starting, Quiet, OthersAreKept, PluginShapes
  <2>6. \A d \in Caller : (caller[d].pc = "waiting" => WorksFor(d))'
    BY <1>1, <1>2, <1>4 DEF Engines, WorksFor, OthersAreKept, OneInside, PluginShapes
  <2> QED BY <2>1, <2>2, <2>3, <2>4, <2>5, <2>6 DEF Engines
<1>9. Kept'
  <2>1. CASE strayed'
    BY <2>1 DEF Kept
  <2>2. CASE ~strayed'
    <3>1. ~strayed /\ t = worker /\ worker # 0
      <4>1. ~strayed /\ t = worker
        BY <1>2, <2>2, Zenon
      <4> QED BY <4>1
    <3>2. /\ stored \subseteq thread[t].snapshot /\ temp.there
          /\ temp.content = thread[t].next
          /\ thread[t].next = thread[t].snapshot \cup {thread[t].job}
      BY <1>1, <1>2, <3>1 DEF Kept
    <3>3. /\ disk' = thread[t].next /\ stored' = stored \cup {thread[t].job}
          /\ thread'[t].snapshot = thread[t].next /\ thread'[t].pc = "running"
      BY <1>3, <1>4, <3>2
    <3> QED BY <1>2, <3>1, <3>2, <3>3 DEF Kept
  <2> QED BY <2>1, <2>2
<1> QED BY <1>5, <1>6, <1>7, <1>8, <1>9 DEF PluginInv

(* An answer reaches the caller of that call only.                          *)
LEMMA ReplyKeeps ==
  ASSUME PluginInv, NEW t \in 1..MaxStarts, Plugin!Reply(t)
  PROVE  PluginInv'
<1> USE PluginAssumption
<1>1. PluginShapes /\ OneInside /\ Given /\ Distinct /\ Owned /\ Engines /\ Kept
  BY DEF PluginInv
<1>2. /\ thread[t].pc = "running" /\ thread[t].job \in 1..MaxCalls /\ ~(t > starts)
      /\ UNCHANGED <<worker, starts, giveUp, closed, calls, disk, temp, stored,
                     strayed>>
  <2>1. thread[t].pc = "running" /\ Loads(t) /\ thread[t] \in ThreadShape
    BY <1>1 DEF Plugin!Reply, Engines, PluginShapes
  <2>2. thread[t].job \in 0..MaxCalls
    BY <2>1 DEF ThreadShape
  <2> QED BY <2>1, <2>2 DEF Plugin!Reply, Loads, Plugin!NewThread, Plugin!provider,
             Plugin!files
<1>3. PICK a \in Plugin!Answer :
        /\ caller' = [d \in Caller |->
             IF caller[d].pc = "waiting" /\ caller[d].call = thread[t].job
               THEN [caller[d] EXCEPT !.reply = a] ELSE caller[d]]
        /\ halfDone' = IF a = "interrupted" THEN halfDone \cup {t} ELSE halfDone
  BY DEF Plugin!Reply
<1>4. /\ caller' \in [Caller -> Plugin!CallerState]
      /\ \A d \in Caller :
           /\ caller'[d].pc = caller[d].pc /\ caller'[d].call = caller[d].call
           /\ caller'[d].reply = IF caller[d].pc = "waiting" /\ caller[d].call = thread[t].job
                                   THEN a ELSE caller[d].reply
  <2>1. ASSUME NEW d \in Caller
        PROVE  /\ caller'[d] \in Plugin!CallerState
               /\ caller'[d].pc = caller[d].pc /\ caller'[d].call = caller[d].call
               /\ caller'[d].reply =
                     IF caller[d].pc = "waiting" /\ caller[d].call = thread[t].job
                       THEN a ELSE caller[d].reply
    <3>1. caller[d] \in Plugin!CallerState
      BY <1>1 DEF PluginShapes
    <3>2. CASE caller[d].pc = "waiting" /\ caller[d].call = thread[t].job
      BY <1>3, <3>1, <3>2 DEF Plugin!CallerState
    <3>3. CASE ~(caller[d].pc = "waiting" /\ caller[d].call = thread[t].job)
      BY <1>3, <3>1, <3>3
    <3> QED BY <3>2, <3>3
  <2>2. caller' = [d \in Caller |-> caller'[d]]
    BY <1>3
  <2> QED BY <2>1, <2>2
<1>5. /\ OthersAreKept(t)
      /\ thread'[t].pc = "idle" /\ thread'[t].open = thread[t].open
      /\ thread'[t].inbox = thread[t].inbox /\ thread'[t].job = 0
      /\ thread'[t].read = thread[t].read /\ thread'[t].snapshot = thread[t].snapshot
  <2> DEFINE after == [thread[t] EXCEPT !.pc = "idle", !.job = 0]
  <2>1. thread' = [thread EXCEPT ![t] = after]
    BY DEF Plugin!Reply
  <2>2. thread[t] \in ThreadShape
    BY <1>1 DEF PluginShapes
  <2>3. /\ after \in ThreadShape
        /\ after.pc = "idle" /\ after.open = thread[t].open
        /\ after.inbox = thread[t].inbox /\ after.job = 0
        /\ after.read = thread[t].read /\ after.snapshot = thread[t].snapshot
    BY <2>2, Nothing DEF ThreadShape
  <2> HIDE DEF after
  <2> QED BY <1>1, <2>1, <2>3 DEF OthersAreKept, PluginShapes
<1>6. PluginShapes'
  <2>1. halfDone' \in SUBSET (1..MaxStarts)
    BY <1>1, <1>3 DEF PluginShapes
  <2> QED BY <1>1, <1>2, <1>4, <1>5, <2>1 DEF PluginShapes, OthersAreKept
<1>7. OneInside'
  BY <1>1, <1>2, <1>4 DEF OneInside, Inside
<1>8. Given' /\ Distinct' /\ Owned'
  <2>1. \A u \in 1..MaxStarts, n \in 1..MaxCalls : Has(u, n)' => Has(u, n)
    <3>1. \A n \in 1..MaxCalls : n # 0
      OBVIOUS
    <3> QED BY <1>5, <3>1 DEF Has, OthersAreKept
  <2> QED BY <1>1, <1>2, <1>4, <2>1 DEF Given, Distinct, Owned, OneInside, PluginShapes
<1>9. Engines'
  <2>1. Plugin!OthersEnd'
    <3>1. \A u \in 1..MaxStarts : thread'[u].open = thread[u].open
      BY <1>5 DEF OthersAreKept
    <3> QED BY <1>1, <1>2, <1>4, <3>1
         DEF Engines, Plugin!OthersEnd, Plugin!Awaited, Plugin!Engine
  <2>2. (worker # 0 => worker = starts /\ ~closed /\ thread[worker].open)'
    BY <1>1, <1>2, <1>5 DEF Engines, PluginShapes, OthersAreKept
  <2>3. \A u \in 1..MaxStarts : Loads(u)'
    <3>1. \A u \in 1..MaxStarts : u # t => Loads(u)'
      BY <1>1, <1>2, <1>3, <1>5 DEF Engines, Loads, OthersAreKept
    <3>2. Loads(t)'
      BY <1>2, <1>5 DEF Loads
    <3> QED BY <3>1, <3>2
  <2>4. \A d \in Caller : caller[d].pc = "waiting" /\ t = worker =>
          /\ caller[d].call = thread[t].job /\ caller[d].reply = "none"
          /\ t \notin halfDone /\ thread[t].inbox = <<>>
    BY <1>1, <1>2 DEF Engines, WorksFor
  <2>5. AtRest'
    BY <1>1, <1>2, <1>3, <1>4, <1>5 DEF Engines, AtRest, Asking, Quiet, OthersAreKept,
       PluginShapes
  <2>6. \A d \in Caller : Starting(d)'
    BY <1>1, <1>2, <1>3, <1>4, <1>5 DEF Engines, Starting, Quiet, OthersAreKept,
       PluginShapes
  <2>7. ASSUME NEW d \in Caller, caller'[d].pc = "waiting" PROVE WorksFor(d)'
    <3>1. caller[d].pc = "waiting" /\ WorksFor(d) /\ worker # 0
      BY <1>1, <1>4, <2>7 DEF Engines, OneInside
    <3>2. CASE t = worker
      BY <1>2, <1>3, <1>4, <1>5, <2>4, <3>1, <3>2 DEF WorksFor, Plugin!Answer
    <3>3. CASE t # worker
      <4>1. caller[d].call # thread[t].job
        BY <1>1, <1>2, <3>1, <3>3 DEF Owned, Has
      <4>2. caller'[d].reply = caller[d].reply /\ caller'[d].call = caller[d].call
        BY <1>4, <4>1
      <4>3. worker \in 1..MaxStarts /\ thread'[worker] = thread[worker]
            /\ (worker \in halfDone' <=> worker \in halfDone)
        BY <1>1, <1>3, <1>5, <3>1, <3>3 DEF PluginShapes, OthersAreKept
      <4> QED BY <1>2, <3>1, <4>2, <4>3 DEF WorksFor
    <3> QED BY <3>2, <3>3
  <2> QED BY <2>1, <2>2, <2>3, <2>5, <2>6, <2>7 DEF Engines
<1>10. Kept'
  BY <1>1, <1>2, <1>5 DEF Kept, OthersAreKept, PluginShapes
<1> QED BY <1>6, <1>7, <1>8, <1>9, <1>10 DEF PluginInv

-----------------------------------------------------------------------------
LEMMA Pair == ASSUME NEW n \in Nat PROVE Append(<<0>>, n) = <<0, n>>
<1> DEFINE s == Append(<<0>>, n)
<1>1. s \in Seq(Nat) /\ Len(s) = 2 /\ s[1] = 0 /\ s[2] = n
  OBVIOUS
<1> HIDE DEF s
<1>2. s = <<0, n>>
  BY <1>1
<1> QED BY <1>2 DEF s

LEMMA PluginStarts == Plugin!Init => PluginInv
<1> SUFFICES ASSUME Plugin!Init PROVE PluginInv
  OBVIOUS
<1> USE PluginAssumption DEF Plugin!Init
<1>1. PluginShapes
  <2>1. Plugin!NewThread \in ThreadShape
    BY Nothing DEF Plugin!NewThread, ThreadShape
  <2>2. Plugin!NoTemp \in [there : BOOLEAN, content : Keys]
    BY Nothing DEF Plugin!NoTemp
  <2>3. [pc |-> "idle", call |-> 0, reply |-> "none"] \in Plugin!CallerState
    BY Nothing DEF Plugin!CallerState
  <2>4. thread \in [1..MaxStarts -> ThreadShape] /\ caller \in [Caller -> Plugin!CallerState]
    BY <2>1, <2>3 DEF Plugin!Engine
  <2>5. disk \in Keys /\ stored \in Keys /\ halfDone \in SUBSET (1..MaxStarts)
        /\ temp \in [there : BOOLEAN, content : Keys]
    BY <2>2, Nothing
  <2>6. worker \in 0..MaxStarts /\ starts \in 0..MaxStarts /\ calls \in 0..MaxCalls
    OBVIOUS
  <2> QED BY <2>4, <2>5, <2>6 DEF PluginShapes
<1>2. OneInside /\ Distinct /\ Owned
  BY DEF OneInside, Inside, Distinct, Owned
<1>3. Given
  <2>1. \A n \in 1..MaxCalls : n # 0
    OBVIOUS
  <2> QED BY <2>1, Nothing DEF Given, Has, Plugin!Engine, Plugin!NewThread
<1>4. Engines
  BY DEF Engines, Plugin!OthersEnd, Loads, AtRest, Starting, Plugin!Engine,
     Plugin!NewThread
<1>5. Kept
  BY DEF Kept
<1> QED BY <1>1, <1>2, <1>3, <1>4, <1>5 DEF PluginInv

LEMMA PluginSteps == PluginInv /\ [Plugin!Next]_pluginVars => PluginInv'
<1> SUFFICES ASSUME PluginInv, [Plugin!Next]_pluginVars PROVE PluginInv'
  OBVIOUS
<1>1. ASSUME NEW c \in Caller, Plugin!Call(c) \/ Plugin!Lock(c) \/ Plugin!CallerStep(c)
      PROVE  PluginInv'
  BY <1>1, CallKeeps, LockKeeps, RefuseKeeps, UseWorkerKeeps, GiveUpKeeps, StartKeeps,
     StartedKeeps, StartFailsKeeps, SendKeeps, AnsweredKeeps, InterruptedKeeps, TimesOutKeeps,
     FellOverKeeps, CloseJobsKeeps, JoinEndsKeeps DEF Plugin!CallerStep
<1>2. ASSUME NEW t \in 1..MaxStarts, Plugin!ThreadStep(t)
      PROVE  PluginInv'
  BY <1>2, LoadEndsKeeps, TakeJobKeeps, ExitKeeps, ReadStoreKeeps, WriteTempKeeps,
     RenameTempKeeps, ReplyKeeps, FallKeeps DEF Plugin!ThreadStep
<1>3. CASE UNCHANGED pluginVars
  <2>1. UNCHANGED <<worker, starts, giveUp, closed, caller, calls, thread, disk, temp,
                    halfDone, stored, strayed>>
    BY <1>3 DEF pluginVars
  <2>2. (\A t, n : Has(t, n)' = Has(t, n)) /\ (\A t : Quiet(t)' = Quiet(t))
        /\ (\A c : Inside(c)' = Inside(c)) /\ (\A c : Asking(c)' = Asking(c))
        /\ (\A t : Loads(t)' = Loads(t)) /\ (\A c : Starting(c)' = Starting(c))
        /\ (\A c : WorksFor(c)' = WorksFor(c))
    BY <2>1 DEF Has, Quiet, Inside, Asking, Loads, Starting, WorksFor
  <2> QED BY <2>1, <2>2 DEF PluginInv, PluginShapes, OneInside, Given, Distinct, Owned,
             Engines,
          AtRest, Kept, Plugin!OthersEnd, Plugin!Awaited
<1> QED BY <1>1, <1>2, <1>3, DropKeeps DEF Plugin!Next, Plugin!Engine

(* The invariant holds whatever the plugin's code does and whenever the     *)
(* clocks run out, for every number of callers, starts and calls.          *)
THEOREM PluginInvariant == SourcesSpec => []PluginInv
<1>1. SourcesInit => PluginInv
  BY PluginStarts DEF SourcesInit
<1>2. PluginInv /\ [SourcesNext]_<<part, vars, pluginVars, playQueue>> => PluginInv'
  BY PluginSteps DEF SourcesNext, OfTrack, OfPlugin, OfQueue
<1> QED BY <1>1, <1>2, PTL DEF SourcesSpec

(* An engine is asked only with every earlier call answered, works on      *)
(* nothing else meanwhile, and of all the threads ever started only the    *)
(* present engine's waits for more.                                        *)
THEOREM LeftBehindHolds == SourcesSpec => []EnginesAreLeftBehind
<1>1. PluginInv => Plugin!EngineIsClean
  <2> SUFFICES ASSUME PluginInv, NEW c \in Caller, caller[c].pc = "waiting",
                      caller[c].reply = "none", thread[worker].pc # "gone"
               PROVE  /\ worker \notin halfDone
                      /\ <<thread[worker].job>> \o thread[worker].inbox
                           \in {<<caller[c].call>>, <<0, caller[c].call>>}
    BY DEF Plugin!EngineIsClean
  <2>1. WorksFor(c) /\ worker \in 1..MaxStarts
    BY DEF PluginInv, Engines, OneInside, PluginShapes
  <2>2. CASE thread[worker].job = 0 /\ thread[worker].inbox = <<caller[c].call>>
    <3>1. <<0>> \o <<caller[c].call>> = <<0, caller[c].call>>
      <4>1. caller[c].call \in Nat
        BY PluginAssumption DEF PluginInv, PluginShapes, Plugin!CallerState
      <4>2. Append(<<0>>, caller[c].call) = <<0>> \o <<caller[c].call>>
        <5>1. <<0>> \in Seq(Nat)
          OBVIOUS
        <5> QED BY <4>1, <5>1, AppendIsConcat
      <4>3. Append(<<0>>, caller[c].call) = <<0, caller[c].call>>
        BY <4>1, Pair
      <4> QED BY <4>2, <4>3
    <3> QED BY <2>1, <2>2, <3>1 DEF WorksFor
  <2>3. CASE thread[worker].job = caller[c].call /\ thread[worker].inbox = <<>>
    <3>1. <<caller[c].call>> \o <<>> = <<caller[c].call>>
      OBVIOUS
    <3> QED BY <2>1, <2>3, <3>1 DEF WorksFor
  <2> QED BY <2>1, <2>2, <2>3 DEF WorksFor
<1>2. PluginInv => EnginesAreLeftBehind
  BY <1>1 DEF PluginInv, Engines, EnginesAreLeftBehind, Plugin!EnginesAreLeftBehind
<1> QED BY <1>2, PluginInvariant, PTL

(* What the plugin was told to be stored is in the file, through every     *)
(* time limit and restart, unless a thread that was given up wrote.        *)
THEOREM StoredHolds == SourcesSpec => []StoredIsKept
<1>1. PluginInv => StoredIsKept
  BY DEF PluginInv, Kept, StoredIsKept, Plugin!StoredIsKept
<1> QED BY <1>1, PluginInvariant, PTL
=============================================================================
