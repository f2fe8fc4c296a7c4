----------------------------- MODULE HttpSource -----------------------------
(***************************************************************************)
(* The HTTP audio source, playback/http_source.rs: a download thread fills *)
(* a buffer that is kept whole, a decoder reads and seeks in it and waits  *)
(* for what has not arrived.  They share the buffer under a mutex, the     *)
(* `done` flag, the error slot and a condition variable.                   *)
(*                                                                         *)
(* Bytes are counted, not named: the buffer is append-only, so the byte at *)
(* a position never changes.  Who reads is symphonia, which may read again *)
(* after an end of file or an error while it probes the container.         *)
(***************************************************************************)
EXTENDS Naturals

CONSTANTS
  MaxBuffer,  \* MAX_BUFFER_BYTES
  Chunk,      \* CHUNK
  MaxBody     \* bound of the model: bytes a server sends

ASSUME HttpAssumption == {MaxBuffer, Chunk, MaxBody} \subseteq Nat \ {0}

VARIABLES
  data,      \* bytes in the buffer
  done,
  error,     \* the error slot is full
  locked,    \* the reader holds the buffer's mutex
  download,  \* the download thread
  reader,    \* the thread that reads
  \* history, read by no action
  received,  \* bytes the server sent
  failed,    \* the stream broke off, or the body exceeded the cap
  told       \* the reader was given the error

shared == <<data, done, error, locked>>
history == <<received, failed, told>>
vars == <<shared, download, reader, history>>

TypeOK ==
  /\ data \in 0..MaxBuffer /\ received \in 0..MaxBody
  /\ done \in BOOLEAN /\ error \in BOOLEAN
  /\ locked \in BOOLEAN
  /\ download \in [pc : {"receiving", "appending", "notifying", "failing", "closing",
                         "waking", "ending", "lastWake", "gone"},
                   got : 0..Chunk]
  /\ reader \in [pc : {"idle", "locking", "looking", "asking", "taking",
                       "sleeping", "waiting", "dropped"},
                 pos : 0..MaxBody,
                 answer : {"none", "data", "end", "error"}]
  /\ failed \in BOOLEAN /\ told \in BOOLEAN

(* open has read the headers and started the thread.                       *)
Init ==
  /\ data = 0 /\ done = FALSE /\ error = FALSE /\ locked = FALSE
  /\ download = [pc |-> "receiving", got |-> 0]
  /\ reader = [pc |-> "idle", pos |-> 0, answer |-> "none"]
  /\ received = 0 /\ failed = FALSE /\ told = FALSE

-----------------------------------------------------------------------------
(* The download thread.                                                    *)

Receive ==
  /\ download.pc = "receiving"
  /\ \E n \in 1..Chunk :
       /\ received + n <= MaxBody
       /\ received' = received + n
       /\ download' = [pc |-> "appending", got |-> n]
  /\ UNCHANGED <<shared, reader, failed, told>>

ReceiveEnd ==
  /\ download.pc = "receiving"
  /\ download' = [download EXCEPT !.pc = "ending"]
  /\ UNCHANGED <<shared, reader, history>>

ReceiveError ==
  /\ download.pc = "receiving"
  /\ failed' = TRUE
  /\ download' = [download EXCEPT !.pc = "failing"]
  /\ UNCHANGED <<shared, reader, received, told>>

TooMuch == data + download.got > MaxBuffer

(* Under the lock (which the download never holds across a step): too much *)
(* is an error, not a silent cut.                                          *)
AppendChunk ==
  /\ download.pc = "appending"
  /\ ~locked
  /\ IF TooMuch
       THEN /\ failed' = TRUE
            /\ download' = [download EXCEPT !.pc = "failing"]
            /\ data' = data
       ELSE /\ data' = data + download.got
            /\ download' = [pc |-> "notifying", got |-> 0]
            /\ failed' = failed
  /\ UNCHANGED <<done, error, locked, reader, received, told>>

(* notify_all wakes the reader, who then has to get the lock back.         *)
Woken == IF reader.pc = "waiting" THEN [reader EXCEPT !.pc = "locking"] ELSE reader

Wake(from, to) ==
  /\ download.pc = from
  /\ reader' = Woken
  /\ download' = [download EXCEPT !.pc = to]
  /\ UNCHANGED <<shared, history>>

NotifyData == Wake("notifying", "receiving")

(* fail: the slot, then the flag, then the wake-up.                        *)
Fail ==
  /\ download.pc = "failing"
  /\ error' = TRUE
  /\ download' = [download EXCEPT !.pc = "closing"]
  /\ UNCHANGED <<data, done, locked, reader, history>>

FailDone ==
  /\ download.pc = "closing"
  /\ done' = TRUE
  /\ download' = [download EXCEPT !.pc = "waking"]
  /\ UNCHANGED <<data, error, locked, reader, history>>

FailNotify == Wake("waking", "ending")

(* After the loop, in either case: the flag and the wake-up (again).       *)
End ==
  /\ download.pc = "ending"
  /\ done' = TRUE
  /\ download' = [download EXCEPT !.pc = "lastWake"]
  /\ UNCHANGED <<data, error, locked, reader, history>>

EndNotify == Wake("lastWake", "gone")

DownloadStep == AppendChunk \/ NotifyData \/ Fail \/ FailDone \/ FailNotify
                \/ End \/ EndNotify

-----------------------------------------------------------------------------
(* The reader.                                                             *)

Answer(a) == /\ reader' = [reader EXCEPT !.pc = "idle", !.answer = a]
             /\ locked' = FALSE

Seek ==
  /\ reader.pc = "idle"
  /\ \E to \in 0..MaxBody : reader' = [reader EXCEPT !.pos = to, !.answer = "none"]
  /\ UNCHANGED <<shared, download, history>>

Read ==
  /\ reader.pc = "idle"
  /\ reader' = [reader EXCEPT !.pc = "locking", !.answer = "none"]
  /\ UNCHANGED <<shared, download, history>>

Lock ==
  /\ reader.pc = "locking"
  /\ ~locked
  /\ locked' = TRUE
  /\ reader' = [reader EXCEPT !.pc = "looking"]
  /\ UNCHANGED <<data, done, error, download, history>>

Give ==
  /\ reader.pc = "looking"
  /\ reader.pos < data
  /\ \E n \in 1..(data - reader.pos) :
       reader' = [pc |-> "idle", pos |-> reader.pos + n, answer |-> "data"]
  /\ locked' = FALSE
  /\ UNCHANGED <<data, done, error, download, history>>

RunDry ==
  /\ reader.pc = "looking"
  /\ reader.pos >= data
  /\ reader' = [reader EXCEPT !.pc = "asking"]
  /\ UNCHANGED <<shared, download, history>>

(* `done` is read with the buffer locked; the wait unlocks it.  Nothing     *)
(* makes the download thread hold the lock when it stores the flag and      *)
(* signals, so both may fall between the two steps.                         *)
AskDone ==
  /\ reader.pc = "asking"
  /\ reader' = [reader EXCEPT !.pc = IF done THEN "taking" ELSE "sleeping"]
  /\ UNCHANGED <<shared, download, history>>

Sleep ==
  /\ reader.pc = "sleeping"
  /\ reader' = [reader EXCEPT !.pc = "waiting"]
  /\ locked' = FALSE
  /\ UNCHANGED <<data, done, error, download, history>>

(* Slip: the slot is read and not emptied.                                 *)
TakeErrorSlip ==
  /\ reader.pc = "taking"
  /\ Answer(IF error THEN "error" ELSE "end")
  /\ told' = (told \/ error)
  /\ UNCHANGED <<data, done, error, download, received, failed>>

TakeError ==
  /\ reader.pc = "taking"
  /\ Answer(IF error THEN "error" ELSE "end")
  /\ told' = (told \/ error)
  /\ error' = FALSE
  /\ UNCHANGED <<data, done, download, received, failed>>

(* Slip: wait instead of wait_timeout.                                     *)
WaitOverSlip == FALSE /\ UNCHANGED vars

WaitOver ==
  /\ reader.pc = "waiting"
  /\ reader' = [reader EXCEPT !.pc = "locking"]
  /\ UNCHANGED <<shared, download, history>>

(* The decoder is done with the track: the source is dropped, the download *)
(* goes on to its end.                                                     *)
DropSource ==
  /\ reader.pc = "idle"
  /\ reader' = [reader EXCEPT !.pc = "dropped", !.answer = "none"]
  /\ UNCHANGED <<shared, download, history>>

ReaderStep == Lock \/ Give \/ RunDry \/ AskDone \/ TakeError \/ Sleep
              \/ WaitOver

-----------------------------------------------------------------------------
Next == \/ Receive \/ ReceiveEnd \/ ReceiveError \/ DownloadStep
        \/ Seek \/ Read \/ ReaderStep \/ DropSource

Spec == Init /\ [][Next]_vars

(* Both threads run.  The server sends, ends or goes silent, and a silent  *)
(* server is an error after the client's idle limit, so a receive returns. *)
(* A lock that is given back again and again is got in the end.            *)
FairSpec ==
  /\ Spec
  /\ WF_vars(Receive \/ ReceiveEnd \/ ReceiveError)
  /\ SF_vars(AppendChunk)
  /\ WF_vars(NotifyData \/ Fail \/ FailDone \/ FailNotify \/ End \/ EndNotify)
  /\ WF_vars(ReaderStep)

-----------------------------------------------------------------------------
(* "A silently truncated track is worse than one that fails": an end of     *)
(* file is reported only when everything the server sent has been readable  *)
(* before the position asked for, and when the download failed only to a    *)
(* reader that has been given the error; and the error itself comes after   *)
(* the last byte that arrived, not instead of it.                           *)
NothingIsCutOff ==
  /\ reader.answer = "end" =>
       IF failed THEN told ELSE reader.pos >= received
  /\ reader.answer = "error" => failed /\ reader.pos >= data

(* What the reader and the download are of a ByteStream.                    *)
Stream == INSTANCE ByteStream WITH
  MaxReadable <- MaxBuffer,
  sent <- received,
  readable <- data,
  status <- IF ~done THEN "open" ELSE IF failed THEN "broken" ELSE "whole",
  asked <- reader.pc \notin {"idle", "dropped"},
  pos <- reader.pos,
  answer <- reader.answer

(* The two threads, the lock and the wake-ups together are a stream: a read *)
(* that waits is one step, and the flag is what makes the stream whole or   *)
(* broken.  A broken one is told as an error exactly once, and only then    *)
(* ends (HttpAudioSource::open, read).                             *)
ImplementsStream == Stream!Spec

(* A read returns, also when the wake-up came between the look at the flag  *)
(* and the wait: nobody plays silence for ever because of a lost signal.    *)
ReadsReturn == []<>(reader.pc \in {"idle", "dropped"})
=============================================================================
