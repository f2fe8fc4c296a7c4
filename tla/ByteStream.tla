----------------------------- MODULE ByteStream -----------------------------
(***************************************************************************)
(* What a decoder is promised by a source of bytes that arrives while it   *)
(* is read: no threads, no lock, no wake-ups.  Bytes become readable, then *)
(* the stream is whole or broken and nothing changes any more.  A read     *)
(* that was asked for is answered in one step.                             *)
(***************************************************************************)
EXTENDS Naturals

CONSTANTS
  MaxReadable,  \* what the source keeps at most
  MaxBody

VARIABLES
  sent,      \* bytes the server sent
  readable,  \* bytes a read may return
  status,    \* "open", then "whole" or "broken"
  asked,     \* a read is under way
  pos,
  answer,
  told       \* the reader was given the error

vars == <<sent, readable, status, asked, pos, answer, told>>

Init ==
  /\ sent = 0 /\ readable = 0 /\ status = "open"
  /\ asked = FALSE /\ pos = 0 /\ answer = "none" /\ told = FALSE

Send ==
  /\ status = "open"
  /\ sent' \in (sent + 1)..MaxBody
  /\ UNCHANGED <<readable, status, asked, pos, answer, told>>

\* Only what was sent can be read, in the order it came.
Arrive ==
  /\ status = "open"
  /\ readable' \in (readable + 1)..sent /\ readable' <= MaxReadable
  /\ UNCHANGED <<sent, status, asked, pos, answer, told>>

\* A stream is whole when all of it arrived, and broken otherwise.
Finish ==
  /\ status = "open" /\ readable = sent
  /\ status' = "whole"
  /\ UNCHANGED <<sent, readable, asked, pos, answer, told>>

Break ==
  /\ status = "open"
  /\ status' = "broken"
  /\ UNCHANGED <<sent, readable, asked, pos, answer, told>>

Seek ==
  /\ ~asked
  /\ pos' \in 0..MaxBody /\ answer' = "none"
  /\ UNCHANGED <<sent, readable, status, asked, told>>

Ask ==
  /\ ~asked
  /\ asked' = TRUE /\ answer' = "none"
  /\ UNCHANGED <<sent, readable, status, pos, told>>

Reply(a) == asked /\ asked' = FALSE /\ answer' = a /\ UNCHANGED <<sent, readable, status>>

ReplyData ==
  /\ pos' \in (pos + 1)..readable
  /\ Reply("data") /\ UNCHANGED told

\* Behind the last byte: the error once, if the stream broke, and an end of
\* file otherwise.
ReplyError ==
  /\ pos >= readable /\ status = "broken" /\ ~told
  /\ Reply("error") /\ told' = TRUE /\ UNCHANGED pos

ReplyEnd ==
  /\ pos >= readable
  /\ status = "whole" \/ (status = "broken" /\ told)
  /\ Reply("end") /\ UNCHANGED <<pos, told>>

Next ==
  \/ Send \/ Arrive \/ Finish \/ Break
  \/ Seek \/ Ask \/ ReplyData \/ ReplyError \/ ReplyEnd

Spec == Init /\ [][Next]_vars
=============================================================================
