---------------------------- MODULE MCPlayQueue ----------------------------
(* The machine of the play queue (PlayQueue) over a queue of its own: what  *)
(* runs and what is proved of it stand beside whoever else has a queue.     *)
EXTENDS QueueOps

CONSTANT Longest

VARIABLE playQueue

Machine == INSTANCE PlayQueue WITH queue <- playQueue, MaxLen <- Longest

ASSUME LongestAssumption == Machine!MaxLenAssumption

QueueSpec == Machine!Spec

(* See PlayQueue: what the read-ahead promises is what is played next.      *)
PeekAgreesWithAdvance == Machine!PeekAgreesWithAdvance

(* See PlayQueue: the switches and appending leave the playing item.        *)
SettingsKeepCurrent == Machine!SettingsKeepCurrent

(* See PlayQueue: repeat-all starves no item of the list.                   *)
RepeatAllPlaysEveryItem == Machine!RepeatAllPlaysEveryItem
=============================================================================
