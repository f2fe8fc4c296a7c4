----------------------------- MODULE MCSources -----------------------------
(* What stands under a player and knows nothing of it: its queue            *)
(* (MCPlayQueue), the bytes of a track over HTTP (HttpSource) and a         *)
(* plugin's script (PluginProvider), the two the program waits for without  *)
(* trusting them to answer.  They share nothing: a behaviour is of one.     *)
EXTENDS HttpSource, MCPlayQueue

CONSTANTS Caller, MaxStarts, MaxCalls

ASSUME PluginAssumption == MaxStarts \in Nat /\ MaxCalls \in Nat

VARIABLES part, worker, starts, giveUp, closed, caller, calls, thread, disk, temp, halfDone,
          stored, strayed

Plugin == INSTANCE PluginProvider

pluginVars == <<worker, starts, giveUp, closed, caller, calls, thread, disk, temp, halfDone,
                stored, strayed>>

---------------------------------------------------------------------------
SourcesInit ==
  Init /\ Plugin!Init /\ Machine!Init /\ part \in {"track", "plugin", "queue"}

(* Each part's steps, which leave the others alone.                        *)
OfTrack(A) == part = "track" /\ A /\ UNCHANGED <<part, pluginVars, playQueue>>
OfPlugin(A) == part = "plugin" /\ A /\ UNCHANGED <<part, vars, playQueue>>
OfQueue(A) == part = "queue" /\ A /\ UNCHANGED <<part, vars, pluginVars>>

SourcesNext == OfTrack(Next) \/ OfPlugin(Plugin!Next) \/ OfQueue(Machine!Next)

(* HttpSource's and PluginProvider's own fairness, each for its part.      *)
SourcesFairness ==
  /\ WF_vars(OfTrack(Receive \/ ReceiveEnd \/ ReceiveError))
  /\ SF_vars(OfTrack(AppendChunk))
  /\ WF_vars(OfTrack(NotifyData \/ Fail \/ FailDone \/ FailNotify \/ End \/ EndNotify))
  /\ WF_vars(OfTrack(ReaderStep))
  /\ \A c \in Caller : /\ WF_pluginVars(OfPlugin(Plugin!CallerStep(c)))
                       /\ SF_pluginVars(OfPlugin(Plugin!Lock(c)))

SourcesSpec ==
  SourcesInit /\ [][SourcesNext]_<<part, vars, pluginVars, playQueue>> /\ SourcesFairness

(* See PluginProvider: an engine that ran out of time or fell over is left  *)
(* behind for good; the track's properties are HttpSource's own.            *)
EnginesAreLeftBehind == Plugin!EnginesAreLeftBehind

(* See PluginProvider: what a plugin was told to be stored is stored.       *)
StoredIsKept == Plugin!StoredIsKept

(* See PluginProvider: a call returns, whatever the plugin does.            *)
CallsReturn == Plugin!CallsReturn
=============================================================================
