------------------------------- MODULE Shells -------------------------------
(***************************************************************************)
(* The two ways to drive the player: `headshell play`, which is CliPlay's, *)
(* and a session, LiveSession's, that the TUI and the desktop keep.  A     *)
(* program is started as one of them and stays it; both drive the same     *)
(* player and write the same table.                                        *)
(***************************************************************************)
EXTENDS LiveSession

VARIABLES
  shell,  \* what the program was started as
  phase   \* where the call of `headshell play` stands

Cli == INSTANCE CliPlay

allVars == <<vars, shell, phase>>

InitShells == shell \in {"play", "session"} /\ Init /\ phase = "searching"

SessionStep(action) == shell = "session" /\ action /\ UNCHANGED <<shell, phase>>
PlayStep(action) == shell = "play" /\ action /\ UNCHANGED <<shell, pending, storeFaults, seeded>>

NextShells == SessionStep(Next) \/ PlayStep(Cli!Next)

(* In a session the loop keeps ticking (every 200 ms) and a call ends; the *)
(* store, when it fails, does not fail for ever.  Nothing makes the        *)
(* engine, the user or the network move.                                   *)
SessionFairness ==
  /\ WF_allVars(SessionStep(\/ (TickFinds \/ TickAdvances \/ PrefetchSucceeds \/ StartSucceeds)
                               /\ UNCHANGED sessionRest
                            \/ SearchFails \/ TickWrites))
  /\ SF_allVars(SessionStep(TickSamples /\ UNCHANGED sessionRest))

(* In `headshell play` the search and the providers answer and the loop    *)
(* runs, and so do the engine's threads: what AudioEngine shows of a track *)
(* that was queued.                                                        *)
PlayFairness ==
  /\ WF_allVars(PlayStep(\/ Cli!PlayItems \/ (Cli!Playing /\ (TickStep \/ StartSucceeds))
                         \/ Cli!LoopGoesOn \/ Cli!LoopEnds \/ Cli!WriteFails
                         \/ Cli!TickFails))
  /\ WF_allVars(PlayStep(Cli!Playing /\ (EngineHears \/ EngineEnds)))
  /\ WF_allVars(PlayStep(Cli!Playing /\ CallbackStores))

SpecShells == InitShells /\ [][NextShells]_allVars /\ SessionFairness /\ PlayFairness

-----------------------------------------------------------------------------
(* No listen is lost where none may be.  A session that runs holds every    *)
(* listen the player produced, in the store, for the next round or in the   *)
(* player, and a track that passed the rule while it was the playing track  *)
(* becomes one.  `headshell play`, when it reports success, has written     *)
(* every such track and nothing else (LiveSession, Player, Session::play).  *)
NoListenIsLost ==
  /\ shell = "session" => ListensAreKept /\ NoticedPlayBecomesListen
  /\ shell = "play" => Cli!DoneMeansWritten

(* "Waits until playback ends": `headshell play` returns.  Whatever the    *)
(* providers refuse, the loop ends or fails: a race of the engine's flags  *)
(* with the tick cannot keep it polling for ever (Session::play).  That it *)
(* plays the queue to its end is more than it does: PlaysToTheEnd.         *)
PlayReturns == shell = "play" => Cli!PlayReturns

(* "Run until the queue ends": when `headshell play` reports success, its  *)
(* queue has no track left to advance to.  What a comment in Session::play *)
(* says of the loop (session.rs:1271).                                     *)
PlaysToTheEnd == shell = "play" => Cli!PlaysToTheEnd
=============================================================================
