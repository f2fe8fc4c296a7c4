------------------------------ MODULE MCDesktop ------------------------------
(* The queue and its covers, or the panels: a behaviour is of one of the   *)
(* two.  A search finds the first track alone or both.                     *)
EXTENDS Desktop

CONSTANTS t1, t2, MaxSteps, MaxSent, Null

(* JavaScript's null is no string: not what says which list sent a button. *)
ASSUME PanelsAssumption == Null \notin {"card", "catalog"}

VARIABLES part, disk, sent, notices, ui, stale, steps

ListsA == {<<t1>>, <<t2, t1>>}

Page == INSTANCE Panels WITH None <- Null

panelVars == <<disk, sent, notices, ui, stale, steps>>

OneInit ==
  /\ Init /\ Page!PanelsInit
  /\ part \in IF disk.plugin = "absent" THEN {"queue", "panels"} ELSE {"panels"}

OneNext ==
  \/ part = "queue" /\ Next /\ UNCHANGED <<part, panelVars>>
  \/ part = "panels" /\ Page!PanelsNext /\ UNCHANGED <<part, vars>>

OneSpec == OneInit /\ [][OneNext]_<<part, vars, panelVars>>

(* See Panels: what a panel shows is what is stored, or will be drawn again. *)
PanelsCatchUp == Page!PanelsCatchUp
=============================================================================
