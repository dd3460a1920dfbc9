------------------------------- MODULE MCParts -------------------------------
(***************************************************************************)
(* The parts of the lock screen, for TLC.  They share no state but the     *)
(* names of the media players, which the panel looks at: a behaviour is    *)
(* one of one part, and the others do not move, except that the panel has  *)
(* a player that may be found meanwhile.                                   *)
(***************************************************************************)
EXTENDS Layouts, InfoPanel, Overlay

\* The player that the panel may have.
ASSUME OnePlayerAssumption == "p1" \in PlayerNames

\* The part that moves.
VARIABLE part

partsVars == <<part, layoutVars, playerVars, panelVars, overlayVars>>

\* While the panel moves, one player has a client that is about to get its proxy.
OnePlayer ==
  /\ onBus = {"p1"} /\ listing = FALSE /\ busMessages = <<>> /\ ownerChanges = 0
  /\ player_clients = <<[name |-> "p1", proxy |-> "asked", owned |-> FALSE]>>

PartsInit ==
  /\ part \in {"layouts", "players", "panel", "overlay"}
  /\ Init /\ (part # "layouts" => chosen = 0 /\ kb_group = None)
  /\ IF part = "panel" THEN OnePlayer ELSE PlayersInit
  /\ part \in {"layouts", "overlay"} => onBus = {}
  /\ PanelInit
  /\ part # "panel" => battery = [present |-> FALSE, state |-> "full", low |-> FALSE]
  /\ OverlayInit
  /\ part # "overlay" => /\ ~allow_floating /\ mouse = 0
                         /\ \A m \in Monitors, w \in Widths : w <= monitors[m].width

PartsNext ==
  /\ UNCHANGED part
  /\ \/ part = "layouts" /\ Next /\ UNCHANGED <<playerVars, panelVars, overlayVars>>
     \/ part = "players" /\ PlayersNext /\ UNCHANGED <<layoutVars, panelVars, overlayVars>>
     \/ part = "panel" /\ PlayersFound /\ UNCHANGED <<layoutVars, panelVars, overlayVars>>
     \/ part = "panel" /\ PanelNext /\ UNCHANGED <<layoutVars, playerVars, overlayVars>>
     \/ part = "overlay" /\ OverlayNext /\ UNCHANGED <<layoutVars, playerVars, panelVars>>

\* The bus delivers, and the loop of the screensaver runs.
PlayersFair ==
  WF_partsVars(/\ part \in {"players", "panel"} /\ PlayersFound
               /\ UNCHANGED <<part, layoutVars, panelVars, overlayVars>>)

PartsSpec == PartsInit /\ [][PartsNext]_partsVars /\ PlayersFair

\* Every variable of every part has its type.
TypesOK == TypeOK /\ PlayersTypeOK /\ PanelTypeOK /\ OverlayTypeOK
=============================================================================
