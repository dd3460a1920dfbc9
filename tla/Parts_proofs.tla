----------------------------- MODULE Parts_proofs -----------------------------
(***************************************************************************)
(* What is claimed of the layouts, the panel and the overlay holds of them *)
(* side by side: a step moves one part, and the media players, which the   *)
(* panel looks at, no more than its variables.                             *)
(***************************************************************************)
EXTENDS MCParts, Layouts_proofs, InfoPanel_proofs, Overlay_proofs, SequenceTheorems,
        FiniteSetTheorems, WellFoundedInduction, TLAPS

\* A client in the list, and what the bus tells.
Clients  == [name : PlayerNames, proxy : {"watching", "asked", "ready"}, owned : BOOLEAN]
Messages == [kind : {"acquired", "lost", "listed"}, names : SUBSET PlayerNames]

PlayersInv ==
  /\ onBus \subseteq PlayerNames /\ listing \in BOOLEAN
  /\ busMessages \in Seq(Messages) /\ player_clients \in Seq(Clients)

\* The list keeps its type when the proxies follow an owner.
LEMMA FollowTypes ==
  ASSUME NEW s \in Seq(Clients), NEW owned \in BOOLEAN
  PROVE  Follow(s, owned) \in Seq(Clients)
<1>1. \A i \in 1 .. Len(s) :
        [s[i] EXCEPT !.owned = owned] \in Clients /\ s[i] \in Clients
  <2>1. \A i \in 1 .. Len(s) : s[i] \in Clients
    BY ElementOfSeq
  <2>2. \A c \in Clients : [c EXCEPT !.owned = owned] \in Clients
    BY DEF Clients
  <2> QED BY <2>1, <2>2
<1>2. Len(s) \in Nat /\ DOMAIN s = 1 .. Len(s)
  OBVIOUS
<1>3. Follow(s, owned) = [i \in 1 .. Len(s) |->
          IF s[i].name \in Message.names /\ s[i].proxy = "ready"
          THEN [s[i] EXCEPT !.owned = owned] ELSE s[i]]
  BY <1>2 DEF Follow
<1> QED BY <1>1, <1>2, <1>3

\* There is a first one.
LEMMA LeastExists ==
  ASSUME NEW T, T \subseteq Nat, T # {}
  PROVE  \E k \in T : \A j \in T : k <= j
<1> DEFINE R == OpToRel(<, Nat)
<1>1. PICK k \in T : \A j \in T : ~ (<<j, k>> \in R)
  BY NatLessThanWellFounded, WFMin
<1>2. \A j \in T : ~ (j < k)
  BY <1>1 DEF OpToRel
<1> QED BY <1>2

\* And when a client is removed.
LEMMA RemoveTypes ==
  ASSUME player_clients \in Seq(Clients), NEW p
  PROVE  Remove(p) \in Seq(Clients)
<1> DEFINE found == {i \in DOMAIN player_clients :
                       Live(player_clients[i]) /\ player_clients[i].name = p}
<1>1. CASE found = {}
  BY <1>1 DEF Remove
<1>2. CASE found # {}
  <2>1. \E i \in found : \A j \in found : i <= j
    <3>1. found \subseteq Nat /\ found # {}
      BY <1>2
    <3> HIDE DEF found
    <3>2. PICK k \in found : \A j \in found : k <= j
      BY <3>1, LeastExists
    <3> QED BY <3>2
  <2>2. PICK first \in found :
          Remove(p) = SubSeq(player_clients, 1, first - 1)
                      \o SubSeq(player_clients, first + 1, Len(player_clients))
    BY <1>2, <2>1 DEF Remove
  <2>3. first \in 1 .. Len(player_clients)
    OBVIOUS
  <2>4. /\ SubSeq(player_clients, 1, first - 1) \in Seq(Clients)
        /\ SubSeq(player_clients, first + 1, Len(player_clients)) \in Seq(Clients)
    BY <2>3
  <2> QED BY <2>2, <2>4
<1> QED BY <1>1, <1>2

\* What the players do keeps their types.
LEMMA PlayersStep == PlayersInv /\ [PlayersNext]_playerVars => PlayersInv'
<1> SUFFICES ASSUME PlayersInv, [PlayersNext]_playerVars PROVE PlayersInv'
  OBVIOUS
<1> USE DEF PlayersInv
<1>1. ASSUME NEW p \in PlayerNames, NEW kind \in {"acquired", "lost"}, OwnerChanges(p, kind),
             onBus' \subseteq PlayerNames
      PROVE  PlayersInv'
  <2>1. [kind |-> kind, names |-> {p}] \in Messages
    BY DEF Messages
  <2> QED BY <1>1, <2>1, AppendProperties DEF OwnerChanges
<1>2. ASSUME NEW p \in PlayerNames, PlayerStarts(p) \/ PlayerStops(p) \/ PlayerReplaced(p)
      PROVE  PlayersInv'
  BY <1>1, <1>2 DEF PlayerStarts, PlayerStops, PlayerReplaced
<1>3. CASE NamesListed
  <2>1. [kind |-> "listed", names |-> onBus] \in Messages
    BY DEF Messages
  <2> QED BY <1>3, <2>1, AppendProperties DEF NamesListed
<1>4. CASE busMessages # <<>> /\ busMessages' = Tail(busMessages) /\ UNCHANGED <<onBus, listing>>
           /\ player_clients' \in Seq(Clients)
  BY <1>4, HeadTailProperties
<1>5. CASE OnNamesAcquired
  <2>1. Message.names \subseteq PlayerNames
    <3>1. Message \in Messages
      BY <1>5, HeadTailProperties DEF OnNamesAcquired, Message
    <3> QED BY <3>1 DEF Messages
  <2>2. PICK n \in Nat : n = Cardinality(Message.names)
    BY <2>1, PlayersAssumption, FS_Subset, FS_CardinalityType
  <2>3. PICK order \in [1 .. n -> Message.names] :
          player_clients' =
            (IF Message.kind = "acquired" THEN Follow(player_clients, TRUE) ELSE player_clients)
            \o [i \in DOMAIN order |-> [name |-> order[i], proxy |-> "watching", owned |-> FALSE]]
    BY <1>5, <2>2 DEF OnNamesAcquired
  <2>4. [i \in DOMAIN order |-> [name |-> order[i], proxy |-> "watching", owned |-> FALSE]]
          \in Seq(Clients)
    <3>1. \A i \in 1 .. n : [name |-> order[i], proxy |-> "watching", owned |-> FALSE] \in Clients
      BY <2>1 DEF Clients
    <3> QED BY <3>1
  <2>5. (IF Message.kind = "acquired" THEN Follow(player_clients, TRUE) ELSE player_clients)
          \in Seq(Clients)
    BY FollowTypes
  <2>6. player_clients' \in Seq(Clients)
    BY <2>3, <2>4, <2>5, ConcatProperties
  <2> QED BY <1>4, <1>5, <2>6 DEF OnNamesAcquired
<1>6. CASE OnNameLost
  <2>1. player_clients' \in Seq(Clients)
    BY <1>6, FollowTypes, RemoveTypes DEF OnNameLost
  <2> QED BY <1>4, <1>6, <2>1 DEF OnNameLost
<1>7. ASSUME NEW i \in DOMAIN player_clients, OnAppeared(i) \/ OnProxyReady(i)
      PROVE  PlayersInv'
  <2>1. i \in 1 .. Len(player_clients) /\ player_clients[i] \in Clients
    BY LenProperties, ElementOfSeq
  <2>2. PICK c \in Clients : player_clients' = [player_clients EXCEPT ![i] = c]
    <3>1. CASE OnAppeared(i)
      <4>1. [player_clients[i] EXCEPT !.proxy = "asked"] \in Clients
        BY <2>1 DEF Clients
      <4> QED BY <3>1, <4>1 DEF OnAppeared
    <3>2. CASE OnProxyReady(i)
      <4>1. \A c \in Clients, o \in BOOLEAN :
              [c EXCEPT !.proxy = "ready", !.owned = o] \in Clients
        BY DEF Clients
      <4>2. [player_clients[i] EXCEPT !.proxy = "ready",
                                      !.owned = player_clients[i].name \in onBus] \in Clients
        <5>1. (player_clients[i].name \in onBus) \in BOOLEAN
          OBVIOUS
        <5> QED BY <2>1, <4>1, <5>1, Zenon
      <4> QED BY <3>2, <4>2 DEF OnProxyReady
    <3> QED BY <1>7, <3>1, <3>2
  <2>3. player_clients' \in Seq(Clients)
    BY <2>1, <2>2, ExceptSeq
  <2> QED BY <1>7, <2>3 DEF OnAppeared, OnProxyReady
<1>8. CASE UNCHANGED playerVars
  BY <1>8 DEF playerVars
<1> QED BY <1>2, <1>3, <1>5, <1>6, <1>7, <1>8 DEF PlayersNext, PlayersFound

-----------------------------------------------------------------------------
(* All parts. *)

PartsInv == LayoutsInv /\ PlayersInv /\ PanelInv /\ OverlayInv

\* The parts begin where they may.
LEMMA PartsFirst == PartsInit => PartsInv
<1> SUFFICES ASSUME PartsInit PROVE PlayersInv
  BY LayoutsFirst, PanelFirst, OverlayFirst DEF PartsInit, PartsInv
<1>1. CASE OnePlayer
  <2>1. [name |-> "p1", proxy |-> "asked", owned |-> FALSE] \in Clients
    BY OnePlayerAssumption DEF Clients
  <2>2. player_clients \in Seq(Clients)
    BY <1>1, <2>1 DEF OnePlayer
  <2>3. busMessages \in Seq(Messages)
    BY <1>1, EmptySeq DEF OnePlayer
  <2> QED BY <1>1, <2>2, <2>3, OnePlayerAssumption DEF OnePlayer, PlayersInv
<1>2. CASE PlayersInit
  BY <1>2, EmptySeq DEF PlayersInit, PlayersInv
<1> QED BY <1>1, <1>2 DEF PartsInit

\* A step of the whole is a step of each part or leaves it alone.
LEMMA PartsMove ==
  ASSUME [PartsNext]_partsVars
  PROVE  /\ [Next]_layoutVars /\ [PlayersNext]_playerVars
         /\ [PanelNext]_panelVars /\ [OverlayNext]_overlayVars
BY DEF PartsNext, PlayersNext, partsVars

\* Every part stays where its own steps lead.
THEOREM PartsInductive == PartsSpec => []PartsInv
<1>1. PartsInv /\ [PartsNext]_partsVars => PartsInv'
  BY PartsMove, LayoutsStep, PlayersStep, PanelStep, OverlayStep DEF PartsInv
<1> QED BY <1>1, PartsFirst, PTL DEF PartsSpec

\* Every variable of every part has its type: those of Layouts, Players, InfoPanel, Overlay.
THEOREM TypesAlways == PartsSpec => []TypesOK
<1>1. PlayersInv => PlayersTypeOK
  <2> SUFFICES ASSUME PlayersInv PROVE PlayersTypeOK
    OBVIOUS
  <2>1. \A i \in DOMAIN busMessages : busMessages[i] \in Messages
    BY LenProperties, ElementOfSeq DEF PlayersInv
  <2>2. \A i \in DOMAIN player_clients : player_clients[i] \in Clients
    BY LenProperties, ElementOfSeq DEF PlayersInv
  <2> QED BY <2>1, <2>2 DEF PlayersInv, PlayersTypeOK, Messages, Clients
<1>2. PartsInv => TypesOK
  BY <1>1, LayoutsClaims, PanelClaims, OverlayClaims DEF PartsInv, TypesOK
<1> QED BY <1>2, PartsInductive, PTL

\* The icon of an entry tells the layout that is in force, once the signals have come.
THEOREM IconTellsLayoutAlways == PartsSpec => []IconTellsLayout
<1>1. PartsInv => IconTellsLayout
  BY LayoutsClaims DEF PartsInv
<1> QED BY <1>1, PartsInductive, PTL

\* Notifications that were counted are shown.
THEOREM CountedIsShownAlways == PartsSpec => []CountedIsShown
<1>1. PartsInv => CountedIsShown
  BY PanelClaims DEF PartsInv
<1> QED BY <1>1, PartsInductive, PTL

\* A battery that is being discharged is shown.
THEOREM DischargeIsShownAlways == PartsSpec => []DischargeIsShown
<1>1. PartsInv => DischargeIsShown
  BY PanelClaims DEF PartsInv
<1> QED BY <1>1, PartsInductive, PTL

\* No widget covers another one or leaves its monitor, whatever the sizes.
THEOREM NothingOverlapsAlways == PartsSpec => []NothingOverlaps
<1>1. PartsInv => NothingOverlaps
  BY OverlayClaims DEF PartsInv
<1> QED BY <1>1, PartsInductive, PTL
=============================================================================
