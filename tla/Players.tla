------------------------------- MODULE Players -------------------------------
(***************************************************************************)
(* The media players of the session.  A client is made for each name on    *)
(* the bus that is a player's, found in the list of names or heard of when *)
(* it is acquired; its proxy is set up in several round trips, and the     *)
(* name may be lost before that.                                           *)
(***************************************************************************)
EXTENDS Naturals, Sequences, FiniteSets

CONSTANTS
  PlayerNames,    \* names of players
  MaxOwnerChanges \* bound: owners that come, go or are replaced

\* There are finitely many.
ASSUME PlayersAssumption == IsFiniteSet(PlayerNames)

VARIABLES
  onBus,          \* names that have an owner
  listing,        \* ListNames has not been answered
  busMessages,    \* what the bus has still to tell, in order
  player_clients, \* MediaPlayerWatcher's list
  ownerChanges

playerVars == <<onBus, listing, busMessages, player_clients, ownerChanges>>

\* Players are on the bus before the screensaver, or come later.
PlayersInit ==
  /\ onBus \in SUBSET PlayerNames
  /\ listing = TRUE
  /\ busMessages = <<>>
  /\ player_clients = <<>>
  /\ ownerChanges = 0

\* A client with its proxy, which is alive as long as the name has an owner.
Live(c) == c.proxy = "ready" /\ c.owned

-----------------------------------------------------------------------------
(* The bus. *)

OwnerChanges(p, kind) ==
  /\ ownerChanges < MaxOwnerChanges
  /\ ownerChanges' = ownerChanges + 1
  /\ busMessages' = Append(busMessages, [kind |-> kind, names |-> {p}])
  /\ UNCHANGED <<listing, player_clients>>

PlayerStarts(p) ==
  /\ p \notin onBus
  /\ onBus' = onBus \cup {p}
  /\ OwnerChanges(p, "acquired")

PlayerStops(p) ==
  /\ p \in onBus
  /\ onBus' = onBus \ {p}
  /\ OwnerChanges(p, "lost")

\* Another process takes the name over.
PlayerReplaced(p) ==
  /\ p \in onBus
  /\ UNCHANGED onBus
  /\ OwnerChanges(p, "acquired")

NamesListed ==
  /\ listing
  /\ listing' = FALSE
  /\ busMessages' = Append(busMessages, [kind |-> "listed", names |-> onBus])
  /\ UNCHANGED <<onBus, player_clients, ownerChanges>>

-----------------------------------------------------------------------------
(* MediaPlayerWatcher. *)

Message == Head(busMessages)

\* The proxies follow the owner, after the watcher has heard of it.
Follow(clients, owned) ==
  [i \in DOMAIN clients |->
     IF clients[i].name \in Message.names /\ clients[i].proxy = "ready"
     THEN [clients[i] EXCEPT !.owned = owned] ELSE clients[i]]

\* on_name_acquired, once for each name in some order.
OnNamesAcquired ==
  /\ busMessages # <<>> /\ Message.kind \in {"acquired", "listed"}
  /\ \E order \in [1 .. Cardinality(Message.names) -> Message.names] :
       /\ \A p \in Message.names : \E i \in DOMAIN order : order[i] = p
       /\ player_clients' =
            (IF Message.kind = "acquired" THEN Follow(player_clients, TRUE) ELSE player_clients)
            \o [i \in DOMAIN order |-> [name |-> order[i], proxy |-> "watching", owned |-> FALSE]]
  /\ busMessages' = Tail(busMessages)
  /\ UNCHANGED <<onBus, listing, ownerChanges>>

\* Mutant of Remove: of all that are not ready as well.
RemoveUnready(p) ==
  SelectSeq(player_clients, LAMBDA c : c.name # p /\ c.proxy = "ready")

\* The first client whose name is known to be p, which takes a live proxy.
Remove(p) ==
  LET found == {i \in DOMAIN player_clients : Live(player_clients[i]) /\ player_clients[i].name = p}
      first == CHOOSE i \in found : \A j \in found : i <= j
  IN  IF found = {} THEN player_clients
      ELSE SubSeq(player_clients, 1, first - 1)
           \o SubSeq(player_clients, first + 1, Len(player_clients))

OnNameLost ==
  /\ busMessages # <<>> /\ Message.kind = "lost"
  /\ \E p \in Message.names : player_clients' = Follow(Remove(p), FALSE)
  /\ busMessages' = Tail(busMessages)
  /\ UNCHANGED <<onBus, listing, ownerChanges>>

-----------------------------------------------------------------------------
(* MprisClient. *)

\* Replies about a name come after what the bus has told of it before.
NoNews(p) == \A m \in {busMessages[i] : i \in DOMAIN busMessages} : p \notin m.names \/ m.kind = "listed"

\* _on_appeared: the name has an owner, and a proxy is asked for.
OnAppeared(i) ==
  /\ player_clients[i].proxy = "watching"
  /\ player_clients[i].name \in onBus /\ NoNews(player_clients[i].name)
  /\ player_clients' = [player_clients EXCEPT ![i].proxy = "asked"]
  /\ UNCHANGED <<onBus, listing, busMessages, ownerChanges>>

\* _on_proxy_ready: the owner may have gone meanwhile.
OnProxyReady(i) ==
  /\ player_clients[i].proxy = "asked" /\ NoNews(player_clients[i].name)
  /\ player_clients' = [player_clients EXCEPT ![i].proxy = "ready",
                                              ![i].owned = player_clients[i].name \in onBus]
  /\ UNCHANGED <<onBus, listing, busMessages, ownerChanges>>

\* What the screensaver and the bus do about it.
PlayersFound ==
  \/ NamesListed \/ OnNamesAcquired \/ OnNameLost
  \/ \E i \in DOMAIN player_clients : OnAppeared(i) \/ OnProxyReady(i)

PlayersNext ==
  \/ PlayersFound
  \/ \E p \in PlayerNames : PlayerStarts(p) \/ PlayerStops(p) \/ PlayerReplaced(p)

\* get_all_player_names: nothing for a client that is not live.
AllPlayerNames ==
  {IF Live(player_clients[i]) THEN player_clients[i].name ELSE "" : i \in DOMAIN player_clients}

-----------------------------------------------------------------------------
(* Properties. *)

PlayersTypeOK ==
  /\ onBus \subseteq PlayerNames
  /\ listing \in BOOLEAN
  /\ \A i \in DOMAIN busMessages :
       busMessages[i] \in [kind : {"acquired", "lost", "listed"}, names : SUBSET PlayerNames]
  /\ \A i \in DOMAIN player_clients :
       player_clients[i] \in
         [name : PlayerNames, proxy : {"watching", "asked", "ready"}, owned : BOOLEAN]

\* A player that stays gets a live client, however often it came and went before, and
\* whatever clients that has left in the list.
PlayersAreFound ==
  \A p \in PlayerNames :
    p \in onBus ~> \/ p \notin onBus
                   \/ \E i \in DOMAIN player_clients :
                        player_clients[i].name = p /\ Live(player_clients[i])
=============================================================================
