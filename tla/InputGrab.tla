------------------------------ MODULE InputGrab ------------------------------
(***************************************************************************)
(* What a grabber of the input promises its client, whichever requests to  *)
(* the X server that takes: a grab is of the keyboard and the pointer or   *)
(* of nothing; a grab that is moved from a window to another is never out  *)
(* of its client's hands, and the move ends with both; no client has the   *)
(* pointer without the keyboard, unless the server has broken its grab.    *)
(***************************************************************************)
CONSTANTS
  Clients,  \* processes with a grabber
  App,      \* any other
  None      \* nobody

VARIABLES
  holder,   \* who has a device
  moving,   \* clients in move_to_window
  broken    \* clients that take a grab the server has ended for one they have

vars == <<holder, moving, broken>>

Devices == {"keyboard", "mouse"}

Init ==
  /\ holder = [d \in Devices |-> None]
  /\ moving = {}
  /\ broken = {}

Freed(c) == [d \in Devices |-> IF holder[d] = c THEN None ELSE holder[d]]

\* grab_window succeeds: both, or nothing.
Grant(c) ==
  /\ \A d \in Devices : holder[d] \in {None, c}
  /\ holder' = [d \in Devices |-> c]
  /\ broken' = broken \ {c}
  /\ UNCHANGED moving

BeginMove(c) ==
  /\ moving' = moving \cup {c}
  /\ UNCHANGED <<holder, broken>>

\* move_to_window takes what its client has not got, the keyboard first.
Take(c, d) ==
  /\ c \in moving
  /\ holder[d] = None
  /\ d = "mouse" => holder["keyboard"] = c \/ c \in broken
  /\ holder' = [holder EXCEPT ![d] = c]
  /\ moving' = IF d = "mouse" THEN moving \ {c} ELSE moving
  /\ broken' \in {broken, broken \ {c}}

\* It had the pointer already.
EndMove(c) ==
  /\ c \in moving
  /\ holder["mouse"] = c
  /\ holder["keyboard"] = c \/ c \in broken
  /\ moving' = moving \ {c}
  /\ broken' \in {broken, broken \ {c}}
  /\ UNCHANGED holder

\* A client gives up both, or loses them with its window, or asks anew.
Release(c) ==
  /\ c \notin moving
  /\ holder' = Freed(c)
  /\ broken' \in {broken, broken \ {c}}
  /\ UNCHANGED moving

\* A client gives up the pointer, so that its dialog can be used.
ReleaseMouse(c) ==
  /\ holder["mouse"] = c
  /\ holder' = [holder EXCEPT !["mouse"] = None]
  /\ broken' \in {broken, broken \ {c}}
  /\ UNCHANGED moving

\* The server ends the grab of a client.
Break(c) ==
  /\ \E d \in Devices : holder[d] = c
  /\ holder' = Freed(c)
  /\ broken' = broken \cup {c}
  /\ UNCHANGED moving

\* A client finds out.
Notice(c) ==
  /\ broken' = broken \ {c}
  /\ UNCHANGED <<holder, moving>>

AppTakes(d) ==
  /\ holder[d] = None
  /\ holder' = [holder EXCEPT ![d] = App]
  /\ UNCHANGED <<moving, broken>>

AppReleases(d) ==
  /\ holder[d] = App
  /\ holder' = [holder EXCEPT ![d] = None]
  /\ UNCHANGED <<moving, broken>>

Next ==
  \/ \E c \in Clients :
       \/ Grant(c) \/ Release(c) \/ ReleaseMouse(c)
       \/ BeginMove(c) \/ EndMove(c) \/ Break(c) \/ Notice(c)
  \/ \E c \in Clients, d \in Devices : Take(c, d)
  \/ \E d \in Devices : AppTakes(d) \/ AppReleases(d)

Spec == Init /\ [][Next]_vars
=============================================================================
