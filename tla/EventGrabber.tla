----------------------------- MODULE EventGrabber -----------------------------
(***************************************************************************)
(* The event grabbers of several processes (the screensaver and its backup *)
(* locker) at one X server, request by request.  A grab of the keyboard    *)
(* and the pointer takes a request for each, tried over and over while     *)
(* others make their own; a grab is moved to another window by letting go  *)
(* of the old one first, with the whole server grabbed meanwhile.          *)
(***************************************************************************)
EXTENDS Naturals

CONSTANTS
  Clients,         \* processes with a grabber
  App,             \* any other process
  None,            \* nobody, nothing
  retries,         \* tries for each device
  MaxRefusals,     \* bound: requests the server refuses though nobody has the device
  MaxBreaks,       \* bound: grabs the server ends by itself
  MaxAppGrabs      \* bound: grabs of other processes

ASSUME GrabberAssumption ==
  /\ None \notin Clients /\ None \notin {"root", "own"}
  /\ App \notin Clients /\ App # None
  /\ retries \in Nat \ {0}
  /\ MaxRefusals \in Nat /\ MaxBreaks \in Nat /\ MaxAppGrabs \in Nat

VARIABLES
  (* the X server *)
  owner,        \* who has a device
  serverGrab,   \* who has grabbed the server itself
  refusals, breaks, appGrabs,
  (* each grabber *)
  grab_window,  \* keyboard_grab_window and mouse_grab_window
  pc,           \* what it is doing
  window,       \* the window it is doing that for
  tries,        \* i in the loops of grab_window; tries of a move
  nuked,        \* focus_fuckus: it has been through the first loop once
  kstatus,      \* grab_window has got the keyboard
  old_window    \* what it let go of to move the grab

boundVars   == <<refusals, breaks, appGrabs>>
serverVars  == <<owner, serverGrab, boundVars>>
callVars    == <<window, nuked, kstatus>>
grabberVars == <<grab_window, pc, tries, old_window, callVars>>
vars        == <<serverVars, grabberVars>>

\* The root window, which can always be seen, and the window of the client.
Windows  == {"root", "own"}
Devices  == {"keyboard", "mouse"}
Grabbing == {"grabKeyboard", "grabMouse"}
Moving   == {"moveKeyboard", "moveMouse"}

\* The device a call is about at the moment.
Device(c) == IF pc[c] \in {"grabKeyboard", "moveKeyboard"} THEN "keyboard" ELSE "mouse"

Init ==
  /\ owner = [d \in Devices |-> None]
  /\ serverGrab = None
  /\ refusals = 0 /\ breaks = 0 /\ appGrabs = 0
  /\ grab_window = [c \in Clients |-> [d \in Devices |-> None]]
  /\ pc = [c \in Clients |-> "idle"]
  /\ window = [c \in Clients |-> "root"]
  /\ tries = [c \in Clients |-> 0]
  /\ nuked = [c \in Clients |-> FALSE]
  /\ kstatus = [c \in Clients |-> FALSE]
  /\ old_window = [c \in Clients |-> None]

-----------------------------------------------------------------------------
(* Requests. *)

\* The server reads the requests of c.
Served(c) == serverGrab \in {None, c}

\* get_keyboard and get_mouse: the server gives the device, and the grabber notes it.
Gets(c, d, w) ==
  /\ owner[d] \in {None, c}
  /\ owner' = [owner EXCEPT ![d] = c]
  /\ grab_window' = [grab_window EXCEPT ![c][d] = w]
  /\ UNCHANGED refusals

\* The request fails: another has the device, or the window cannot be seen yet.
Refuses(c, d) ==
  IF owner[d] \in {None, c}
  THEN window[c] = "own" /\ refusals < MaxRefusals /\ refusals' = refusals + 1
  ELSE UNCHANGED refusals

Refused(c, d) == Refuses(c, d) /\ UNCHANGED <<owner, grab_window>>

\* release_keyboard and release_mouse, for each device of D.
LetGo(c, D) ==
  /\ owner' = [d \in Devices |-> IF d \in D /\ owner[d] = c THEN None ELSE owner[d]]
  /\ grab_window' = [grab_window EXCEPT ![c] =
       [d \in Devices |-> IF d \in D THEN None ELSE grab_window[c][d]]]

\* The call returns; its arguments and local variables are gone.
Returns(c) ==
  /\ pc' = [pc EXCEPT ![c] = "idle"]
  /\ tries' = [tries EXCEPT ![c] = 0]
  /\ window' = [window EXCEPT ![c] = "root"]
  /\ nuked' = [nuked EXCEPT ![c] = FALSE]
  /\ kstatus' = [kstatus EXCEPT ![c] = FALSE]

-----------------------------------------------------------------------------
(* grab_root. *)

GrabRoot(c) ==
  /\ pc[c] = "idle"
  /\ pc' = [pc EXCEPT ![c] = "grabKeyboard"]
  /\ UNCHANGED <<serverVars, grab_window, tries, old_window, callVars>>

GrabsKeyboard(c) ==
  /\ pc[c] = "grabKeyboard" /\ Served(c)
  /\ Gets(c, "keyboard", window[c])
  /\ kstatus' = [kstatus EXCEPT ![c] = TRUE]
  /\ pc' = [pc EXCEPT ![c] = "grabMouse"]
  /\ tries' = [tries EXCEPT ![c] = 0]
  /\ UNCHANGED <<serverGrab, breaks, appGrabs, window, nuked, old_window>>

\* Mutant of LastTry: one too many.
OneMoreTry(c) == tries[c] > retries

\* Whether the loop ends when this try fails.
LastTry(c) == tries[c] + 1 = retries

\* A second later it tries again.  When that was the last try it presses Escape, which
\* may close the menu of an application, takes the focus away, and starts over, once;
\* then goes on to the mouse all the same.
KeyboardRefused(c) ==
  /\ pc[c] = "grabKeyboard" /\ Served(c)
  /\ IF ~LastTry(c)
     THEN /\ Refused(c, "keyboard")
          /\ tries' = [tries EXCEPT ![c] = @ + 1]
          /\ UNCHANGED <<pc, nuked>>
     ELSE /\ tries' = [tries EXCEPT ![c] = 0]
          /\ nuked' = [nuked EXCEPT ![c] = TRUE]
          /\ pc' = IF nuked[c] THEN [pc EXCEPT ![c] = "grabMouse"] ELSE pc
          /\ Refused(c, "keyboard")
  /\ UNCHANGED <<serverGrab, breaks, appGrabs, window, kstatus, old_window>>

\* Mutant of FailedGrab: what it had got stays grabbed.
FailedGrabKeeps(c, got) == UNCHANGED <<owner, grab_window>>

\* One of the two was not to be had: release the one that was.
FailedGrab(c, got) == LetGo(c, got)

\* With the mouse the grab is complete, unless the keyboard is missing.
GrabsMouse(c) ==
  /\ pc[c] = "grabMouse" /\ Served(c)
  /\ IF kstatus[c]
     THEN Gets(c, "mouse", window[c])
     ELSE /\ owner["mouse"] \in {None, c}
          /\ FailedGrab(c, {"mouse"})
          /\ UNCHANGED refusals
  /\ Returns(c)
  /\ UNCHANGED <<serverGrab, breaks, appGrabs, old_window>>

MouseRefused(c) ==
  /\ pc[c] = "grabMouse" /\ Served(c)
  /\ IF ~LastTry(c)
     THEN /\ Refused(c, "mouse")
          /\ tries' = [tries EXCEPT ![c] = @ + 1]
          /\ UNCHANGED <<pc, callVars>>
     ELSE /\ Refuses(c, "mouse")
          /\ FailedGrab(c, IF kstatus[c] THEN {"keyboard"} ELSE {})
          /\ Returns(c)
  /\ UNCHANGED <<serverGrab, breaks, appGrabs, old_window>>

-----------------------------------------------------------------------------
(* move_to_window. *)

\* Mutant of Moves: the mouse first.
MouseFirst == [first |-> "moveMouse", last |-> "moveKeyboard"]

\* The loops of move_to_window.
Moves == [first |-> "moveKeyboard", last |-> "moveMouse"]

MoveToWindow(c) ==
  /\ pc[c] = "idle"
  /\ pc' = [pc EXCEPT ![c] = Moves.first]
  /\ window' = [window EXCEPT ![c] = "own"]
  /\ UNCHANGED <<serverVars, grab_window, tries, nuked, kstatus, old_window>>

\* move_keyboard or move_mouse has succeeded: on to the other, or back to the caller.
Moved(c) ==
  IF pc[c] = Moves.first
  THEN /\ pc' = [pc EXCEPT ![c] = Moves.last]
       /\ tries' = [tries EXCEPT ![c] = 0]
       /\ UNCHANGED callVars
  ELSE Returns(c)

\* Mutant of UngrabServer: forgotten.
ServerStaysGrabbed == UNCHANGED serverGrab

UngrabServer == serverGrab' = None

\* What it takes for its grab.  It asks whether the pointer is still grabbed, but not so
\* for the keyboard.
KnownGrab(c, d) ==
  IF d = "mouse" /\ owner[d] # c THEN None ELSE grab_window[c][d]

AlreadyGrabbed(c) ==
  /\ pc[c] \in Moving /\ serverGrab # c
  /\ KnownGrab(c, Device(c)) = window[c]
  /\ Moved(c)
  /\ UNCHANGED <<serverVars, grab_window, old_window>>

\* Nobody else is served from here to the end of this attempt.
GrabServer(c) ==
  LET d == Device(c)
  IN  /\ pc[c] \in Moving /\ serverGrab = None
      /\ KnownGrab(c, d) # window[c]
      /\ serverGrab' = c
      /\ old_window' = [old_window EXCEPT ![c] = KnownGrab(c, d)]
      /\ IF KnownGrab(c, d) # None
         THEN LetGo(c, {d})
         ELSE /\ grab_window' = [grab_window EXCEPT ![c][d] = None]
              /\ UNCHANGED owner
      /\ UNCHANGED <<boundVars, pc, tries, callVars>>

MoveGets(c) ==
  /\ pc[c] \in Moving /\ serverGrab = c
  /\ Gets(c, Device(c), window[c])
  /\ UngrabServer
  /\ old_window' = [old_window EXCEPT ![c] = None]
  /\ Moved(c)
  /\ UNCHANGED <<breaks, appGrabs>>

\* The first try failed: sleep, with the server grabbed.
MoveRefused(c) ==
  /\ pc[c] \in Moving /\ serverGrab = c /\ tries[c] = 0
  /\ Refused(c, Device(c))
  /\ tries' = [tries EXCEPT ![c] = 1]
  /\ UNCHANGED <<serverGrab, breaks, appGrabs, pc, old_window, callVars>>

\* Grab the old window again; a window that had a grab is not refused.
Resume(c, d) ==
  IF old_window[c] # None /\ owner[d] \in {None, c}
  THEN /\ owner' = [owner EXCEPT ![d] = c]
       /\ grab_window' = [grab_window EXCEPT ![c][d] = old_window[c]]
  ELSE UNCHANGED <<owner, grab_window>>

\* So did the second: resume the previous grab, and let the loop start over.
MoveFails(c) ==
  LET d == Device(c)
  IN  /\ pc[c] \in Moving /\ serverGrab = c /\ tries[c] = 1
      /\ Refuses(c, d)
      /\ Resume(c, d)
      /\ UngrabServer
      /\ old_window' = [old_window EXCEPT ![c] = None]
      /\ tries' = [tries EXCEPT ![c] = 0]
      /\ UNCHANGED <<breaks, appGrabs, pc, callVars>>

-----------------------------------------------------------------------------
(* Releases, losses and other processes. *)

Release(c) ==
  /\ pc[c] = "idle" /\ Served(c)
  /\ LetGo(c, Devices)
  /\ UNCHANGED <<serverGrab, boundVars, pc, tries, old_window, callVars>>

ReleaseMouse(c) ==
  /\ pc[c] = "idle" /\ Served(c)
  /\ LetGo(c, {"mouse"})
  /\ UNCHANGED <<serverGrab, boundVars, pc, tries, old_window, callVars>>

\* The window goes, with its grabs and the weak pointers to it.
WindowDestroyed(c) ==
  /\ pc[c] = "idle" /\ Served(c)
  /\ LetGo(c, {d \in Devices : grab_window[c][d] = "own"})
  /\ UNCHANGED <<serverGrab, boundVars, pc, tries, old_window, callVars>>

\* The window is hidden, or another of the process takes the grabs for a while: the server
\* ends them, and the grabber is not told.
GrabBroken(c) ==
  /\ breaks < MaxBreaks
  /\ pc[c] = "idle" /\ Served(c)
  /\ \E d \in Devices : owner[d] = c
  /\ owner' = [d \in Devices |-> IF owner[d] = c THEN None ELSE owner[d]]
  /\ breaks' = breaks + 1
  /\ UNCHANGED <<serverGrab, refusals, appGrabs, grabberVars>>

AppTakes(d) ==
  /\ appGrabs < MaxAppGrabs /\ serverGrab = None
  /\ owner[d] = None
  /\ owner' = [owner EXCEPT ![d] = App]
  /\ appGrabs' = appGrabs + 1
  /\ UNCHANGED <<serverGrab, refusals, breaks, grabberVars>>

AppReleases(d) ==
  /\ owner[d] = App /\ serverGrab = None
  /\ owner' = [owner EXCEPT ![d] = None]
  /\ UNCHANGED <<serverGrab, boundVars, grabberVars>>

-----------------------------------------------------------------------------
\* A call that has begun goes on.
GoesOn(c) ==
  \/ GrabsKeyboard(c) \/ KeyboardRefused(c) \/ GrabsMouse(c) \/ MouseRefused(c)
  \/ AlreadyGrabbed(c) \/ GrabServer(c) \/ MoveGets(c) \/ MoveRefused(c) \/ MoveFails(c)

Next ==
  \/ \E c \in Clients : GrabRoot(c) \/ GoesOn(c) \/ Release(c) \/ ReleaseMouse(c) \/ WindowDestroyed(c)
  \/ \E c \in Clients : MoveToWindow(c) \/ GrabBroken(c)
  \/ \E d \in Devices : AppTakes(d) \/ AppReleases(d)

Spec == Init /\ [][Next]_vars

(* A process goes through a call to its end, and the server serves every client again  *)
(* and again, between the grabs of the server that others make; other processes close  *)
(* their menus.                                                                         *)
Fairness ==
  /\ \A c \in Clients : SF_vars(GoesOn(c))
  /\ \A d \in Devices : SF_vars(AppReleases(d))

FairSpec == Spec /\ Fairness

-----------------------------------------------------------------------------
(* Properties. *)

\* Every variable has its type.
TypeOK ==
  /\ owner \in [Devices -> Clients \cup {App, None}]
  /\ serverGrab \in Clients \cup {None}
  /\ refusals \in Nat /\ breaks \in Nat /\ appGrabs \in Nat
  /\ grab_window \in [Clients -> [Devices -> Windows \cup {None}]]
  /\ pc \in [Clients -> {"idle"} \cup Grabbing \cup Moving]
  /\ window \in [Clients -> Windows]
  /\ tries \in [Clients -> 0 .. retries]
  /\ nuked \in [Clients -> BOOLEAN] /\ kstatus \in [Clients -> BOOLEAN]
  /\ old_window \in [Clients -> Windows \cup {None}]

\* Whose a device is as far as the callers can tell: a grab is not complete until the call
\* returns, and one that is being moved goes on all the while.
Holder(d) ==
  IF /\ serverGrab # None /\ Device(serverGrab) = d
     /\ old_window[serverGrab] # None /\ owner[d] = None
  THEN serverGrab
  ELSE IF owner[d] \in Clients /\ pc[owner[d]] \in Grabbing
       THEN None
       ELSE owner[d]

\* Grabbers that take a grab that was broken for one they have.
Broken == {c \in Clients : \E d \in Devices : grab_window[c][d] # None /\ owner[d] # c}

\* The requests of the grabbers amount to the promise of InputGrab: grab_window gets both
\* devices or none, and move_to_window, which "doesn't fail", returns with both, unless the
\* server has broken the grab, and never lets another have a grab it moves.
Promise ==
  INSTANCE InputGrab WITH
    holder <- [d \in Devices |-> Holder(d)],
    moving <- {c \in Clients : pc[c] \in Moving},
    broken <- Broken
KeepsPromise == Promise!Spec

\* A process in the loops of move_to_window cannot go on before c lets go of device d.
WaitsFor(b, c, d) ==
  /\ pc[b] \in Moving /\ Device(b) = d
  /\ owner[d] = c /\ KnownGrab(b, d) # window[b]

\* Two processes in those loops do not wait for each other's device.
NoCircularWait ==
  \A b, c \in Clients : \A d, e \in Devices :
    b # c => ~ (WaitsFor(b, c, d) /\ WaitsFor(c, b, e))

\* The loops of move_to_window end, if no other grabber has one of the devices.
MoveEnds ==
  \A c \in Clients :
    pc[c] \in Moving ~> pc[c] = "idle" \/ \E d \in Devices : owner[d] \in Clients \ {c}
=============================================================================
