------------------------- MODULE EventGrabber_proofs -------------------------
(***************************************************************************)
(* Any number of grabbers at one server keep the promise of InputGrab.     *)
(***************************************************************************)
EXTENDS EventGrabber, TLAPS

\* A loop of grab_window has tries left while it goes on, and none has begun outside one.
TriesInv ==
  \A c \in Clients :
    /\ pc[c] \in Grabbing => tries[c] < retries
    /\ pc[c] = "idle" => tries[c] = 0

\* The server is grabbed by a client that moves a grab, which has let go of it.
ServerInv ==
  /\ serverGrab # None => pc[serverGrab] \in Moving
  /\ \A c \in Clients :
       IF serverGrab = c
       THEN owner[Device(c)] # c /\ grab_window[c][Device(c)] = None
       ELSE old_window[c] = None

\* A grabber knows of each device it has.
OwnedIsKnown ==
  \A c \in Clients, d \in Devices : owner[d] = c => grab_window[c][d] # None

\* What a call has done so far.
CallInv ==
  \A c \in Clients :
    /\ window[c] = IF pc[c] \in Moving THEN "own" ELSE "root"
    /\ kstatus[c] => pc[c] = "grabMouse"
    /\ pc[c] = "grabMouse" =>
         /\ kstatus[c] <=> owner["keyboard"] = c
         /\ kstatus[c] => grab_window[c]["keyboard"] = "root"
    /\ pc[c] = "moveMouse" => grab_window[c]["keyboard"] = "own"

\* Who has the pointer outside grab_window has the keyboard as well, or believes so, or
\* has just let go of it to grab it again.
PointerInv ==
  \A c \in Clients :
    owner["mouse"] = c /\ pc[c] \notin Grabbing =>
      /\ \/ owner["keyboard"] = c
         \/ grab_window[c]["keyboard"] = "own"
         \/ /\ serverGrab = c /\ pc[c] = "moveKeyboard"
            /\ old_window[c] # None /\ owner["keyboard"] = None
      /\ pc[c] = "idle" => grab_window[c]["mouse"] = grab_window[c]["keyboard"]

IInv == TypeOK /\ TriesInv /\ ServerInv /\ OwnedIsKnown /\ CallInv /\ PointerInv

\* The keyboard is moved first, the pointer last.
LEMMA Loops == Moves.first = "moveKeyboard" /\ Moves.last = "moveMouse"
  BY DEF Moves

-----------------------------------------------------------------------------
(* The invariant. *)

\* Every action keeps the types.
LEMMA TypeStep == TypeOK /\ TriesInv /\ [Next]_vars => TypeOK'
<1> SUFFICES ASSUME TypeOK /\ TriesInv, [Next]_vars PROVE TypeOK'
  OBVIOUS
<1> USE Loops, GrabberAssumption DEF TypeOK, Device, boundVars, serverVars, callVars,
        grabberVars, Devices, Windows, Grabbing, Moving
<1>1. ASSUME NEW c \in Clients, GrabRoot(c) PROVE TypeOK'
  BY <1>1 DEF GrabRoot
<1>2. ASSUME NEW c \in Clients, GrabsKeyboard(c) PROVE TypeOK'
  BY <1>2 DEF GrabsKeyboard, Gets, Served
<1>3. ASSUME NEW c \in Clients, KeyboardRefused(c) PROVE TypeOK'
  <2>1. CASE LastTry(c)
    <3>1. pc' \in [Clients -> {"idle"} \cup Grabbing \cup Moving]
      BY <1>3, <2>1 DEF KeyboardRefused, Refused, Refuses, LastTry, Served
    <3>2. tries' \in [Clients -> 0 .. retries]
      BY <1>3, <2>1 DEF KeyboardRefused, Refused, Refuses, LastTry, Served
    <3>3. /\ window' \in [Clients -> Windows]
          /\ nuked' \in [Clients -> BOOLEAN] /\ kstatus' \in [Clients -> BOOLEAN]
      BY <1>3, <2>1 DEF KeyboardRefused, Refused, Refuses, LastTry, Served
    <3>4. owner' \in [Devices -> Clients \cup {App, None}] /\ refusals' \in Nat
      BY <1>3, <2>1 DEF KeyboardRefused, Refused, Refuses, LastTry, Served
    <3>5. grab_window' \in [Clients -> [Devices -> Windows \cup {None}]]
      BY <1>3, <2>1 DEF KeyboardRefused, Refused, Refuses, LastTry, Served
    <3> QED BY <1>3, <2>1, <3>1, <3>2, <3>3, <3>4, <3>5 DEF KeyboardRefused
  <2>2. CASE ~LastTry(c)
    <3>1. pc' \in [Clients -> {"idle"} \cup Grabbing \cup Moving]
      BY <1>3, <2>2 DEF KeyboardRefused, Refused, Refuses, LastTry, Served
    <3>2. tries' \in [Clients -> 0 .. retries]
      <4>1. tries' = [tries EXCEPT ![c] = tries[c] + 1]
        BY <1>3, <2>2 DEF KeyboardRefused
      <4>2. tries[c] + 1 \in 0 .. retries
        BY <1>3, <2>2 DEF TriesInv, LastTry, KeyboardRefused
      <4> QED BY <4>1, <4>2
    <3>3. /\ window' \in [Clients -> Windows]
          /\ nuked' \in [Clients -> BOOLEAN] /\ kstatus' \in [Clients -> BOOLEAN]
      BY <1>3, <2>2 DEF KeyboardRefused, Refused, Refuses, LastTry, Served
    <3>4. owner' \in [Devices -> Clients \cup {App, None}] /\ refusals' \in Nat
      BY <1>3, <2>2 DEF KeyboardRefused, Refused, Refuses, LastTry, Served
    <3>5. grab_window' \in [Clients -> [Devices -> Windows \cup {None}]]
      BY <1>3, <2>2 DEF KeyboardRefused, Refused, Refuses, LastTry, Served
    <3> QED BY <1>3, <2>2, <3>1, <3>2, <3>3, <3>4, <3>5 DEF KeyboardRefused
  <2> QED BY <2>1, <2>2
<1>4. ASSUME NEW c \in Clients, GrabsMouse(c) PROVE TypeOK'
  BY <1>4 DEF GrabsMouse, Gets, Returns, FailedGrab, LetGo, Served
<1>5. ASSUME NEW c \in Clients, MouseRefused(c) PROVE TypeOK'
  <2>1. CASE LastTry(c)
    <3>1. pc' \in [Clients -> {"idle"} \cup Grabbing \cup Moving]
      BY <1>5, <2>1 DEF MouseRefused, Refuses, Returns, FailedGrab, LetGo, LastTry, Served
    <3>2. tries' \in [Clients -> 0 .. retries]
      BY <1>5, <2>1 DEF MouseRefused, Refuses, Returns, FailedGrab, LetGo, LastTry, Served
    <3>3. /\ window' \in [Clients -> Windows]
          /\ nuked' \in [Clients -> BOOLEAN] /\ kstatus' \in [Clients -> BOOLEAN]
      BY <1>5, <2>1 DEF MouseRefused, Refuses, Returns, FailedGrab, LetGo, LastTry, Served
    <3>4. owner' \in [Devices -> Clients \cup {App, None}] /\ refusals' \in Nat
      BY <1>5, <2>1 DEF MouseRefused, Refuses, Returns, FailedGrab, LetGo, LastTry, Served
    <3>5. grab_window' \in [Clients -> [Devices -> Windows \cup {None}]]
      BY <1>5, <2>1 DEF MouseRefused, Refuses, Returns, FailedGrab, LetGo, LastTry, Served
    <3> QED BY <1>5, <2>1, <3>1, <3>2, <3>3, <3>4, <3>5 DEF MouseRefused
  <2>2. CASE ~LastTry(c)
    <3>1. pc' \in [Clients -> {"idle"} \cup Grabbing \cup Moving]
      BY <1>5, <2>2 DEF MouseRefused, Refused, Refuses, LastTry, Served
    <3>2. tries' \in [Clients -> 0 .. retries]
      <4>1. tries' = [tries EXCEPT ![c] = tries[c] + 1]
        BY <1>5, <2>2 DEF MouseRefused
      <4>2. tries[c] + 1 \in 0 .. retries
        BY <1>5, <2>2 DEF TriesInv, LastTry, MouseRefused
      <4> QED BY <4>1, <4>2
    <3>3. /\ window' \in [Clients -> Windows]
          /\ nuked' \in [Clients -> BOOLEAN] /\ kstatus' \in [Clients -> BOOLEAN]
      BY <1>5, <2>2 DEF MouseRefused, Refused, Refuses, LastTry, Served
    <3>4. owner' \in [Devices -> Clients \cup {App, None}] /\ refusals' \in Nat
      BY <1>5, <2>2 DEF MouseRefused, Refused, Refuses, LastTry, Served
    <3>5. grab_window' \in [Clients -> [Devices -> Windows \cup {None}]]
      BY <1>5, <2>2 DEF MouseRefused, Refused, Refuses, LastTry, Served
    <3> QED BY <1>5, <2>2, <3>1, <3>2, <3>3, <3>4, <3>5 DEF MouseRefused
  <2> QED BY <2>1, <2>2
<1>6. ASSUME NEW c \in Clients, MoveToWindow(c) PROVE TypeOK'
  BY <1>6 DEF MoveToWindow
<1>7. ASSUME NEW c \in Clients, AlreadyGrabbed(c) PROVE TypeOK'
  <2>1. CASE pc[c] = Moves.first
    <3>1. pc' \in [Clients -> {"idle"} \cup Grabbing \cup Moving]
      BY <1>7, <2>1 DEF AlreadyGrabbed, Moved
    <3>2. tries' \in [Clients -> 0 .. retries]
      BY <1>7, <2>1 DEF AlreadyGrabbed, Moved
    <3>3. /\ window' \in [Clients -> Windows]
          /\ nuked' \in [Clients -> BOOLEAN] /\ kstatus' \in [Clients -> BOOLEAN]
      BY <1>7, <2>1 DEF AlreadyGrabbed, Moved
    <3>4. owner' \in [Devices -> Clients \cup {App, None}] /\ refusals' \in Nat
      BY <1>7, <2>1 DEF AlreadyGrabbed, Moved
    <3>5. grab_window' \in [Clients -> [Devices -> Windows \cup {None}]]
      BY <1>7, <2>1 DEF AlreadyGrabbed, Moved
    <3> QED BY <1>7, <2>1, <3>1, <3>2, <3>3, <3>4, <3>5 DEF AlreadyGrabbed
  <2>2. CASE pc[c] # Moves.first
    <3>1. pc' \in [Clients -> {"idle"} \cup Grabbing \cup Moving]
      BY <1>7, <2>2 DEF AlreadyGrabbed, Moved, Returns
    <3>2. tries' \in [Clients -> 0 .. retries]
      BY <1>7, <2>2 DEF AlreadyGrabbed, Moved, Returns
    <3>3. /\ window' \in [Clients -> Windows]
          /\ nuked' \in [Clients -> BOOLEAN] /\ kstatus' \in [Clients -> BOOLEAN]
      BY <1>7, <2>2 DEF AlreadyGrabbed, Moved, Returns
    <3>4. owner' \in [Devices -> Clients \cup {App, None}] /\ refusals' \in Nat
      BY <1>7, <2>2 DEF AlreadyGrabbed, Moved, Returns
    <3>5. grab_window' \in [Clients -> [Devices -> Windows \cup {None}]]
      BY <1>7, <2>2 DEF AlreadyGrabbed, Moved, Returns
    <3> QED BY <1>7, <2>2, <3>1, <3>2, <3>3, <3>4, <3>5 DEF AlreadyGrabbed
  <2> QED BY <2>1, <2>2
<1>8. ASSUME NEW c \in Clients, GrabServer(c) PROVE TypeOK'
  BY <1>8 DEF GrabServer, KnownGrab, LetGo
<1>9. ASSUME NEW c \in Clients, MoveGets(c) PROVE TypeOK'
  <2>1. CASE pc[c] = Moves.first
    <3>1. pc' \in [Clients -> {"idle"} \cup Grabbing \cup Moving]
      BY <1>9, <2>1 DEF MoveGets, Gets, UngrabServer, Moved
    <3>2. tries' \in [Clients -> 0 .. retries]
      BY <1>9, <2>1 DEF MoveGets, Gets, UngrabServer, Moved
    <3>3. /\ window' \in [Clients -> Windows]
          /\ nuked' \in [Clients -> BOOLEAN] /\ kstatus' \in [Clients -> BOOLEAN]
      BY <1>9, <2>1 DEF MoveGets, Gets, UngrabServer, Moved
    <3>4. owner' \in [Devices -> Clients \cup {App, None}] /\ refusals' \in Nat
      BY <1>9, <2>1 DEF MoveGets, Gets, UngrabServer, Moved
    <3>5. grab_window' \in [Clients -> [Devices -> Windows \cup {None}]]
      BY <1>9, <2>1 DEF MoveGets, Gets, UngrabServer, Moved
    <3> QED BY <1>9, <2>1, <3>1, <3>2, <3>3, <3>4, <3>5 DEF MoveGets, UngrabServer
  <2>2. CASE pc[c] # Moves.first
    <3>1. pc' \in [Clients -> {"idle"} \cup Grabbing \cup Moving]
      BY <1>9, <2>2 DEF MoveGets, Gets, UngrabServer, Moved, Returns
    <3>2. tries' \in [Clients -> 0 .. retries]
      BY <1>9, <2>2 DEF MoveGets, Gets, UngrabServer, Moved, Returns
    <3>3. /\ window' \in [Clients -> Windows]
          /\ nuked' \in [Clients -> BOOLEAN] /\ kstatus' \in [Clients -> BOOLEAN]
      BY <1>9, <2>2 DEF MoveGets, Gets, UngrabServer, Moved, Returns
    <3>4. owner' \in [Devices -> Clients \cup {App, None}] /\ refusals' \in Nat
      BY <1>9, <2>2 DEF MoveGets, Gets, UngrabServer, Moved, Returns
    <3>5. grab_window' \in [Clients -> [Devices -> Windows \cup {None}]]
      BY <1>9, <2>2 DEF MoveGets, Gets, UngrabServer, Moved, Returns
    <3> QED BY <1>9, <2>2, <3>1, <3>2, <3>3, <3>4, <3>5 DEF MoveGets, UngrabServer
  <2> QED BY <2>1, <2>2
<1>10. ASSUME NEW c \in Clients, MoveRefused(c) PROVE TypeOK'
  BY <1>10, SMTT(60) DEF MoveRefused, Refused, Refuses
<1>11. ASSUME NEW c \in Clients, MoveFails(c) PROVE TypeOK'
  BY <1>11, SMTT(60) DEF MoveFails, Refuses, Resume, UngrabServer
<1>12. ASSUME NEW c \in Clients, Release(c) PROVE TypeOK'
  BY <1>12 DEF Release, Served, LetGo
<1>13. ASSUME NEW c \in Clients, ReleaseMouse(c) PROVE TypeOK'
  BY <1>13 DEF ReleaseMouse, Served, LetGo
<1>14. ASSUME NEW c \in Clients, WindowDestroyed(c) PROVE TypeOK'
  BY <1>14 DEF WindowDestroyed, Served, LetGo
<1>15. ASSUME NEW c \in Clients, GrabBroken(c) PROVE TypeOK'
  BY <1>15 DEF GrabBroken, Served
<1>16. ASSUME NEW d \in Devices, AppTakes(d) PROVE TypeOK'
  BY <1>16 DEF AppTakes
<1>17. ASSUME NEW d \in Devices, AppReleases(d) PROVE TypeOK'
  BY <1>17 DEF AppReleases
<1>18. CASE UNCHANGED vars
  BY <1>18 DEF vars
<1> QED
  BY <1>1, <1>2, <1>3, <1>4, <1>5, <1>6, <1>7, <1>8, <1>9, <1>10, <1>11, <1>12, <1>13,
     <1>14, <1>15, <1>16, <1>17, <1>18
  DEF Next, GoesOn

\* A loop starts from nothing and ends in time.
LEMMA TriesStep == TypeOK /\ TriesInv /\ [Next]_vars => TriesInv'
<1> SUFFICES ASSUME TypeOK /\ TriesInv, [Next]_vars PROVE TriesInv'
  OBVIOUS
<1> USE Loops, GrabberAssumption DEF TypeOK, TriesInv, Device, boundVars, serverVars,
        callVars, grabberVars, Devices, Windows, Grabbing, Moving
<1>1. ASSUME NEW c \in Clients, GrabRoot(c) PROVE TriesInv'
  BY <1>1 DEF GrabRoot
<1>2. ASSUME NEW c \in Clients, GrabsKeyboard(c) PROVE TriesInv'
  BY <1>2 DEF GrabsKeyboard, Gets, Served
<1>3. ASSUME NEW c \in Clients, KeyboardRefused(c) PROVE TriesInv'
  <2>1. CASE LastTry(c)
    BY <1>3, <2>1 DEF KeyboardRefused
  <2>2. CASE ~LastTry(c)
    <3>1. tries[c] + 1 < retries
      BY <1>3, <2>2 DEF KeyboardRefused, LastTry
    <3> QED BY <1>3, <2>2, <3>1 DEF KeyboardRefused
  <2> QED BY <2>1, <2>2
<1>4. ASSUME NEW c \in Clients, GrabsMouse(c) PROVE TriesInv'
  BY <1>4 DEF GrabsMouse, Gets, Returns, FailedGrab, LetGo, Served
<1>5. ASSUME NEW c \in Clients, MouseRefused(c) PROVE TriesInv'
  <2>1. CASE LastTry(c)
    BY <1>5, <2>1 DEF MouseRefused, Returns
  <2>2. CASE ~LastTry(c)
    <3>1. tries[c] + 1 < retries
      BY <1>5, <2>2 DEF MouseRefused, LastTry
    <3> QED BY <1>5, <2>2, <3>1 DEF MouseRefused
  <2> QED BY <2>1, <2>2
<1>6. ASSUME NEW c \in Clients, MoveToWindow(c) PROVE TriesInv'
  BY <1>6 DEF MoveToWindow
<1>7. ASSUME NEW c \in Clients, AlreadyGrabbed(c) PROVE TriesInv'
  <2>1. pc[c] \in Moving /\ Moved(c)
    BY <1>7 DEF AlreadyGrabbed
  <2> QED BY <2>1 DEF Moved, Returns
<1>8. ASSUME NEW c \in Clients, GrabServer(c) PROVE TriesInv'
  BY <1>8 DEF GrabServer, KnownGrab, LetGo
<1>9. ASSUME NEW c \in Clients, MoveGets(c) PROVE TriesInv'
  <2>1. pc[c] \in Moving /\ Moved(c)
    BY <1>9 DEF MoveGets
  <2> QED BY <2>1 DEF Moved, Returns
<1>10. ASSUME NEW c \in Clients, MoveRefused(c) PROVE TriesInv'
  BY <1>10 DEF MoveRefused, Refused, Refuses
<1>11. ASSUME NEW c \in Clients, MoveFails(c) PROVE TriesInv'
  BY <1>11 DEF MoveFails, Refuses, Resume, UngrabServer
<1>12. ASSUME NEW c \in Clients, Release(c) PROVE TriesInv'
  BY <1>12 DEF Release, Served, LetGo
<1>13. ASSUME NEW c \in Clients, ReleaseMouse(c) PROVE TriesInv'
  BY <1>13 DEF ReleaseMouse, Served, LetGo
<1>14. ASSUME NEW c \in Clients, WindowDestroyed(c) PROVE TriesInv'
  BY <1>14 DEF WindowDestroyed, Served, LetGo
<1>15. ASSUME NEW c \in Clients, GrabBroken(c) PROVE TriesInv'
  BY <1>15 DEF GrabBroken, Served
<1>16. ASSUME NEW d \in Devices, AppTakes(d) PROVE TriesInv'
  BY <1>16 DEF AppTakes
<1>17. ASSUME NEW d \in Devices, AppReleases(d) PROVE TriesInv'
  BY <1>17 DEF AppReleases
<1>18. CASE UNCHANGED vars
  BY <1>18 DEF vars
<1> QED
  BY <1>1, <1>2, <1>3, <1>4, <1>5, <1>6, <1>7, <1>8, <1>9, <1>10, <1>11, <1>12, <1>13,
     <1>14, <1>15, <1>16, <1>17, <1>18
  DEF Next, GoesOn

\* What the server gives is noted, and what is forgotten is given back.
LEMMA KnownStep == TypeOK /\ OwnedIsKnown /\ [Next]_vars => OwnedIsKnown'
<1> SUFFICES ASSUME TypeOK /\ OwnedIsKnown, [Next]_vars PROVE OwnedIsKnown'
  OBVIOUS
<1> USE Loops, GrabberAssumption DEF TypeOK, OwnedIsKnown, Device, boundVars, serverVars,
        callVars, grabberVars, Devices, Windows, Grabbing, Moving
<1>1. ASSUME NEW c \in Clients, GrabRoot(c) PROVE OwnedIsKnown'
  BY <1>1 DEF GrabRoot
<1>2. ASSUME NEW c \in Clients, GrabsKeyboard(c) PROVE OwnedIsKnown'
  BY <1>2 DEF GrabsKeyboard, Gets, Served
<1>3. ASSUME NEW c \in Clients, KeyboardRefused(c) PROVE OwnedIsKnown'
  BY <1>3 DEF KeyboardRefused, Refused, Refuses, LastTry, Served
<1>4. ASSUME NEW c \in Clients, GrabsMouse(c) PROVE OwnedIsKnown'
  BY <1>4 DEF GrabsMouse, Gets, Returns, FailedGrab, LetGo, Served
<1>5. ASSUME NEW c \in Clients, MouseRefused(c) PROVE OwnedIsKnown'
  BY <1>5 DEF MouseRefused, Refused, Refuses, LastTry, Returns, FailedGrab, LetGo, Served
<1>6. ASSUME NEW c \in Clients, MoveToWindow(c) PROVE OwnedIsKnown'
  BY <1>6 DEF MoveToWindow
<1>7. ASSUME NEW c \in Clients, AlreadyGrabbed(c) PROVE OwnedIsKnown'
  BY <1>7 DEF AlreadyGrabbed, KnownGrab, Moved, Returns
<1>8. ASSUME NEW c \in Clients, GrabServer(c) PROVE OwnedIsKnown'
  BY <1>8 DEF GrabServer, KnownGrab, LetGo
<1>9. ASSUME NEW c \in Clients, MoveGets(c) PROVE OwnedIsKnown'
  BY <1>9 DEF MoveGets, Gets, UngrabServer, Moved, Returns
<1>10. ASSUME NEW c \in Clients, MoveRefused(c) PROVE OwnedIsKnown'
  BY <1>10 DEF MoveRefused, Refused, Refuses
<1>11. ASSUME NEW c \in Clients, MoveFails(c) PROVE OwnedIsKnown'
  BY <1>11 DEF MoveFails, Refuses, Resume, UngrabServer
<1>12. ASSUME NEW c \in Clients, Release(c) PROVE OwnedIsKnown'
  BY <1>12 DEF Release, Served, LetGo
<1>13. ASSUME NEW c \in Clients, ReleaseMouse(c) PROVE OwnedIsKnown'
  BY <1>13 DEF ReleaseMouse, Served, LetGo
<1>14. ASSUME NEW c \in Clients, WindowDestroyed(c) PROVE OwnedIsKnown'
  BY <1>14 DEF WindowDestroyed, Served, LetGo
<1>15. ASSUME NEW c \in Clients, GrabBroken(c) PROVE OwnedIsKnown'
  BY <1>15 DEF GrabBroken, Served
<1>16. ASSUME NEW d \in Devices, AppTakes(d) PROVE OwnedIsKnown'
  BY <1>16 DEF AppTakes
<1>17. ASSUME NEW d \in Devices, AppReleases(d) PROVE OwnedIsKnown'
  BY <1>17 DEF AppReleases
<1>18. CASE UNCHANGED vars
  BY <1>18 DEF vars
<1> QED
  BY <1>1, <1>2, <1>3, <1>4, <1>5, <1>6, <1>7, <1>8, <1>9, <1>10, <1>11, <1>12, <1>13,
     <1>14, <1>15, <1>16, <1>17, <1>18
  DEF Next, GoesOn

\* While one moves a grab, the server is its own.
LEMMA ServerStep == TypeOK /\ OwnedIsKnown /\ ServerInv /\ [Next]_vars => ServerInv'
<1> SUFFICES ASSUME TypeOK /\ OwnedIsKnown /\ ServerInv, [Next]_vars PROVE ServerInv'
  OBVIOUS
<1> USE Loops, GrabberAssumption DEF TypeOK, OwnedIsKnown, ServerInv, Device, boundVars,
        serverVars, callVars, grabberVars, Devices, Windows, Grabbing, Moving
<1>1. ASSUME NEW c \in Clients, GrabRoot(c) PROVE ServerInv'
  BY <1>1 DEF GrabRoot
<1>2. ASSUME NEW c \in Clients, GrabsKeyboard(c) PROVE ServerInv'
  BY <1>2 DEF GrabsKeyboard, Gets, Served
<1>3. ASSUME NEW c \in Clients, KeyboardRefused(c) PROVE ServerInv'
  BY <1>3 DEF KeyboardRefused, Refused, Refuses, LastTry, Served
<1>4. ASSUME NEW c \in Clients, GrabsMouse(c) PROVE ServerInv'
  BY <1>4 DEF GrabsMouse, Gets, Returns, FailedGrab, LetGo, Served
<1>5. ASSUME NEW c \in Clients, MouseRefused(c) PROVE ServerInv'
  BY <1>5 DEF MouseRefused, Refused, Refuses, LastTry, Returns, FailedGrab, LetGo, Served
<1>6. ASSUME NEW c \in Clients, MoveToWindow(c) PROVE ServerInv'
  BY <1>6 DEF MoveToWindow
<1>7. ASSUME NEW c \in Clients, AlreadyGrabbed(c) PROVE ServerInv'
  BY <1>7 DEF AlreadyGrabbed, KnownGrab, Moved, Returns
<1>8. ASSUME NEW c \in Clients, GrabServer(c) PROVE ServerInv'
  BY <1>8 DEF GrabServer, KnownGrab, LetGo
<1>9. ASSUME NEW c \in Clients, MoveGets(c) PROVE ServerInv'
  BY <1>9 DEF MoveGets, Gets, UngrabServer, Moved, Returns
<1>10. ASSUME NEW c \in Clients, MoveRefused(c) PROVE ServerInv'
  BY <1>10 DEF MoveRefused, Refused, Refuses
<1>11. ASSUME NEW c \in Clients, MoveFails(c) PROVE ServerInv'
  BY <1>11 DEF MoveFails, Refuses, Resume, UngrabServer
<1>12. ASSUME NEW c \in Clients, Release(c) PROVE ServerInv'
  BY <1>12 DEF Release, Served, LetGo
<1>13. ASSUME NEW c \in Clients, ReleaseMouse(c) PROVE ServerInv'
  BY <1>13 DEF ReleaseMouse, Served, LetGo
<1>14. ASSUME NEW c \in Clients, WindowDestroyed(c) PROVE ServerInv'
  BY <1>14 DEF WindowDestroyed, Served, LetGo
<1>15. ASSUME NEW c \in Clients, GrabBroken(c) PROVE ServerInv'
  BY <1>15 DEF GrabBroken, Served
<1>16. ASSUME NEW d \in Devices, AppTakes(d) PROVE ServerInv'
  BY <1>16 DEF AppTakes
<1>17. ASSUME NEW d \in Devices, AppReleases(d) PROVE ServerInv'
  BY <1>17 DEF AppReleases
<1>18. CASE UNCHANGED vars
  BY <1>18 DEF vars
<1> QED
  BY <1>1, <1>2, <1>3, <1>4, <1>5, <1>6, <1>7, <1>8, <1>9, <1>10, <1>11, <1>12, <1>13,
     <1>14, <1>15, <1>16, <1>17, <1>18
  DEF Next, GoesOn

\* Nobody interferes with what a call has got so far.
LEMMA CallStep == TypeOK /\ OwnedIsKnown /\ ServerInv /\ CallInv /\ [Next]_vars => CallInv'
<1> SUFFICES ASSUME TypeOK /\ OwnedIsKnown /\ ServerInv /\ CallInv, [Next]_vars
             PROVE  CallInv'
  OBVIOUS
<1> USE Loops, GrabberAssumption DEF TypeOK, OwnedIsKnown, ServerInv, CallInv, Device,
        boundVars, serverVars, callVars, grabberVars, Devices, Windows, Grabbing, Moving
<1>1. ASSUME NEW c \in Clients, GrabRoot(c) PROVE CallInv'
  BY <1>1 DEF GrabRoot
<1>2. ASSUME NEW c \in Clients, GrabsKeyboard(c) PROVE CallInv'
  BY <1>2 DEF GrabsKeyboard, Gets, Served
<1>3. ASSUME NEW c \in Clients, KeyboardRefused(c) PROVE CallInv'
  BY <1>3 DEF KeyboardRefused, Refused, Refuses, LastTry, Served
<1>4. ASSUME NEW c \in Clients, GrabsMouse(c) PROVE CallInv'
  BY <1>4 DEF GrabsMouse, Gets, Returns, FailedGrab, LetGo, Served
<1>5. ASSUME NEW c \in Clients, MouseRefused(c) PROVE CallInv'
  BY <1>5 DEF MouseRefused, Refused, Refuses, LastTry, Returns, FailedGrab, LetGo, Served
<1>6. ASSUME NEW c \in Clients, MoveToWindow(c) PROVE CallInv'
  BY <1>6 DEF MoveToWindow
<1>7. ASSUME NEW c \in Clients, AlreadyGrabbed(c) PROVE CallInv'
  BY <1>7 DEF AlreadyGrabbed, KnownGrab, Moved, Returns
<1>8. ASSUME NEW c \in Clients, GrabServer(c) PROVE CallInv'
  BY <1>8 DEF GrabServer, KnownGrab, LetGo
<1>9. ASSUME NEW c \in Clients, MoveGets(c) PROVE CallInv'
  BY <1>9 DEF MoveGets, Gets, UngrabServer, Moved, Returns
<1>10. ASSUME NEW c \in Clients, MoveRefused(c) PROVE CallInv'
  BY <1>10 DEF MoveRefused, Refused, Refuses
<1>11. ASSUME NEW c \in Clients, MoveFails(c) PROVE CallInv'
  BY <1>11 DEF MoveFails, Refuses, Resume, UngrabServer
<1>12. ASSUME NEW c \in Clients, Release(c) PROVE CallInv'
  BY <1>12 DEF Release, Served, LetGo
<1>13. ASSUME NEW c \in Clients, ReleaseMouse(c) PROVE CallInv'
  BY <1>13 DEF ReleaseMouse, Served, LetGo
<1>14. ASSUME NEW c \in Clients, WindowDestroyed(c) PROVE CallInv'
  BY <1>14 DEF WindowDestroyed, Served, LetGo
<1>15. ASSUME NEW c \in Clients, GrabBroken(c) PROVE CallInv'
  BY <1>15 DEF GrabBroken, Served
<1>16. ASSUME NEW d \in Devices, AppTakes(d) PROVE CallInv'
  BY <1>16 DEF AppTakes
<1>17. ASSUME NEW d \in Devices, AppReleases(d) PROVE CallInv'
  BY <1>17 DEF AppReleases
<1>18. CASE UNCHANGED vars
  BY <1>18 DEF vars
<1> QED
  BY <1>1, <1>2, <1>3, <1>4, <1>5, <1>6, <1>7, <1>8, <1>9, <1>10, <1>11, <1>12, <1>13,
     <1>14, <1>15, <1>16, <1>17, <1>18
  DEF Next, GoesOn

\* The keyboard is taken first and given back last.
LEMMA PointerStep ==
  TypeOK /\ OwnedIsKnown /\ ServerInv /\ CallInv /\ PointerInv /\ [Next]_vars => PointerInv'
<1> SUFFICES ASSUME TypeOK /\ OwnedIsKnown /\ ServerInv /\ CallInv /\ PointerInv, [Next]_vars
             PROVE  PointerInv'
  OBVIOUS
<1> USE Loops, GrabberAssumption DEF TypeOK, OwnedIsKnown, ServerInv, CallInv, PointerInv,
        Device, boundVars, serverVars, callVars, grabberVars, Devices, Windows, Grabbing,
        Moving
<1>1. ASSUME NEW c \in Clients, GrabRoot(c) PROVE PointerInv'
  BY <1>1 DEF GrabRoot
<1>2. ASSUME NEW c \in Clients, GrabsKeyboard(c) PROVE PointerInv'
  BY <1>2 DEF GrabsKeyboard, Gets, Served
<1>3. ASSUME NEW c \in Clients, KeyboardRefused(c) PROVE PointerInv'
  BY <1>3 DEF KeyboardRefused, Refused, Refuses, LastTry, Served
<1>4. ASSUME NEW c \in Clients, GrabsMouse(c) PROVE PointerInv'
  BY <1>4 DEF GrabsMouse, Gets, Returns, FailedGrab, LetGo, Served
<1>5. ASSUME NEW c \in Clients, MouseRefused(c) PROVE PointerInv'
  BY <1>5 DEF MouseRefused, Refused, Refuses, LastTry, Returns, FailedGrab, LetGo, Served
<1>6. ASSUME NEW c \in Clients, MoveToWindow(c) PROVE PointerInv'
  BY <1>6 DEF MoveToWindow
<1>7. ASSUME NEW c \in Clients, AlreadyGrabbed(c) PROVE PointerInv'
  BY <1>7 DEF AlreadyGrabbed, KnownGrab, Moved, Returns
<1>8. ASSUME NEW c \in Clients, GrabServer(c) PROVE PointerInv'
  BY <1>8 DEF GrabServer, KnownGrab, LetGo
<1>9. ASSUME NEW c \in Clients, MoveGets(c) PROVE PointerInv'
  BY <1>9 DEF MoveGets, Gets, UngrabServer, Moved, Returns
<1>10. ASSUME NEW c \in Clients, MoveRefused(c) PROVE PointerInv'
  BY <1>10 DEF MoveRefused, Refused, Refuses
<1>11. ASSUME NEW c \in Clients, MoveFails(c) PROVE PointerInv'
  BY <1>11 DEF MoveFails, Refuses, Resume, UngrabServer
<1>12. ASSUME NEW c \in Clients, Release(c) PROVE PointerInv'
  BY <1>12 DEF Release, Served, LetGo
<1>13. ASSUME NEW c \in Clients, ReleaseMouse(c) PROVE PointerInv'
  BY <1>13 DEF ReleaseMouse, Served, LetGo
<1>14. ASSUME NEW c \in Clients, WindowDestroyed(c) PROVE PointerInv'
  BY <1>14 DEF WindowDestroyed, Served, LetGo
<1>15. ASSUME NEW c \in Clients, GrabBroken(c) PROVE PointerInv'
  BY <1>15 DEF GrabBroken, Served
<1>16. ASSUME NEW d \in Devices, AppTakes(d) PROVE PointerInv'
  BY <1>16 DEF AppTakes
<1>17. ASSUME NEW d \in Devices, AppReleases(d) PROVE PointerInv'
  BY <1>17 DEF AppReleases
<1>18. CASE UNCHANGED vars
  BY <1>18 DEF vars
<1> QED
  BY <1>1, <1>2, <1>3, <1>4, <1>5, <1>6, <1>7, <1>8, <1>9, <1>10, <1>11, <1>12, <1>13,
     <1>14, <1>15, <1>16, <1>17, <1>18
  DEF Next, GoesOn

\* The first state.
LEMMA InitInv == Init => IInv
<1> SUFFICES ASSUME Init PROVE IInv
  OBVIOUS
<1> USE GrabberAssumption DEF Init, Devices, Windows, Grabbing, Moving
<1>1. TypeOK /\ TriesInv
  BY DEF TypeOK, TriesInv
<1>2. ServerInv /\ OwnedIsKnown
  BY DEF ServerInv, OwnedIsKnown, Device
<1>3. CallInv /\ PointerInv
  BY DEF CallInv, PointerInv
<1> QED
  BY <1>1, <1>2, <1>3 DEF IInv

\* Every step.
LEMMA StepInv == IInv /\ [Next]_vars => IInv'
  BY TypeStep, TriesStep, KnownStep, ServerStep, CallStep, PointerStep DEF IInv

\* So it always holds.
LEMMA SpecInv == Spec => []IInv
<1> QED BY InitInv, StepInv, PTL DEF Spec

-----------------------------------------------------------------------------
(* The theorems. *)

\* Every variable keeps its type, whatever the requests and their order.
THEOREM TypeCorrect == Spec => []TypeOK
<1>1. IInv => TypeOK
  BY DEF IInv
<1> QED BY <1>1, SpecInv, PTL

\* No two processes that move a grab wait for each other's device: the keyboard comes first.
THEOREM NeverDeadlocks == Spec => []NoCircularWait
<1>1. ASSUME IInv PROVE NoCircularWait
  <2> SUFFICES ASSUME NEW b \in Clients, NEW c \in Clients,
                      NEW d \in Devices, NEW e \in Devices,
                      b # c, WaitsFor(b, c, d), WaitsFor(c, b, e)
               PROVE  FALSE
    BY DEF NoCircularWait
  <2> USE <1>1, GrabberAssumption DEF IInv, Devices, Moving, Device, WaitsFor
  <2>1. d # e
    OBVIOUS
  <2>2. CASE d = "keyboard"
    BY <2>1, <2>2 DEF TypeOK, CallInv, PointerInv, Grabbing, KnownGrab
  <2>3. CASE e = "keyboard"
    BY <2>1, <2>3 DEF TypeOK, CallInv, PointerInv, Grabbing, KnownGrab
  <2> QED BY <2>1, <2>2, <2>3
<1> QED BY <1>1, SpecInv, PTL

-----------------------------------------------------------------------------
(* The promise. *)

InMove == {c \in Clients : pc[c] \in Moving}

\* A step that changes nothing but what c knows of its grab.
LEMMA NoticeStep ==
  ASSUME NEW c \in Clients,
         \A d \in Devices : Holder(d)' = Holder(d),
         InMove' = InMove,
         Broken' \in {Broken, Broken \ {c}}
  PROVE  [Promise!Next]_(Promise!vars)
  BY DEF Promise!Next, Promise!vars, Promise!Notice, InMove

\* A step by which c takes a device for its move.
LEMMA TakeStep ==
  ASSUME NEW c \in Clients, NEW d \in Devices, c \in InMove, Holder(d) = None,
         d = "mouse" => Holder("keyboard") = c \/ c \in Broken,
         \A e \in Devices : Holder(e)' = IF e = d THEN c ELSE Holder(e),
         InMove' = IF d = "mouse" THEN InMove \ {c} ELSE InMove,
         Broken' \in {Broken, Broken \ {c}}
  PROVE  [Promise!Next]_(Promise!vars)
  <1>1. Promise!Take(c, d)
    BY DEF Promise!Take, InMove, Devices
  <1> QED BY <1>1 DEF Promise!Next, Devices, Promise!Devices

\* A step by which a move of c ends.
LEMMA EndMoveStep ==
  ASSUME NEW c \in Clients, c \in InMove, Holder("mouse") = c,
         Holder("keyboard") = c \/ c \in Broken,
         \A d \in Devices : Holder(d)' = Holder(d),
         InMove' = InMove \ {c},
         Broken' \in {Broken, Broken \ {c}}
  PROVE  [Promise!Next]_(Promise!vars)
  <1>1. Promise!EndMove(c)
    BY DEF Promise!EndMove, InMove, Devices
  <1> QED BY <1>1 DEF Promise!Next

\* A step by which c lets go of what it has.
LEMMA ReleaseStep ==
  ASSUME NEW c \in Clients, c \notin InMove,
         \A d \in Devices : Holder(d)' = IF Holder(d) = c THEN None ELSE Holder(d),
         InMove' = InMove,
         Broken' \in {Broken, Broken \ {c}}
  PROVE  [Promise!Next]_(Promise!vars)
  <1>1. Promise!Release(c)
    BY DEF Promise!Release, Promise!Freed, Promise!Devices, InMove, Devices
  <1> QED BY <1>1 DEF Promise!Next

\* Every step is one of the promise, or none.
LEMMA PromiseStep == IInv /\ [Next]_vars => [Promise!Next]_(Promise!vars)
<1> SUFFICES ASSUME IInv, [Next]_vars PROVE [Promise!Next]_(Promise!vars)
  OBVIOUS
<1> USE Loops, GrabberAssumption DEF IInv, TypeOK, Device, Holder, Broken, InMove,
        boundVars, serverVars, callVars, grabberVars, Devices, Windows, Grabbing, Moving
<1>1. ASSUME NEW c \in Clients, GrabRoot(c) PROVE [Promise!Next]_(Promise!vars)
  <2> USE <1>1 DEF GrabRoot
  <2>1. serverGrab # c
    BY DEF ServerInv
  <2>2. \A d \in Devices : Holder(d)' = IF Holder(d) = c THEN None ELSE Holder(d)
    BY <2>1 DEF ServerInv
  <2>3. Broken' = Broken /\ InMove' = InMove /\ c \notin InMove
    OBVIOUS
  <2> HIDE <1>1 DEF GrabRoot, Holder, Broken, InMove
  <2> QED BY <2>2, <2>3, ReleaseStep
<1>2. ASSUME NEW c \in Clients, GrabsKeyboard(c) PROVE [Promise!Next]_(Promise!vars)
  <2> USE <1>2 DEF GrabsKeyboard, Gets, Served
  <2>1. serverGrab = None
    BY DEF ServerInv
  <2>2. \A d \in Devices : Holder(d)' = Holder(d)
    BY <2>1
  <2>3. Broken' \in {Broken, Broken \ {c}}
    OBVIOUS
  <2>4. InMove' = InMove
    OBVIOUS
  <2> HIDE <1>2 DEF GrabsKeyboard, Holder, Broken, InMove
  <2> QED BY <2>2, <2>3, <2>4, NoticeStep
<1>3. ASSUME NEW c \in Clients, KeyboardRefused(c) PROVE [Promise!Next]_(Promise!vars)
  <2> USE <1>3 DEF KeyboardRefused, Refused, Served
  <2>1. serverGrab = None
    BY DEF ServerInv
  <2>2. UNCHANGED <<owner, grab_window, serverGrab, old_window>>
    OBVIOUS
  <2>3. \A b \in Clients : pc'[b] \in Grabbing <=> pc[b] \in Grabbing
    OBVIOUS
  <2>4. InMove' = InMove
    OBVIOUS
  <2>5. \A d \in Devices : Holder(d)' = Holder(d)
    BY <2>1, <2>2, <2>3
  <2>6. Broken' = Broken
    BY <2>2
  <2> HIDE <1>3 DEF KeyboardRefused, Holder, Broken, InMove
  <2> QED BY <2>4, <2>5, <2>6, NoticeStep
<1>4. ASSUME NEW c \in Clients, GrabsMouse(c) PROVE [Promise!Next]_(Promise!vars)
  <2> USE <1>4 DEF GrabsMouse, Gets, Returns, FailedGrab, LetGo, Served
  <2>1. serverGrab = None
    BY DEF ServerInv
  <2>2. InMove' = InMove
    OBVIOUS
  <2>3. CASE kstatus[c]
    <3>1. \A d \in Devices : Holder(d) = None \/ Holder(d) = c
      BY <2>1, <2>3 DEF CallInv
    <3>2. \A d \in Devices : Holder(d)' = c
      BY <2>1, <2>3 DEF CallInv
    <3>3. Broken' = Broken \ {c}
      BY <2>3 DEF CallInv
    <3>4. Promise!Grant(c)
      BY <2>2, <3>1, <3>2, <3>3 DEF Promise!Grant, Promise!Devices
    <3> QED BY <3>4 DEF Promise!Next
  <2>4. CASE ~kstatus[c]
    <3>1. \A d \in Devices : Holder(d)' = Holder(d)
      BY <2>1, <2>4 DEF CallInv
    <3>2. Broken' \in {Broken, Broken \ {c}}
      BY <2>4, SMTT(60) DEF CallInv
    <3> HIDE <1>4 DEF GrabsMouse, Holder, Broken, InMove
    <3> QED BY <2>2, <3>1, <3>2, NoticeStep
  <2> QED BY <2>3, <2>4
<1>5. ASSUME NEW c \in Clients, MouseRefused(c) PROVE [Promise!Next]_(Promise!vars)
  <2> USE <1>5 DEF MouseRefused, Refused, Refuses, Returns, FailedGrab, LetGo, Served
  <2>1. serverGrab = None
    BY DEF ServerInv
  <2>2. InMove' = InMove
    OBVIOUS
  <2>3. \A d \in Devices : Holder(d)' = Holder(d)
    BY <2>1 DEF CallInv
  <2>4. Broken' \in {Broken, Broken \ {c}}
    BY DEF CallInv
  <2> HIDE <1>5 DEF MouseRefused, Holder, Broken, InMove
  <2> QED BY <2>2, <2>3, <2>4, NoticeStep
<1>6. ASSUME NEW c \in Clients, MoveToWindow(c) PROVE [Promise!Next]_(Promise!vars)
  <2> USE <1>6 DEF MoveToWindow
  <2>1. serverGrab # c
    BY DEF ServerInv
  <2>2. \A d \in Devices : Holder(d)' = Holder(d)
    BY <2>1 DEF ServerInv
  <2>3. Broken' = Broken
    OBVIOUS
  <2>4. InMove' = InMove \cup {c}
    OBVIOUS
  <2>5. Promise!BeginMove(c)
    BY <2>2, <2>3, <2>4 DEF Promise!BeginMove
  <2> QED BY <2>5 DEF Promise!Next
<1>7. ASSUME NEW c \in Clients, AlreadyGrabbed(c) PROVE [Promise!Next]_(Promise!vars)
  <2> USE <1>7 DEF AlreadyGrabbed, KnownGrab, Moved, Returns
  <2>1. Broken' = Broken
    OBVIOUS
  <2>2. \A d \in Devices : Holder(d)' = Holder(d)
    BY DEF ServerInv
  <2>3. CASE pc[c] = "moveKeyboard"
    <3>1. InMove' = InMove
      BY <2>3
    <3> HIDE <1>7 DEF AlreadyGrabbed, Holder, Broken, InMove
    <3> QED BY <2>1, <2>2, <3>1, NoticeStep
  <2>4. CASE pc[c] = "moveMouse"
    <3>1. InMove' = InMove \ {c} /\ c \in InMove
      BY <2>4
    <3>2. Holder("mouse") = c
      BY <2>4 DEF CallInv
    <3>3. Holder("keyboard") = c \/ c \in Broken
      BY <2>4 DEF CallInv
    <3> HIDE <1>7 DEF AlreadyGrabbed, Holder, Broken, InMove
    <3> QED BY <2>1, <2>2, <3>1, <3>2, <3>3, EndMoveStep
  <2> QED BY <2>3, <2>4
<1>8. ASSUME NEW c \in Clients, GrabServer(c) PROVE [Promise!Next]_(Promise!vars)
  <2> USE <1>8 DEF GrabServer, KnownGrab, LetGo
  <2>1. InMove' = InMove /\ c \in InMove
    OBVIOUS
  <2>2. Broken' \in {Broken, Broken \ {c}}
    OBVIOUS
  <2>3. CASE \A d \in Devices : Holder(d)' = Holder(d)
    <3> HIDE <1>8 DEF GrabServer, Holder, Broken, InMove
    <3> QED BY <2>1, <2>2, <2>3, NoticeStep
  <2>4. CASE ~ \A d \in Devices : Holder(d)' = Holder(d)
    <3>1. pc[c] = "moveKeyboard" /\ owner["keyboard"] = None
      BY <2>4 DEF OwnedIsKnown
    <3>2. Holder("keyboard") = None
      BY <3>1
    <3>3. \A d \in Devices : Holder(d)' = IF d = "keyboard" THEN c ELSE Holder(d)
      BY <2>4, <3>1 DEF OwnedIsKnown
    <3> HIDE <1>8 DEF GrabServer, Holder, Broken, InMove
    <3> QED BY <2>1, <2>2, <3>2, <3>3, TakeStep
  <2> QED BY <2>3, <2>4
<1>9. ASSUME NEW c \in Clients, MoveGets(c) PROVE [Promise!Next]_(Promise!vars)
  <2> USE <1>9 DEF MoveGets, Gets, UngrabServer, Moved, Returns
  <2>1. owner[Device(c)] = None
    BY DEF ServerInv
  <2>2. Broken' \in {Broken, Broken \ {c}}
    OBVIOUS
  <2>3. \A d \in Devices : Holder(d)' = IF d = Device(c) THEN c ELSE Holder(d)
    BY <2>1
  <2>4. Holder(Device(c)) \in {None, c} /\ c \in InMove
    BY <2>1
  <2>5. CASE pc[c] = "moveKeyboard"
    <3>1. InMove' = InMove
      BY <2>5
    <3>2. Device(c) = "keyboard"
      BY <2>5
    <3> HIDE <1>9 DEF MoveGets, Holder, Broken, InMove, Device
    <3> QED BY <2>2, <2>3, <2>4, <3>1, <3>2, NoticeStep, TakeStep
  <2>6. CASE pc[c] = "moveMouse"
    <3>1. InMove' = InMove \ {c}
      BY <2>6
    <3>2. Device(c) = "mouse"
      BY <2>6
    <3>3. Holder("keyboard") = c \/ c \in Broken
      BY <2>6, <3>2 DEF CallInv
    <3> HIDE <1>9 DEF MoveGets, Holder, Broken, InMove, Device
    <3> QED BY <2>2, <2>3, <2>4, <3>1, <3>2, <3>3, EndMoveStep, TakeStep
  <2> QED BY <2>5, <2>6
<1>10. ASSUME NEW c \in Clients, MoveRefused(c) PROVE [Promise!Next]_(Promise!vars)
  <2> USE <1>10 DEF MoveRefused, Refused
  <2>1. UNCHANGED <<owner, grab_window, serverGrab, pc, old_window>>
    OBVIOUS
  <2> QED BY <2>1 DEF Promise!vars
<1>11. ASSUME NEW c \in Clients, MoveFails(c) PROVE [Promise!Next]_(Promise!vars)
  <2> USE <1>11 DEF MoveFails, Resume, UngrabServer
  <2>1. owner[Device(c)] # c /\ grab_window[c][Device(c)] = None
    BY DEF ServerInv
  <2>2. \A d \in Devices : Holder(d)' = Holder(d)
    BY <2>1
  <2>3. Broken' = Broken
    BY <2>1
  <2>4. InMove' = InMove
    OBVIOUS
  <2> HIDE <1>11 DEF MoveFails, Holder, Broken, InMove
  <2> QED BY <2>2, <2>3, <2>4, NoticeStep
<1>12. ASSUME NEW c \in Clients, Release(c) PROVE [Promise!Next]_(Promise!vars)
  <2> USE <1>12 DEF Release, LetGo, Served
  <2>1. \A d \in Devices : Holder(d)' = IF Holder(d) = c THEN None ELSE Holder(d)
    BY DEF ServerInv
  <2>2. Broken' \in {Broken, Broken \ {c}}
    OBVIOUS
  <2>3. InMove' = InMove /\ c \notin InMove
    OBVIOUS
  <2> HIDE <1>12 DEF Release, Holder, Broken, InMove
  <2> QED BY <2>1, <2>2, <2>3, ReleaseStep
<1>13. ASSUME NEW c \in Clients, ReleaseMouse(c) PROVE [Promise!Next]_(Promise!vars)
  <2> USE <1>13 DEF ReleaseMouse, LetGo, Served
  <2>1. serverGrab = None
    BY DEF ServerInv
  <2>2. Broken' \in {Broken, Broken \ {c}}
    OBVIOUS
  <2>3. InMove' = InMove
    OBVIOUS
  <2>4. CASE owner["mouse"] = c
    <3>1. Holder("mouse") = c /\ Holder("mouse")' = None
      BY <2>1, <2>4
    <3>2. Holder("keyboard")' = Holder("keyboard")
      BY <2>1
    <3>3. Promise!ReleaseMouse(c)
      BY <2>2, <2>3, <3>1, <3>2, ZenonT(60) DEF Promise!ReleaseMouse
    <3> QED BY <3>3 DEF Promise!Next
  <2>5. CASE owner["mouse"] # c
    <3>1. \A d \in Devices : Holder(d)' = Holder(d)
      BY <2>1, <2>5
    <3> HIDE <1>13 DEF ReleaseMouse, Holder, Broken, InMove
    <3> QED BY <2>2, <2>3, <3>1, NoticeStep
  <2> QED BY <2>4, <2>5
<1>14. ASSUME NEW c \in Clients, WindowDestroyed(c) PROVE [Promise!Next]_(Promise!vars)
  <2> USE <1>14 DEF WindowDestroyed, LetGo, Served
  <2>1. serverGrab = None
    BY DEF ServerInv
  <2>2. Broken' \in {Broken, Broken \ {c}}
    OBVIOUS
  <2>3. InMove' = InMove /\ c \notin InMove
    OBVIOUS
  <2>4. CASE \A d \in Devices : owner[d] = c => grab_window[c][d] = "own"
    <3>1. \A d \in Devices : Holder(d)' = IF Holder(d) = c THEN None ELSE Holder(d)
      BY <2>1, <2>4
    <3> HIDE <1>14 DEF WindowDestroyed, Holder, Broken, InMove
    <3> QED BY <2>2, <2>3, <3>1, ReleaseStep
  <2>5. CASE \A d \in Devices : owner[d] = c => grab_window[c][d] # "own"
    <3>1. \A d \in Devices : Holder(d)' = Holder(d)
      BY <2>1, <2>5
    <3> HIDE <1>14 DEF WindowDestroyed, Holder, Broken, InMove
    <3> QED BY <2>2, <2>3, <3>1, NoticeStep
  <2> QED BY <2>4, <2>5 DEF PointerInv
<1>15. ASSUME NEW c \in Clients, GrabBroken(c) PROVE [Promise!Next]_(Promise!vars)
  <2> USE <1>15 DEF GrabBroken, Served
  <2>1. serverGrab = None
    BY DEF ServerInv
  <2>2. \A d \in Devices : Holder(d)' = IF Holder(d) = c THEN None ELSE Holder(d)
    BY <2>1
  <2>3. \E d \in Devices : Holder(d) = c
    BY <2>1
  <2>4. Broken' = Broken \cup {c}
    BY DEF OwnedIsKnown
  <2>5. InMove' = InMove
    OBVIOUS
  <2>6. Promise!Break(c)
    BY <2>2, <2>3, <2>4, <2>5 DEF Promise!Break, Promise!Freed, Promise!Devices
  <2> QED BY <2>6 DEF Promise!Next
<1>16. ASSUME NEW d \in Devices, AppTakes(d) PROVE [Promise!Next]_(Promise!vars)
  <2> USE <1>16 DEF AppTakes
  <2>1. Holder(d) = None /\ Holder(d)' = App
    OBVIOUS
  <2>2. \A e \in Devices \ {d} : Holder(e)' = Holder(e)
    OBVIOUS
  <2>3. Broken' = Broken /\ InMove' = InMove
    OBVIOUS
  <2> HIDE <1>16 DEF AppTakes, Holder, Broken
  <2>4. Promise!AppTakes(d)
    BY <2>1, <2>2, <2>3 DEF Promise!AppTakes
  <2> QED BY <2>4 DEF Promise!Next, Promise!Devices
<1>17. ASSUME NEW d \in Devices, AppReleases(d) PROVE [Promise!Next]_(Promise!vars)
  <2> USE <1>17 DEF AppReleases
  <2>1. Holder(d) = App /\ Holder(d)' = None
    OBVIOUS
  <2>2. \A e \in Devices \ {d} : Holder(e)' = Holder(e)
    OBVIOUS
  <2>3. Broken' = Broken /\ InMove' = InMove
    OBVIOUS
  <2> HIDE <1>17 DEF AppReleases, Holder, Broken
  <2>4. Promise!AppReleases(d)
    BY <2>1, <2>2, <2>3 DEF Promise!AppReleases
  <2> QED BY <2>4 DEF Promise!Next, Promise!Devices
<1>18. CASE UNCHANGED vars
  BY <1>18 DEF vars, Promise!vars
<1> QED
  BY <1>1, <1>2, <1>3, <1>4, <1>5, <1>6, <1>7, <1>8, <1>9, <1>10, <1>11, <1>12, <1>13,
     <1>14, <1>15, <1>16, <1>17, <1>18
  DEF Next, GoesOn

\* What the grabbers ask of the server, request by request, amounts to the promise, whatever
\* the number of processes: both devices or none for a grab, and nobody in between a move.
THEOREM KeepsThePromise == Spec => KeepsPromise
<1>1. Init => Promise!Init
  BY GrabberAssumption
  DEF Init, Promise!Init, Promise!Devices, Holder, Broken, Device, Devices, Grabbing, Moving
<1>2. QED
  BY <1>1, PromiseStep, SpecInv, PTL DEF Spec, KeepsPromise, Promise!Spec
=============================================================================
