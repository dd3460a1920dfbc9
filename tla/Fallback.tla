------------------------------- MODULE Fallback -------------------------------
(***************************************************************************)
(* What the fallback window promises a locked session.  It covers for the  *)
(* screensaver only when the last window it was told of is gone, or has    *)
(* been taken for gone by mistake.  Then it has the input or is about to   *)
(* try for it, and does not rest before it has, until it is told of        *)
(* another window, and lets go.  It takes the input from nobody.           *)
(***************************************************************************)
CONSTANTS
  Xids,   \* windows of the screensaver
  First   \* the one the fallback is started for

VARIABLES
  present,  \* the windows of the screensaver that are there
  fresh,    \* those that have never been
  known,    \* the last one the fallback was told of
  doubted,  \* those that were there when they were taken for gone
  life,
  covers,   \* for the known window
  tries,    \* an attempt at the input is under way or coming
  input     \* who has it

saverVars == <<present, fresh>>
vars == <<saverVars, known, doubted, life, covers, tries, input>>

Init ==
  /\ present = {First} /\ fresh = Xids \ {First}
  /\ known = First /\ doubted = {}
  /\ life = "starting"
  /\ covers = FALSE /\ tries = FALSE
  /\ input = "saver"

LetGo(who) == input' = IF input = who THEN "free" ELSE input

-----------------------------------------------------------------------------
(* The screensaver and the applications. *)

Appear(w) ==
  /\ w \in fresh
  /\ present' = present \cup {w} /\ fresh' = fresh \ {w}
  /\ UNCHANGED <<known, doubted, life, covers, tries, input>>

\* Windows go, and maybe the grab on one of them.
Vanish ==
  /\ present' \in SUBSET present
  /\ UNCHANGED input \/ LetGo("saver")
  /\ UNCHANGED <<fresh, known, doubted, life, covers, tries>>

OthersGrab ==
  /\ input = "free"
  /\ input' \in {"saver", "app"}
  /\ input' = "saver" => present # {}
  /\ UNCHANGED <<saverVars, known, doubted, life, covers, tries>>

OthersRelease ==
  /\ input \in {"saver", "app"}
  /\ input' = "free"
  /\ UNCHANGED <<saverVars, known, doubted, life, covers, tries>>

-----------------------------------------------------------------------------
(* The fallback. *)

Begin ==
  /\ life = "starting" /\ life' = "running"
  /\ UNCHANGED <<saverVars, known, doubted, covers, tries, input>>

\* With the process its grab ends.
End ==
  /\ life # "dead" /\ life' = "dead"
  /\ LetGo("locker")
  /\ UNCHANGED <<saverVars, known, doubted, covers, tries>>

\* A window is taken for gone that is not.
Mistake(w) ==
  /\ life = "running"
  /\ w \in present
  /\ doubted' = doubted \cup {w}
  /\ UNCHANGED <<saverVars, known, life, covers, tries, input>>

\* The known window is gone.
TakeOver ==
  /\ life = "running" /\ ~covers
  /\ known \notin present \ doubted
  /\ covers' = TRUE /\ tries' = TRUE
  /\ UNCHANGED <<saverVars, known, doubted, life, input>>

\* It is told of another window.
GiveWay(w) ==
  /\ life = "running"
  /\ w \in present \ {known}
  /\ known' = w
  /\ covers' = FALSE
  /\ LetGo("locker")
  /\ UNCHANGED <<saverVars, doubted, life, tries>>

\* It gets the input, and may have heard of the loss of the one it had before.
Take ==
  /\ life = "running" /\ covers /\ tries
  /\ input = "free" /\ input' = "locker"
  /\ tries' \in BOOLEAN
  /\ UNCHANGED <<saverVars, known, doubted, life, covers>>

\* The input is taken from it, or let go of on the way to another window of its own.
Lose ==
  /\ input = "locker" /\ input' = "free"
  /\ tries' = TRUE
  /\ UNCHANGED <<saverVars, known, doubted, life, covers>>

\* It gives an attempt up only when it has nothing to cover.
Rest ==
  /\ ~covers
  /\ tries' = FALSE
  /\ UNCHANGED <<saverVars, known, doubted, life, covers, input>>

Next ==
  \/ Vanish \/ OthersGrab \/ OthersRelease
  \/ Begin \/ End \/ TakeOver \/ Take \/ Lose \/ Rest
  \/ \E w \in Xids : Appear(w) \/ Mistake(w) \/ GiveWay(w)

Spec == Init /\ [][Next]_vars
=============================================================================
