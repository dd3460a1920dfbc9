------------------------------ MODULE LockScreen ------------------------------
(***************************************************************************)
(* What the lock screen amounts to for whoever sits before it, or asks it  *)
(* over D-Bus: whether the screens are covered, whether the session is     *)
(* locked, whether a password is asked for and whose answers count.        *)
(*                                                                         *)
(* A locked session is uncovered by unlocking it, or for one of three      *)
(* reasons that may still stand when it has been locked: activity on a     *)
(* screen that asks for no password, a stage that could not be built, and  *)
(* a second refresh that is due after the first.  If constructing a stage  *)
(* may raise, a refresh uncovers it too, and what is left may neither be   *)
(* covered nor be left again.                                              *)
(***************************************************************************)
EXTENDS Sequences

CONSTANTS
  CanLock,        \* the user may lock the session
  SpawnMayRaise,  \* a screen may fail to get covered, at first or in a refresh
  BuildMayBreak,  \* the stage may fail to get built
  PamMayFail,     \* a helper may not get started
  HelperMayDie    \* a helper may end without an answer

VARIABLES
  covered, locked,
  asking,     \* the unlock dialog is raised
  listening,  \* to a helper
  answers,    \* of helpers, not yet acted upon
  dismissed,  \* activity is going to end the screensaver
  broken,     \* a stage that could not be built is going to
  stuck,      \* a refresh has begun where there was no stage, and does not end
  again       \* another refresh is due after the one under way

reasons == <<dismissed, broken, stuck, again>>
vars == <<covered, locked, asking, listening, answers, reasons>>

Answers == {"success", "failure", "cancel"}

Init ==
  /\ ~covered /\ ~locked
  /\ ~asking /\ ~listening /\ answers = <<>>
  /\ ~dismissed /\ ~broken /\ ~stuck /\ ~again

-----------------------------------------------------------------------------
MayBreak == broken' = broken \/ (BuildMayBreak /\ broken' = TRUE)

MayLock == locked' = locked \/ (CanLock /\ locked' = TRUE)

Show ==
  /\ ~covered
  /\ covered' = TRUE
  /\ MayLock /\ MayBreak
  /\ UNCHANGED <<asking, listening, answers, dismissed, stuck, again>>

\* A session is locked behind a covered screen.
Lock ==
  /\ CanLock
  /\ covered
  /\ locked' = TRUE
  /\ UNCHANGED <<covered, asking, listening, answers, reasons>>

\* The screen fails to get covered, and what was asked on it is forgotten with it; the
\* session may be locked all the same.
FailToShow ==
  /\ SpawnMayRaise
  /\ ~covered
  /\ answers' \in {answers, <<>>}
  /\ MayLock /\ MayBreak
  /\ UNCHANGED <<covered, asking, listening, dismissed, stuck, again>>

Ask ==
  /\ covered /\ locked
  /\ asking' = TRUE /\ listening' = TRUE
  /\ UNCHANGED <<covered, locked, answers, reasons>>

Lower == asking' = FALSE /\ listening' = FALSE

\* Nobody has answered; what a helper has said already still counts.
StopAsking ==
  /\ Lower
  /\ UNCHANGED <<covered, locked, answers, reasons>>

\* Activity where no password can be asked for.
Dismiss ==
  /\ covered
  /\ locked => PamMayFail /\ ~listening
  /\ dismissed' = TRUE
  /\ UNCHANGED <<covered, locked, asking, listening, answers, broken, stuck, again>>

\* A helper says only once that it is done, and only while it is listened to.
Answer(a) ==
  /\ listening
  /\ answers' = Append(answers, a)
  /\ listening' = (a = "failure")
  /\ UNCHANGED <<covered, locked, asking, reasons>>

LoseHelper ==
  /\ HelperMayDie /\ listening
  /\ listening' = FALSE
  /\ UNCHANGED <<covered, locked, asking, answers, reasons>>

\* An answer other than success is acted upon.
Rejected ==
  /\ answers # <<>> /\ Head(answers) = "failure"
  /\ answers' = Tail(answers)
  /\ UNCHANGED <<covered, locked, asking, listening, reasons>>

GivenUp ==
  /\ answers # <<>> /\ Head(answers) = "cancel"
  /\ answers' = Tail(answers)
  /\ Lower
  /\ UNCHANGED <<covered, locked, reasons>>

\* No answer to what was asked on a screen outlives it.
Uncover == covered' = FALSE /\ Lower /\ answers' = <<>>

\* Upon success, or because it is asked for.
Unlock ==
  /\ Uncover /\ locked' = FALSE
  /\ UNCHANGED reasons

\* A screen is left for a reason that stood, whether or not the session is locked.
LeaveDismissed ==
  /\ dismissed /\ dismissed' = FALSE
  /\ Uncover
  /\ UNCHANGED <<locked, broken, stuck, again>>

LeaveBroken ==
  /\ broken /\ broken' \in BOOLEAN
  /\ Uncover
  /\ UNCHANGED <<locked, dismissed, stuck, again>>

LeaveRefreshing ==
  /\ again /\ again' = FALSE /\ stuck' = FALSE
  /\ Uncover
  /\ MayBreak
  /\ UNCHANGED <<locked, dismissed>>

\* A new stage covers the screens; it asks if a locked session was covered before.
Refresh(asks) ==
  /\ ~again /\ stuck' = FALSE
  /\ asks => covered /\ locked
  /\ locked /\ covered /\ ~asks => PamMayFail
  /\ covered' = TRUE
  /\ asking' = asks /\ listening' = asks
  /\ answers' = <<>>
  /\ dismissed' = (dismissed \/ (covered /\ ~asks))
  /\ MayLock /\ MayBreak
  /\ UNCHANGED again

\* A new stage could not be had.  Nobody is asked any more, and who was may still be heard.
FailToRefresh ==
  /\ SpawnMayRaise
  /\ covered' = FALSE
  /\ Lower
  /\ UNCHANGED stuck \/ stuck' = TRUE
  /\ UNCHANGED <<locked, answers, dismissed, broken, again>>

\* What a failed refresh led to cannot be left: the reason for it comes to nothing.
FailToLeave ==
  /\ SpawnMayRaise
  /\ UNCHANGED dismissed \/ dismissed' = FALSE
  /\ UNCHANGED broken \/ broken' = FALSE
  /\ UNCHANGED <<covered, locked, asking, listening, answers, stuck, again>>

\* A refresh where there is no stage gets stuck, and those after it are put off.
GetStuck ==
  /\ ~covered \/ SpawnMayRaise
  /\ stuck' = TRUE
  /\ UNCHANGED <<covered, locked, asking, listening, answers, dismissed, broken, again>>

PutOff ==
  /\ stuck
  /\ again' = TRUE
  /\ UNCHANGED <<covered, locked, asking, listening, answers, dismissed, broken, stuck>>

-----------------------------------------------------------------------------
Next ==
  \/ Show \/ FailToShow \/ Lock \/ Unlock
  \/ Ask \/ StopAsking \/ Dismiss \/ LoseHelper
  \/ \E a \in Answers : Answer(a)
  \/ Rejected \/ GivenUp
  \/ LeaveDismissed \/ LeaveBroken \/ LeaveRefreshing
  \/ Refresh(TRUE) \/ Refresh(FALSE) \/ FailToRefresh
  \/ FailToLeave \/ GetStuck \/ PutOff

Spec == Init /\ [][Next]_vars
=============================================================================
