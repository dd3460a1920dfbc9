---------------------------- MODULE Authenticator ----------------------------
(***************************************************************************)
(* What the authentication of one dialog promises, whichever processes and *)
(* pipes that takes.  The dialog talks to one helper at a time.  A helper  *)
(* answers at most MAX_FAILURES passwords, not before it has one, and is   *)
(* over with its last answer; it says success only if it was handed the    *)
(* right password while the dialog talked to it, or could not get ready.   *)
(* Its answers reach the dialog in their order, each once; those of the    *)
(* helper the dialog talks to are all written and kept.  Success unlocks,  *)
(* once, and nothing is asked or answered after it.                        *)
(***************************************************************************)
EXTENDS Naturals, Sequences

CONSTANTS
  Helpers,        \* the helpers that may be started
  None,           \* no helper
  MAX_FAILURES,   \* rejections after which a helper is over
  StartMayFail,   \* a helper may not get started
  InitMayFail     \* a helper may not get ready

VARIABLES
  current,     \* the helper the dialog talks to
  hears,       \* answers are taken for those of the current helper
  life,        \* of each helper: not started, at work, or over
  holds,       \* of each helper: the best it has to answer
  rejections,  \* of each helper
  unread,      \* the answers of each helper that nobody has read
  news,        \* answers on their way to the dialog
  unlocked

dialogVars == <<current, hears, news, unlocked>>
helperVars == <<life, holds, rejections>>
vars == <<dialogVars, helperVars, unread>>

Init ==
  /\ current = None /\ hears = FALSE
  /\ life = [h \in Helpers |-> "new"]
  /\ holds = [h \in Helpers |-> "nothing"]
  /\ rejections = [h \in Helpers |-> 0]
  /\ unread = [h \in Helpers |-> <<>>]
  /\ news = <<>> /\ unlocked = FALSE

-----------------------------------------------------------------------------
(* The dialog. *)

Begin(h) ==
  /\ ~unlocked /\ current = None
  /\ life[h] = "new"
  /\ current' = h /\ hears' = TRUE
  /\ life' = [life EXCEPT ![h] = "works"]
  /\ UNCHANGED <<news, unlocked, holds, rejections, unread>>

\* No helper gets started; what an earlier one still answers is heard.
FailToBegin ==
  /\ StartMayFail
  /\ ~unlocked /\ current = None
  /\ hears' = TRUE
  /\ UNCHANGED <<current, news, unlocked, helperVars, unread>>

LetGo == current' = None /\ hears' = FALSE

Drop ==
  /\ LetGo
  /\ UNCHANGED <<news, unlocked, helperVars, unread>>

\* A password is handed to the current helper.
Hand(h, password) ==
  /\ ~unlocked /\ current = h
  /\ password = "right" \/ holds[h] # "right"
  /\ holds' = [holds EXCEPT ![h] = password]
  /\ UNCHANGED <<dialogVars, life, rejections, unread>>

Final(answers) == \E i \in DOMAIN answers : answers[i] \in {"success", "cancelled"}

\* All there is to read is read at once.
Hear(h) ==
  /\ hears
  /\ news' = news \o unread[h]
  /\ unread' = [unread EXCEPT ![h] = <<>>]
  /\ IF Final(unread[h]) THEN LetGo ELSE UNCHANGED <<current, hears>>
  /\ UNCHANGED <<unlocked, helperVars>>

\* What a helper that is not current had to say is thrown away.
Discard(h) ==
  /\ h # current
  /\ unread' = [unread EXCEPT ![h] = <<>>]
  /\ UNCHANGED <<dialogVars, helperVars>>

\* The dialog learns of a success.
Unlock ==
  /\ news # <<>> /\ Head(news) = "success"
  /\ unlocked' = TRUE /\ news' = <<>>
  /\ LetGo
  /\ UNCHANGED <<helperVars, unread>>

\* The dialog learns that a helper has given up, and lets go of the one it has.
Lower ==
  /\ news # <<>> /\ Head(news) = "cancelled"
  /\ news' = Tail(news)
  /\ LetGo
  /\ UNCHANGED <<unlocked, helperVars, unread>>

AskAgain ==
  /\ news # <<>> /\ Head(news) = "failure"
  /\ news' = Tail(news)
  /\ UNCHANGED <<current, hears, unlocked, helperVars, unread>>

-----------------------------------------------------------------------------
(* A helper. *)

\* An answer is written, unless the helper is not current any more.
Says(h, answer) ==
  \/ unread' = [unread EXCEPT ![h] = Append(@, answer)]
  \/ h # current /\ UNCHANGED unread

Over(h) == life' = [life EXCEPT ![h] = "over"]

\* What may be left of a password that is answered, overwritten or spoilt by another.
Left(password) ==
  IF password = "right" THEN {"nothing", "wrong", "right"} ELSE {"nothing", password}

MayForget(h) == \E p \in Left(holds[h]) : holds' = [holds EXCEPT ![h] = p]

Accept(h) ==
  /\ life[h] = "works" /\ holds[h] = "right"
  /\ Says(h, "success") /\ Over(h)
  /\ UNCHANGED <<dialogVars, holds, rejections>>

\* A helper that cannot get ready says success before it has done anything else.
Abort(h) ==
  /\ InitMayFail
  /\ life[h] = "works" /\ rejections[h] = 0 /\ unread[h] = <<>>
  /\ Says(h, "success") /\ Over(h)
  /\ MayForget(h)
  /\ UNCHANGED <<dialogVars, rejections>>

\* A helper that is not current may end over what it says.
Reject(h) ==
  /\ life[h] = "works" /\ holds[h] # "nothing" /\ rejections[h] + 1 < MAX_FAILURES
  /\ rejections' = [rejections EXCEPT ![h] = @ + 1]
  /\ Says(h, "failure")
  /\ UNCHANGED life \/ (h # current /\ Over(h))
  /\ MayForget(h)
  /\ UNCHANGED dialogVars

GiveUp(h) ==
  /\ life[h] = "works" /\ holds[h] # "nothing" /\ rejections[h] + 1 = MAX_FAILURES
  /\ rejections' = [rejections EXCEPT ![h] = @ + 1]
  /\ Says(h, "cancelled") /\ Over(h)
  /\ MayForget(h)
  /\ UNCHANGED dialogVars

Forget(h) ==
  /\ MayForget(h)
  /\ UNCHANGED <<dialogVars, life, rejections, unread>>

\* A helper that is not current is interrupted, and takes that for a password.
Interrupt(h) ==
  /\ h # current
  /\ holds[h] = "nothing" /\ holds' = [holds EXCEPT ![h] = "wrong"]
  /\ UNCHANGED <<dialogVars, life, rejections, unread>>

\* A helper ends without an answer.
End(h) ==
  /\ life[h] = "works" /\ Over(h)
  /\ MayForget(h)
  /\ UNCHANGED <<dialogVars, rejections, unread>>

-----------------------------------------------------------------------------
Next ==
  \/ FailToBegin \/ Drop \/ Unlock \/ Lower \/ AskAgain
  \/ \E h \in Helpers :
       \/ Begin(h) \/ Hand(h, "right") \/ Hand(h, "wrong") \/ Hear(h) \/ Discard(h)
       \/ Accept(h) \/ Abort(h) \/ Reject(h) \/ GiveUp(h)
       \/ Forget(h) \/ Interrupt(h) \/ End(h)

Spec == Init /\ [][Next]_vars
=============================================================================
