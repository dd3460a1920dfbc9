------------------------------ MODULE Auth_proofs ------------------------------
(***************************************************************************)
(* The safety properties of Auth hold for any number of helpers started    *)
(* one after another, any limit on failures, and every value of the other  *)
(* constants.                                                              *)
(***************************************************************************)
EXTENDS Auth, SequenceTheorems, TLAPS

\* What the properties rest on.  A helper that was not started has been told nothing
\* and is not listened to.
NewIsUntouched ==
  \A h \in Helpers : state[h] = "new" => ~told[h] /\ pipe[h] = "unused" /\ proc # h

\* A helper goes on asking only while it has attempts left.
AttemptsLeft ==
  \A h \in Helpers :
    state[h] \in {"new", "boot", "idle", "pam", "prompt"} => failures[h] < MAX_FAILURES

\* Success that a helper has written was earned by that helper.
Written(h) == \E i \in DOMAIN stdout[h] : stdout[h][i] = "success"

WrittenEarned == \A h \in Helpers : Written(h) => Earned(h)

ClientInv == NewIsUntouched /\ ToldUnlessCurrent /\ CurrentIsHeard /\ NoHelperOnceUnlocked

HelperInv == TypeOK /\ AttemptsLeft

-----------------------------------------------------------------------------
(* Sequences of results. *)

\* What holds of an element of a concatenation holds in one of its parts.
LEMMA ConcatHas ==
  ASSUME NEW S, NEW p \in Seq(S), NEW q \in Seq(S), NEW i \in DOMAIN (p \o q)
  PROVE  \/ \E j \in DOMAIN p : (p \o q)[i] = p[j]
         \/ \E j \in DOMAIN q : (p \o q)[i] = q[j]
<1>1. /\ Len(p \o q) = Len(p) + Len(q)
      /\ \A k \in 1 .. Len(p) + Len(q) :
           (p \o q)[k] = IF k <= Len(p) THEN p[k] ELSE q[k - Len(p)]
      /\ p \o q \in Seq(S)
  BY ConcatProperties
<1>2. Len(p) \in Nat /\ Len(q) \in Nat /\ DOMAIN p = 1 .. Len(p) /\ DOMAIN q = 1 .. Len(q)
      /\ DOMAIN (p \o q) = 1 .. Len(p \o q)
  BY <1>1, LenProperties
<1>3. CASE i <= Len(p)
  BY <1>1, <1>2, <1>3
<1>4. CASE i > Len(p)
  <2>1. i - Len(p) \in DOMAIN q
    BY <1>1, <1>2, <1>4
  <2> QED BY <1>1, <1>2, <1>4, <2>1
<1> QED BY <1>1, <1>2, <1>3, <1>4

\* What holds of an element of the tail holds of an element of the sequence.
LEMMA TailHas ==
  ASSUME NEW S, NEW p \in Seq(S), p # <<>>, NEW i \in DOMAIN Tail(p)
  PROVE  \E j \in DOMAIN p : Tail(p)[i] = p[j]
<1>1. /\ Tail(p) \in Seq(S)
      /\ Len(Tail(p)) = Len(p) - 1
      /\ \A k \in 1 .. Len(Tail(p)) : Tail(p)[k] = p[k + 1]
  BY HeadTailProperties
<1>2. Len(p) \in Nat /\ DOMAIN p = 1 .. Len(p) /\ DOMAIN Tail(p) = 1 .. Len(Tail(p))
  BY <1>1, LenProperties
<1>3. i + 1 \in DOMAIN p
  BY <1>1, <1>2
<1> QED BY <1>1, <1>2, <1>3

-----------------------------------------------------------------------------
(* Types, and the count of failures. *)

\* The helpers at first.
LEMMA InitHelper == Init => HelperInv
<1> SUFFICES ASSUME Init PROVE HelperInv
  OBVIOUS
<1>1. <<>> \in Seq(Results) /\ <<>> \in Seq(Passwords)
  BY EmptySeq
<1>2. MAX_FAILURES \in Nat /\ 0 < MAX_FAILURES /\ 0 \in 0 .. MAX_FAILURES
  BY AuthAssumption
<1>3. TypeOK
  BY <1>1, <1>2 DEF Init, TypeOK, PipeStates
<1>4. AttemptsLeft
  BY <1>2 DEF Init, AttemptsLeft
<1> QED BY <1>3, <1>4 DEF HelperInv

\* Every action keeps the types, and the count of failures within its limit.
LEMMA HelperStep == HelperInv /\ [Next]_vars => HelperInv'
<1> SUFFICES ASSUME HelperInv, [Next]_vars PROVE HelperInv'
  OBVIOUS
<1> USE DEF HelperInv, TypeOK, AttemptsLeft, Running, clientVars, pamVars, inputVars
<1>1. CASE Cancel
  BY <1>1 DEF Cancel, EndProc, FirstReadCancelled, PipeStates
<1>2. ASSUME NEW password \in Passwords, Submit(password) PROVE HelperInv'
  BY <1>2, AppendProperties DEF Submit
<1>3. CASE StartFails
  BY <1>3 DEF StartFails
<1>4. CASE Emit
  <2>1. idles' \in Seq(Results)
    BY <1>4, HeadTailProperties, EmptySeq DEF Emit
  <2> QED BY <1>4, <2>1 DEF Emit, EndProc, FirstReadCancelled, PipeStates
<1>5. ASSUME NEW h \in Helpers, Start(h) PROVE HelperInv'
  BY <1>5 DEF Start, PipeStates
<1>6. ASSUME NEW h \in Helpers, MessageFromChild(h) PROVE HelperInv'
  <2>1. idles' \in Seq(Results)
    <3>1. stdout[h] \in Seq(Results)
      OBVIOUS
    <3>2. idles \o stdout[h] \in Seq(Results)
      BY <3>1, ConcatProperties
    <3> QED BY <1>6, <3>2 DEF MessageFromChild
  <2>2. stdout' \in [Helpers -> Seq(Results)]
    BY <1>6, EmptySeq DEF MessageFromChild
  <2>3. /\ proc' \in Helpers \cup {None} /\ cancellable' \in BOOLEAN
        /\ pipe' \in [Helpers -> PipeStates] /\ told' \in [Helpers -> BOOLEAN]
    BY <1>6 DEF MessageFromChild, PipeStates, EndProc, FirstReadCancelled
  <2> QED BY <1>6, <2>1, <2>2, <2>3 DEF MessageFromChild
<1>7. ASSUME NEW h \in Helpers, ProcCompleted(h) PROVE HelperInv'
  BY <1>7 DEF ProcCompleted, PipeStates, Open
<1>8. ASSUME NEW h \in Helpers, Boot(h) PROVE HelperInv'
  BY <1>8 DEF Boot
<1>9. ASSUME NEW h \in Helpers, BootFails(h) PROVE HelperInv'
  BY <1>9, AppendProperties, EmptySeq DEF BootFails, Ends, Ended, Results
<1>10. ASSUME NEW h \in Helpers, BeginAuth(h) PROVE HelperInv'
  BY <1>10 DEF BeginAuth
<1>11. ASSUME NEW h \in Helpers, Prompt(h) PROVE HelperInv'
  BY <1>11 DEF Prompt, AfterWriting, Ended
<1>12. ASSUME NEW h \in Helpers, TakePassword(h) PROVE HelperInv'
  BY <1>12 DEF TakePassword, AfterWriting, Ended
<1>13. ASSUME NEW h \in Helpers, GiveUpPrompt(h) PROVE HelperInv'
  BY <1>13 DEF GiveUpPrompt, Passwords
<1>14. ASSUME NEW h \in Helpers, PamAccepts(h) PROVE HelperInv'
  BY <1>14, AppendProperties DEF PamAccepts, Send, AfterWriting, Writes, StdinCancelled, Results, Ended
<1>15. ASSUME NEW h \in Helpers, PamRejects(h) PROVE HelperInv'
  <2>1. failures[h] < MAX_FAILURES /\ failures[h] \in Nat /\ MAX_FAILURES \in Nat
    BY <1>15, AuthAssumption DEF PamRejects
  <2>2. stdout' \in [Helpers -> Seq(Results)]
    <3>1. /\ Append(stdout[h], "failure") \in Seq(Results)
          /\ Append(stdout[h], "cancelled") \in Seq(Results)
      BY AppendProperties DEF Results
    <3> QED BY <1>15, <3>1 DEF PamRejects, Send
  <2>3. failures' \in [Helpers -> 0 .. MAX_FAILURES]
    BY <1>15, <2>1 DEF PamRejects
  <2>4. /\ state' \in [Helpers -> {"new"} \cup Running \cup Ended]
        /\ stdinCancel' \in [Helpers -> {"live", "cancelled", "gone"}]
        /\ given' \in [Helpers -> {"nothing"} \cup Passwords]
    BY <1>15 DEF PamRejects, Send, AfterWriting, StdinCancelled, Ended
  <2>5. AttemptsLeft'
    BY <1>15, <2>1 DEF PamRejects, Send, AfterWriting
  <2> QED BY <1>15, <2>2, <2>3, <2>4, <2>5 DEF PamRejects
<1>16. ASSUME NEW h \in Helpers, Exit(h) PROVE HelperInv'
  BY <1>16, EmptySeq DEF Exit, Ends, Ended
<1>17. ASSUME NEW h \in Helpers, ReadStdin(h) PROVE HelperInv'
  BY <1>17, EmptySeq, HeadTailProperties DEF ReadStdin, Passwords
<1>18. ASSUME NEW h \in Helpers, Sigterm(h) PROVE HelperInv'
  <2>1. /\ state' \in [Helpers -> {"new"} \cup Running \cup Ended]
        /\ slot' \in [Helpers -> {"none"} \cup Passwords]
        /\ stdin' \in [Helpers -> Seq(Passwords)]
        /\ stdinCancel' \in [Helpers -> {"live", "cancelled", "gone"}]
    <3>1. <<>> \in Seq(Passwords)
      BY EmptySeq
    <3>2. CASE state[h] = "boot"
      <4>1. stdin' \in [Helpers -> Seq(Passwords)]
        <5>1. stdin' = [stdin EXCEPT ![h] = <<>>]
          BY <1>18, <3>2 DEF Sigterm, Ends
        <5> QED BY <3>1, <5>1
      <4>2. /\ state' \in [Helpers -> {"new"} \cup Running \cup Ended]
            /\ slot' \in [Helpers -> {"none"} \cup Passwords]
            /\ UNCHANGED stdinCancel
        BY <1>18, <3>2 DEF Sigterm, Ends, Ended
      <4> QED BY <4>1, <4>2
    <3>3. CASE state[h] # "boot"
      BY <1>18, <3>3 DEF Sigterm, StdinCancelled
    <3> QED BY <3>2, <3>3
  <2>2. AttemptsLeft'
    BY <1>18 DEF Sigterm, Ends
  <2> QED BY <1>18, <2>1, <2>2 DEF Sigterm
<1>19. ASSUME NEW h \in Helpers, Shutdown(h) PROVE HelperInv'
  BY <1>19 DEF Shutdown
<1>20. ASSUME NEW h \in Helpers, Die(h) PROVE HelperInv'
  BY <1>20, EmptySeq DEF Die, Ends, Ended
<1>21. CASE UNCHANGED vars
  BY <1>21 DEF vars
<1> QED BY <1>1, <1>2, <1>3, <1>4, <1>5, <1>6, <1>7, <1>8, <1>9, <1>10, <1>11, <1>12, <1>13, <1>14, <1>15, <1>16, <1>17, <1>18, <1>19, <1>20, <1>21 DEF Next, User, Dispatch, MainThread

-----------------------------------------------------------------------------
(* The client and its successive helpers. *)

\* The client at first.
LEMMA InitClient == Init => ClientInv
  BY AuthAssumption DEF Init, ClientInv, NewIsUntouched, ToldUnlessCurrent, CurrentIsHeard,
     NoHelperOnceUnlocked, Running

\* Every action keeps what the client's properties say.
LEMMA ClientStep == HelperInv /\ ClientInv /\ [Next]_vars => ClientInv'
<1> SUFFICES ASSUME HelperInv, ClientInv, [Next]_vars PROVE ClientInv'
  OBVIOUS
<1> USE AuthAssumption DEF HelperInv, TypeOK, ClientInv, NewIsUntouched, ToldUnlessCurrent,
        CurrentIsHeard, NoHelperOnceUnlocked, Running, clientVars, pamVars, inputVars
<1>1. CASE Cancel
  BY <1>1 DEF Cancel, EndProc, FirstReadCancelled, PipeStates
<1>2. ASSUME NEW password \in Passwords, Submit(password) PROVE ClientInv'
  BY <1>2 DEF Submit
<1>3. CASE StartFails
  BY <1>3 DEF StartFails
<1>4. CASE Emit
  BY <1>4 DEF Emit, EndProc, FirstReadCancelled, PipeStates
<1>5. ASSUME NEW h \in Helpers, Start(h) PROVE ClientInv'
  BY <1>5 DEF Start, PipeStates
<1>6. ASSUME NEW h \in Helpers, MessageFromChild(h) PROVE ClientInv'
  <2>1. CASE cancellable /\ EndsHelper(stdout[h])
    <3>1. /\ proc' = None /\ UNCHANGED <<state, unlocked>>
          /\ \A g \in Helpers : told'[g] <=> told[g] \/ (g = proc /\ state[g] \in Running)
          /\ \A g \in Helpers : state[g] = "new" => pipe'[g] = pipe[g]
      BY <1>6, <2>1 DEF MessageFromChild, EndProc, FirstReadCancelled
    <3> QED BY <3>1
  <2>2. CASE cancellable /\ ~EndsHelper(stdout[h])
    BY <1>6, <2>2 DEF MessageFromChild
  <2>3. CASE ~cancellable
    BY <1>6, <2>3 DEF MessageFromChild
  <2> QED BY <2>1, <2>2, <2>3
<1>7. ASSUME NEW h \in Helpers, ProcCompleted(h) PROVE ClientInv'
  BY <1>7 DEF ProcCompleted, PipeStates, Open, Ended
<1>8. ASSUME NEW h \in Helpers, Boot(h) PROVE ClientInv'
  BY <1>8 DEF Boot
<1>9. ASSUME NEW h \in Helpers, BootFails(h) PROVE ClientInv'
  BY <1>9 DEF BootFails, Ends, Ended, Results
<1>10. ASSUME NEW h \in Helpers, BeginAuth(h) PROVE ClientInv'
  BY <1>10 DEF BeginAuth
<1>11. ASSUME NEW h \in Helpers, Prompt(h) PROVE ClientInv'
  BY <1>11 DEF Prompt, AfterWriting, Ended
<1>12. ASSUME NEW h \in Helpers, TakePassword(h) PROVE ClientInv'
  BY <1>12 DEF TakePassword, AfterWriting, Ended
<1>13. ASSUME NEW h \in Helpers, GiveUpPrompt(h) PROVE ClientInv'
  BY <1>13 DEF GiveUpPrompt, Passwords
<1>14. ASSUME NEW h \in Helpers, PamAccepts(h) PROVE ClientInv'
  BY <1>14 DEF PamAccepts, Send, AfterWriting, Writes, StdinCancelled, Results, Ended
<1>15. ASSUME NEW h \in Helpers, PamRejects(h) PROVE ClientInv'
  BY <1>15 DEF PamRejects, Send, AfterWriting, Writes, StdinCancelled, Results, Ended
<1>16. ASSUME NEW h \in Helpers, Exit(h) PROVE ClientInv'
  BY <1>16 DEF Exit, Ends, Ended
<1>17. ASSUME NEW h \in Helpers, ReadStdin(h) PROVE ClientInv'
  BY <1>17 DEF ReadStdin, Passwords
<1>18. ASSUME NEW h \in Helpers, Sigterm(h) PROVE ClientInv'
  BY <1>18 DEF Sigterm, Ends, Ended, StdinCancelled
<1>19. ASSUME NEW h \in Helpers, Shutdown(h) PROVE ClientInv'
  BY <1>19 DEF Shutdown
<1>20. ASSUME NEW h \in Helpers, Die(h) PROVE ClientInv'
  BY <1>20 DEF Die, Ends, Ended
<1>21. CASE UNCHANGED vars
  BY <1>21 DEF vars
<1> QED BY <1>1, <1>2, <1>3, <1>4, <1>5, <1>6, <1>7, <1>8, <1>9, <1>10, <1>11, <1>12, <1>13, <1>14, <1>15, <1>16, <1>17, <1>18, <1>19, <1>20, <1>21 DEF Next, User, Dispatch, MainThread

-----------------------------------------------------------------------------
(* Success. *)

\* What has been earned stays earned.
LEMMA EarnedStays ==
  ASSUME HelperInv, [Next]_vars, NEW g \in Helpers, Earned(g)
  PROVE  Earned(g)'
<1> USE DEF HelperInv, TypeOK, Earned, Running, clientVars, pamVars, inputVars
<1>1. CASE Cancel
  BY <1>1 DEF Cancel
<1>2. ASSUME NEW password \in Passwords, Submit(password) PROVE Earned(g)'
  BY <1>2 DEF Submit
<1>3. CASE StartFails
  BY <1>3 DEF StartFails
<1>4. CASE Emit
  BY <1>4 DEF Emit
<1>5. ASSUME NEW h \in Helpers, Start(h) PROVE Earned(g)'
  BY <1>5 DEF Start
<1>6. ASSUME NEW h \in Helpers, MessageFromChild(h) PROVE Earned(g)'
  BY <1>6 DEF MessageFromChild
<1>7. ASSUME NEW h \in Helpers, ProcCompleted(h) PROVE Earned(g)'
  BY <1>7 DEF ProcCompleted
<1>8. ASSUME NEW h \in Helpers, Boot(h) PROVE Earned(g)'
  BY <1>8 DEF Boot
<1>9. ASSUME NEW h \in Helpers, BootFails(h) PROVE Earned(g)'
  BY <1>9 DEF BootFails, Ends
<1>10. ASSUME NEW h \in Helpers, BeginAuth(h) PROVE Earned(g)'
  BY <1>10 DEF BeginAuth
<1>11. ASSUME NEW h \in Helpers, Prompt(h) PROVE Earned(g)'
  BY <1>11 DEF Prompt, AfterWriting
<1>12. ASSUME NEW h \in Helpers, TakePassword(h) PROVE Earned(g)'
  BY <1>12 DEF TakePassword, AfterWriting
<1>13. ASSUME NEW h \in Helpers, GiveUpPrompt(h) PROVE Earned(g)'
  BY <1>13 DEF GiveUpPrompt
<1>14. ASSUME NEW h \in Helpers, PamAccepts(h) PROVE Earned(g)'
  BY <1>14 DEF PamAccepts, Send, AfterWriting
<1>15. ASSUME NEW h \in Helpers, PamRejects(h) PROVE Earned(g)'
  BY <1>15 DEF PamRejects, Send, AfterWriting
<1>16. ASSUME NEW h \in Helpers, Exit(h) PROVE Earned(g)'
  BY <1>16 DEF Exit, Ends
<1>17. ASSUME NEW h \in Helpers, ReadStdin(h) PROVE Earned(g)'
  BY <1>17 DEF ReadStdin
<1>18. ASSUME NEW h \in Helpers, Sigterm(h) PROVE Earned(g)'
  BY <1>18 DEF Sigterm, Ends
<1>19. ASSUME NEW h \in Helpers, Shutdown(h) PROVE Earned(g)'
  BY <1>19 DEF Shutdown
<1>20. ASSUME NEW h \in Helpers, Die(h) PROVE Earned(g)'
  BY <1>20 DEF Die, Ends
<1>21. CASE UNCHANGED vars
  BY <1>21 DEF vars
<1> QED BY <1>1, <1>2, <1>3, <1>4, <1>5, <1>6, <1>7, <1>8, <1>9, <1>10, <1>11, <1>12, <1>13, <1>14, <1>15, <1>16, <1>17, <1>18, <1>19, <1>20, <1>21 DEF Next, User, Dispatch, MainThread

\* A result is written by the helper that came to it.
LEMMA WrittenStep ==
  HelperInv /\ WrittenEarned /\ [Next]_vars => WrittenEarned'
<1> SUFFICES ASSUME HelperInv, WrittenEarned, [Next]_vars,
                    NEW g \in Helpers, Written(g)'
             PROVE  Earned(g)'
  BY DEF WrittenEarned
<1>1. CASE Written(g)
  BY <1>1, EarnedStays DEF WrittenEarned
<1>2. CASE ~Written(g)
  <2>1. stdout[g] \in Seq(Results) /\ stdout \in [Helpers -> Seq(Results)]
    BY DEF HelperInv, TypeOK
  <2>2. stdout'[g] # stdout[g]
    BY <1>2 DEF Written
  <2>3. ASSUME NEW r \in Results, stdout'[g] = Append(stdout[g], r) PROVE r = "success"
    <3>1. PICK i \in DOMAIN stdout'[g] : stdout'[g][i] = "success"
      BY DEF Written
    <3>2. /\ Len(stdout[g]) \in Nat /\ DOMAIN stdout[g] = 1 .. Len(stdout[g])
          /\ DOMAIN stdout'[g] = 1 .. Len(stdout[g]) + 1
          /\ stdout'[g][Len(stdout[g]) + 1] = r
          /\ \A j \in 1 .. Len(stdout[g]) : stdout'[g][j] = stdout[g][j]
      BY <2>1, <2>3, AppendProperties, LenProperties
    <3> QED BY <1>2, <3>1, <3>2 DEF Written
  <2> USE <2>1, <2>2 DEF HelperInv, TypeOK, Running, clientVars, pamVars, inputVars
  <2>4. ASSUME NEW h \in Helpers, MessageFromChild(h) PROVE FALSE
    <3>1. stdout'[g] = <<>>
      BY <2>4 DEF MessageFromChild
    <3> QED BY <3>1 DEF Written
  <2>5. ASSUME NEW h \in Helpers, BootFails(h) PROVE Earned(g)'
    BY <2>5 DEF BootFails, Ends, Earned
  <2>6. ASSUME NEW h \in Helpers, PamAccepts(h) PROVE Earned(g)'
    BY <2>6 DEF PamAccepts, Send, AfterWriting, Earned
  <2>7. ASSUME NEW h \in Helpers, PamRejects(h) PROVE FALSE
    <3>1. g = h /\ \E r \in {"failure", "cancelled"} : stdout'[g] = Append(stdout[g], r)
      BY <2>7 DEF PamRejects, Send
    <3> QED BY <2>3, <3>1 DEF Results
  <2>8. \E h \in Helpers :
          MessageFromChild(h) \/ BootFails(h) \/ PamAccepts(h) \/ PamRejects(h)
    BY DEF Next, User, Dispatch, MainThread, vars, Cancel, Submit, StartFails, Emit, Start,
       ProcCompleted, Boot, BeginAuth, Prompt, TakePassword, GiveUpPrompt, Exit, ReadStdin,
       Sigterm, Shutdown, Die
  <2> QED BY <2>4, <2>5, <2>6, <2>7, <2>8
<1> QED BY <1>1, <1>2

\* A result on its way to the dialog, or acted upon.
Reported == unlocked \/ \E i \in DOMAIN idles : idles[i] = "success"

\* Every action keeps success earned.
LEMMA SuccessStep ==
  HelperInv /\ WrittenEarned /\ SuccessEarned /\ [Next]_vars => SuccessEarned'
<1> SUFFICES ASSUME HelperInv, WrittenEarned, SuccessEarned, [Next]_vars, Reported'
             PROVE  \E g \in Helpers : Earned(g)'
  BY DEF SuccessEarned, Reported
<1>1. SUFFICES \E g \in Helpers : Earned(g)
  BY EarnedStays
<1>2. CASE Reported
  BY <1>2 DEF SuccessEarned, Reported
<1>3. CASE ~Reported
  <2>1. idles \in Seq(Results) /\ stdout \in [Helpers -> Seq(Results)]
    BY DEF HelperInv, TypeOK
  <2>2. CASE Emit
    <3>1. idles # <<>> /\ 1 \in DOMAIN idles /\ Head(idles) = idles[1]
      BY <2>1, <2>2, LenProperties, EmptySeq DEF Emit
    <3>2. ~unlocked' /\ idles' = Tail(idles)
      BY <1>3, <2>2, <3>1 DEF Emit, Reported
    <3> QED BY <1>3, <2>1, <3>1, <3>2, TailHas DEF Reported
  <2>3. ASSUME NEW h \in Helpers, MessageFromChild(h) PROVE Earned(h)
    <3>1. idles' = idles \o stdout[h] /\ ~unlocked'
      BY <1>3, <2>3 DEF MessageFromChild, Reported
    <3>2. stdout[h] \in Seq(Results)
      BY <2>1
    <3>3. PICK i \in DOMAIN (idles \o stdout[h]) : (idles \o stdout[h])[i] = "success"
      BY <3>1 DEF Reported
    <3>4. \/ \E j \in DOMAIN idles : (idles \o stdout[h])[i] = idles[j]
          \/ \E j \in DOMAIN stdout[h] : (idles \o stdout[h])[i] = stdout[h][j]
      BY <2>1, <3>2, ConcatHas
    <3>5. Written(h)
      BY <1>3, <3>3, <3>4 DEF Written, Reported
    <3> QED BY <3>5 DEF WrittenEarned
  <2>4. Emit \/ \E h \in Helpers : MessageFromChild(h)
    BY <1>3 DEF Reported, Next, User, Dispatch, MainThread, vars, clientVars, Cancel, Submit,
       StartFails, Start, ProcCompleted, Boot, BootFails, BeginAuth, Prompt, TakePassword,
       GiveUpPrompt, PamAccepts, PamRejects, Exit, ReadStdin, Sigterm, Shutdown, Die
  <2> QED BY <2>2, <2>3, <2>4
<1> QED BY <1>2, <1>3

-----------------------------------------------------------------------------
IInv == HelperInv /\ ClientInv /\ WrittenEarned /\ SuccessEarned

\* The inductive invariant holds of every reachable state.
THEOREM Invariant == Spec => []IInv
<1>1. Init => IInv
  <2> SUFFICES ASSUME Init PROVE WrittenEarned /\ SuccessEarned
    BY InitHelper, InitClient DEF IInv
  <2>1. DOMAIN <<>> = {}
    OBVIOUS
  <2> QED BY <2>1 DEF Init, WrittenEarned, Written, SuccessEarned
<1>2. IInv /\ [Next]_vars => IInv'
  BY HelperStep, ClientStep, WrittenStep, SuccessStep DEF IInv
<1> QED BY <1>1, <1>2, PTL DEF Spec

\* Every variable keeps its type, and no helper counts beyond MAX_FAILURES.
THEOREM AuthTypes == Spec => []TypeOK
<1>1. IInv => TypeOK
  BY DEF IInv, HelperInv
<1> QED BY <1>1, Invariant, PTL

\* Of the helpers that run, exactly those that are not current have been told to go.
THEOREM OldHelpersAreTold == Spec => []ToldUnlessCurrent
<1>1. IInv => ToldUnlessCurrent
  BY DEF IInv, ClientInv
<1> QED BY <1>1, Invariant, PTL

\* A read is always under way from the current helper.
THEOREM CurrentHelperIsHeard == Spec => []CurrentIsHeard
<1>1. IInv => CurrentIsHeard
  BY DEF IInv, ClientInv
<1> QED BY <1>1, Invariant, PTL

\* Success reaches the dialog only if a helper came to it.
THEOREM OnlyEarnedSuccess == Spec => []SuccessEarned
<1>1. IInv => SuccessEarned
  BY DEF IInv
<1> QED BY <1>1, Invariant, PTL

\* Unlocking leaves no current helper.
THEOREM UnlockLeavesNoHelper == Spec => []NoHelperOnceUnlocked
<1>1. IInv => NoHelperOnceUnlocked
  BY DEF IInv, ClientInv
<1> QED BY <1>1, Invariant, PTL

-----------------------------------------------------------------------------
(* What Authenticator promises. *)

\* Nothing is heard or on its way once the dialog has unlocked.
UnlockedIsOver == unlocked => ~cancellable /\ idles = <<>>

\* A helper that has not been told to go is not kept from writing its answer.
UntoldWrites ==
  \A h \in Helpers :
    state[h] \in {"new", "boot", "idle", "pam", "prompt"} /\ ~told[h] =>
      stdinCancel[h] = "live"

\* A helper that has not got ready has rejected and said nothing.
BootIsFresh ==
  \A h \in Helpers :
    state[h] \in {"new", "boot"} => failures[h] = 0 /\ stdout[h] = <<>>

AnswersInv == UnlockedIsOver /\ UntoldWrites /\ BootIsFresh

\* None of them is disturbed by anything a client or a helper does.
LEMMA AnswersStep == IInv /\ AnswersInv /\ [Next]_vars => AnswersInv'
<1> SUFFICES ASSUME IInv, AnswersInv, [Next]_vars PROVE AnswersInv'
  OBVIOUS
<1> USE DEF IInv, HelperInv, TypeOK, AnswersInv, UnlockedIsOver, UntoldWrites, BootIsFresh,
        Running, clientVars, pamVars, inputVars
<1>1. CASE Cancel
  BY <1>1 DEF Cancel, EndProc
<1>2. ASSUME NEW password \in Passwords, Submit(password) PROVE AnswersInv'
  BY <1>2 DEF Submit
<1>3. CASE StartFails
  BY <1>3 DEF StartFails
<1>4. CASE Emit
  <2>1. Head(idles) = "success" => ~cancellable' /\ idles' = <<>>
    BY <1>4 DEF Emit, EndProc
  <2> QED BY <1>4, <2>1 DEF Emit, EndProc
<1>5. ASSUME NEW h \in Helpers, Start(h) PROVE AnswersInv'
  BY <1>5 DEF Start
<1>6. ASSUME NEW h \in Helpers, MessageFromChild(h) PROVE AnswersInv'
  BY <1>6 DEF MessageFromChild, EndProc
<1>7. ASSUME NEW h \in Helpers, ProcCompleted(h) PROVE AnswersInv'
  BY <1>7 DEF ProcCompleted
<1>8. ASSUME NEW h \in Helpers, Boot(h) PROVE AnswersInv'
  BY <1>8 DEF Boot
<1>9. ASSUME NEW h \in Helpers, BootFails(h) PROVE AnswersInv'
  BY <1>9 DEF BootFails, Ends
<1>10. ASSUME NEW h \in Helpers, BeginAuth(h) PROVE AnswersInv'
  BY <1>10 DEF BeginAuth
<1>11. ASSUME NEW h \in Helpers, Prompt(h) PROVE AnswersInv'
  BY <1>11 DEF Prompt, AfterWriting
<1>12. ASSUME NEW h \in Helpers, TakePassword(h) PROVE AnswersInv'
  BY <1>12 DEF TakePassword, AfterWriting
<1>13. ASSUME NEW h \in Helpers, GiveUpPrompt(h) PROVE AnswersInv'
  BY <1>13 DEF GiveUpPrompt
<1>14. ASSUME NEW h \in Helpers, PamAccepts(h) PROVE AnswersInv'
  BY <1>14 DEF PamAccepts, Send, AfterWriting, StdinCancelled
<1>15. ASSUME NEW h \in Helpers, PamRejects(h) PROVE AnswersInv'
  BY <1>15 DEF PamRejects, Send, AfterWriting, StdinCancelled
<1>16. ASSUME NEW h \in Helpers, Exit(h) PROVE AnswersInv'
  BY <1>16 DEF Exit, Ends
<1>17. ASSUME NEW h \in Helpers, ReadStdin(h) PROVE AnswersInv'
  BY <1>17 DEF ReadStdin
<1>18. ASSUME NEW h \in Helpers, Sigterm(h) PROVE AnswersInv'
  BY <1>18 DEF Sigterm, Ends, StdinCancelled
<1>19. ASSUME NEW h \in Helpers, Shutdown(h) PROVE AnswersInv'
  BY <1>19 DEF Shutdown
<1>20. ASSUME NEW h \in Helpers, Die(h) PROVE AnswersInv'
  BY <1>20 DEF Die, Ends
<1>21. CASE UNCHANGED vars
  BY <1>21 DEF vars
<1> QED BY <1>1, <1>2, <1>3, <1>4, <1>5, <1>6, <1>7, <1>8, <1>9, <1>10, <1>11, <1>12, <1>13, <1>14, <1>15, <1>16, <1>17, <1>18, <1>19, <1>20, <1>21 DEF Next, User, Dispatch, MainThread

\* What a step is to Authenticator: a step, or nothing.
Kept == Promise!Next \/ UNCHANGED Promise!vars

\* A dialog's helper writes what it has to say into a pipe that is open.
LEMMA CurrentWrites ==
  ASSUME IInv, AnswersInv, NEW h \in Helpers, proc = h, state[h] = "pam"
  PROVE  Writes(h) /\ pipe[h] # "closed"
<1>1. pipe[h] \in {"first", "next"}
  BY AuthAssumption DEF IInv, ClientInv, CurrentIsHeard
<1>2. ~told[h]
  BY DEF IInv, ClientInv, ToldUnlessCurrent, Running
<1>3. stdinCancel[h] = "live"
  BY <1>2 DEF AnswersInv, UntoldWrites
<1> QED BY <1>1, <1>3 DEF Writes

\* The lives of the helpers, and what they hold, change one at a time.
LEMMA LifeChanges ==
  ASSUME TypeOK, NEW h \in Helpers, NEW s, state' = [state EXCEPT ![h] = s]
  PROVE  [g \in Helpers |-> Life(g)]' = [[g \in Helpers |-> Life(g)] EXCEPT ![h] = Life(h)']
BY DEF TypeOK, Life

LEMMA LivesStay ==
  ASSUME UNCHANGED state
  PROVE  UNCHANGED [g \in Helpers |-> Life(g)]
BY DEF Life

LEMMA HoldsStay ==
  ASSUME UNCHANGED <<stdin, slot, given>>
  PROVE  UNCHANGED [g \in Helpers |-> Best(g)]
BY DEF Best, Has

\* Only what is in the pipe, in the slot or with PAM of one helper changes.
TouchesOnly(h) ==
  \A g \in Helpers \ {h} :
    stdin'[g] = stdin[g] /\ slot'[g] = slot[g] /\ given'[g] = given[g]

LEMMA HoldsChange ==
  ASSUME NEW h \in Helpers, TouchesOnly(h)
  PROVE  [g \in Helpers |-> Best(g)]' = [[g \in Helpers |-> Best(g)] EXCEPT ![h] = Best(h)']
<1>1. ASSUME NEW g \in Helpers \ {h}
      PROVE  Best(g)' = Best(g)
  <2>1. ASSUME NEW p \in Passwords
        PROVE  Has(g, p)' <=> Has(g, p)
    BY DEF TouchesOnly, Has
  <2> QED BY <2>1 DEF Best, Passwords
<1> QED BY <1>1

\* A helper gets no password, or a wrong one for one that it had.
GainsNothing(h) ==
  /\ Has(h, "right")' => Has(h, "right")
  /\ Has(h, "wrong")' => Has(h, "wrong") \/ Has(h, "right")

\* It may then only have lost what it had.
LEMMA HoldsLess ==
  ASSUME NEW h \in Helpers, TouchesOnly(h), GainsNothing(h)
  PROVE  Promise!MayForget(h)
<1>1. Best(h)' \in Promise!Left(Best(h))
  BY DEF GainsNothing, Best, Promise!Left
<1>2. [g \in Helpers |-> Best(g)][h] = Best(h)
  OBVIOUS
<1> QED BY <1>1, <1>2, HoldsChange DEF Promise!MayForget

\* What the client does without a helper's help.
LEMMA ClientKept ==
  ASSUME IInv, AnswersInv, Cancel \/ StartFails \/ Emit
  PROVE  Kept
<1> USE DEF clientVars, pamVars, inputVars, Promise!vars, Promise!dialogVars,
        Promise!helperVars, Promise!LetGo
<1>1. UNCHANGED <<[g \in Helpers |-> Life(g)], [g \in Helpers |-> Best(g)], failures, stdout>>
  BY LivesStay, HoldsStay DEF Cancel, StartFails, Emit
<1>2. CASE Cancel
  <2>1. Promise!Drop
    BY <1>1, <1>2 DEF Cancel, EndProc, Promise!Drop
  <2> QED BY <2>1 DEF Kept, Promise!Next
<1>3. CASE StartFails
  <2>1. Promise!FailToBegin
    BY <1>1, <1>3 DEF StartFails, Promise!FailToBegin
  <2> QED BY <2>1 DEF Kept, Promise!Next
<1>4. CASE Emit
  <2>1. /\ idles # <<>> /\ idles \in Seq(Results) /\ Head(idles) \in Results
        /\ ~unlocked /\ unlocked \in BOOLEAN
    BY <1>4, HeadTailProperties
       DEF Emit, IInv, HelperInv, TypeOK, AnswersInv, UnlockedIsOver
  <2>2. CASE Head(idles) = "failure"
    <3>1. Promise!AskAgain
      BY <1>1, <1>4, <2>1, <2>2 DEF Emit, Promise!AskAgain
    <3> QED BY <3>1 DEF Kept, Promise!Next
  <2>3. ASSUME Head(idles) # "failure"
        PROVE  proc' = None /\ cancellable' = FALSE
    BY <1>4, <2>3
       DEF Emit, EndProc, IInv, HelperInv, TypeOK, ClientInv, CurrentIsHeard
  <2>4. CASE Head(idles) = "success"
    <3>1. Promise!Unlock
      BY <1>1, <1>4, <2>1, <2>3, <2>4 DEF Emit, Promise!Unlock
    <3> QED BY <3>1 DEF Kept, Promise!Next
  <2>5. CASE Head(idles) = "cancelled"
    <3>1. Promise!Lower
      BY <1>1, <1>4, <2>1, <2>3, <2>5 DEF Emit, Promise!Lower
    <3> QED BY <3>1 DEF Kept, Promise!Next
  <2> QED BY <2>1, <2>2, <2>4, <2>5 DEF Results
<1> QED BY <1>2, <1>3, <1>4

\* initialize().
LEMMA StartKept ==
  ASSUME IInv, NEW h \in Helpers, Start(h)
  PROVE  Kept
<1>1. /\ [g \in Helpers |-> Life(g)]' = [[g \in Helpers |-> Life(g)] EXCEPT ![h] = Life(h)']
      /\ Life(h) = "new" /\ Life(h)' = "works"
  BY LifeChanges DEF Start, Life, Running, IInv, HelperInv, TypeOK
<1>2. UNCHANGED [g \in Helpers |-> Best(g)]
  BY HoldsStay DEF Start, inputVars, pamVars
<1>3. Promise!Begin(h)
  BY <1>1, <1>2 DEF Start, pamVars, Promise!Begin
<1> QED BY <1>3 DEF Kept, Promise!Next

\* message_to_child(): the best that the helper has becomes what is written, or stays.
LEMMA SubmitKept ==
  ASSUME IInv, NEW h \in Helpers, proc = h, NEW password \in Passwords, Submit(password)
  PROVE  Kept
<1>1. /\ stdin[h] \in Seq(Passwords)
      /\ stdin' = [stdin EXCEPT ![h] = Append(@, password)]
      /\ UNCHANGED <<clientVars, state, pamVars, slot, stdout>>
  BY DEF Submit, IInv, HelperInv, TypeOK
<1>2. TouchesOnly(h)
  BY <1>1 DEF TouchesOnly, pamVars, IInv, HelperInv, TypeOK
<1>3. ASSUME NEW p \in Passwords
      PROVE  Has(h, p)' <=> Has(h, p) \/ p = password
  <2>1. stdin'[h] = Append(stdin[h], password)
    BY <1>1 DEF IInv, HelperInv, TypeOK
  <2>2. /\ Len(stdin[h]) \in Nat /\ DOMAIN stdin[h] = 1 .. Len(stdin[h])
        /\ DOMAIN stdin'[h] = 1 .. Len(stdin[h]) + 1
        /\ stdin'[h][Len(stdin[h]) + 1] = password
        /\ \A i \in 1 .. Len(stdin[h]) : stdin'[h][i] = stdin[h][i]
    BY <1>1, <2>1, AppendProperties, LenProperties
  <2> QED BY <1>1, <2>2 DEF Has, pamVars
<1>4. UNCHANGED [g \in Helpers |-> Life(g)]
  BY <1>1, LivesStay
<1>5. [g \in Helpers |-> Best(g)]' = [[g \in Helpers |-> Best(g)] EXCEPT ![h] = Best(h)']
  BY <1>1, <1>2, HoldsChange
<1>6. CASE password = "right" \/ Best(h) # "right"
  <2>1. Best(h)' = password
    BY <1>3, <1>6 DEF Best, Passwords
  <2>2. Promise!Hand(h, password)
    BY <1>1, <1>4, <1>5, <1>6, <2>1
       DEF Submit, clientVars, pamVars, Promise!Hand, Promise!dialogVars
  <2> QED BY <1>1, <2>2 DEF Kept, Promise!Next, Passwords
<1>7. CASE password # "right" /\ Best(h) = "right"
  <2>1. Best(h)' = Best(h)
    BY <1>3, <1>7 DEF Best, Passwords
  <2>2. UNCHANGED [g \in Helpers |-> Best(g)]
    BY <1>5, <2>1
  <2> QED
    BY <1>1, <1>4, <2>2
       DEF clientVars, pamVars, Kept, Promise!vars, Promise!dialogVars, Promise!helperVars
<1> QED BY <1>6, <1>7

\* message_from_child() and on_proc_completed().
LEMMA DispatchKept ==
  ASSUME IInv, NEW h \in Helpers, Dispatch(h)
  PROVE  Kept
<1>1. UNCHANGED <<[g \in Helpers |-> Life(g)], [g \in Helpers |-> Best(g)], failures,
                  unlocked>>
  BY LivesStay, HoldsStay DEF Dispatch, MessageFromChild, ProcCompleted, pamVars, inputVars
<1>2. CASE MessageFromChild(h) /\ cancellable
  <2>1. EndsHelper(stdout[h]) <=> Promise!Final(stdout[h])
    BY DEF EndsHelper, Promise!Final
  <2>2. Promise!Hear(h)
    BY <1>1, <1>2, <2>1
       DEF MessageFromChild, EndProc, Promise!Hear, Promise!LetGo, Promise!helperVars
  <2> QED BY <2>2 DEF Kept, Promise!Next
<1>3. CASE MessageFromChild(h) /\ ~cancellable
  <2>1. h # proc
    BY <1>3, AuthAssumption DEF IInv, ClientInv, CurrentIsHeard
  <2>2. Promise!Discard(h)
    BY <1>1, <1>3, <2>1
       DEF MessageFromChild, Promise!Discard, Promise!helperVars, Promise!dialogVars
  <2> QED BY <2>2 DEF Kept, Promise!Next
<1>4. CASE ProcCompleted(h) /\ proc = h
  <2>1. Promise!Drop
    BY <1>1, <1>4 DEF ProcCompleted, Promise!Drop, Promise!LetGo, Promise!helperVars
  <2> QED BY <2>1 DEF Kept, Promise!Next
<1>5. CASE ProcCompleted(h) /\ proc # h
  BY <1>1, <1>5
     DEF ProcCompleted, Kept, Promise!vars, Promise!dialogVars, Promise!helperVars
<1> QED BY <1>2, <1>3, <1>4, <1>5 DEF Dispatch

\* A helper that says nothing and gets no password goes on, forgets or ends.
LEMMA SilentKept ==
  ASSUME IInv, NEW h \in Helpers, NEW s,
         UNCHANGED <<clientVars, failures, stdout>>,
         state' = [state EXCEPT ![h] = s],
         Life(h)' = Life(h) \/ (Life(h) = "works" /\ Life(h)' = "over"),
         TouchesOnly(h), GainsNothing(h)
  PROVE  Kept
<1>1. Promise!MayForget(h)
  BY HoldsLess
<1>2. [g \in Helpers |-> Life(g)]' = [[g \in Helpers |-> Life(g)] EXCEPT ![h] = Life(h)']
  BY LifeChanges DEF IInv, HelperInv
<1>3. CASE Life(h)' = Life(h)
  <2>1. UNCHANGED [g \in Helpers |-> Life(g)]
    BY <1>2, <1>3
  <2>2. Promise!Forget(h)
    BY <1>1, <2>1 DEF clientVars, Promise!Forget, Promise!dialogVars
  <2> QED BY <2>2 DEF Kept, Promise!Next
<1>4. CASE Life(h) = "works" /\ Life(h)' = "over"
  <2>1. Promise!End(h)
    BY <1>1, <1>2, <1>4 DEF clientVars, Promise!End, Promise!Over, Promise!dialogVars
  <2> QED BY <2>1 DEF Kept, Promise!Next
<1> QED BY <1>3, <1>4

\* What the threads of a helper do without an answer.
LEMMA SilentStepKept ==
  ASSUME IInv, NEW h \in Helpers,
         \/ Boot(h) \/ BeginAuth(h) \/ Prompt(h) \/ TakePassword(h) \/ Exit(h)
         \/ ReadStdin(h) \/ Sigterm(h) \/ Shutdown(h) \/ Die(h)
  PROVE  Kept
<1> USE DEF IInv, HelperInv, TypeOK, pamVars, inputVars, Running
<1>1. TouchesOnly(h) /\ UNCHANGED <<clientVars, failures, stdout>>
  BY DEF TouchesOnly, Boot, BeginAuth, Prompt, TakePassword, Exit, ReadStdin, Sigterm,
     Shutdown, Die, Ends
<1>2. CASE Boot(h)
  BY <1>1, <1>2, SilentKept DEF Boot, Life, GainsNothing, Has
<1>3. CASE BeginAuth(h)
  BY <1>1, <1>3, SilentKept DEF BeginAuth, Life, GainsNothing, Has
<1>4. CASE Prompt(h)
  BY <1>1, <1>4, SilentKept DEF Prompt, AfterWriting, Life, GainsNothing, Has
<1>5. CASE TakePassword(h)
  <2>1. state' = [state EXCEPT ![h] = AfterWriting(h, "pam")]
    BY <1>5 DEF TakePassword
  <2>2. Life(h) = "works" /\ Life(h)' \in {"works", "over"}
    BY <1>5, <2>1 DEF TakePassword, AfterWriting, Life
  <2>3. GainsNothing(h)
    BY <1>5 DEF TakePassword, GainsNothing, Has
  <2> QED BY <1>1, <2>1, <2>2, <2>3, SilentKept
<1>6. ASSUME state' = [state EXCEPT ![h] = "exited"], state[h] \in Running,
             slot' = [slot EXCEPT ![h] = "none"], stdin' = [stdin EXCEPT ![h] = <<>>],
             UNCHANGED given
      PROVE  Kept
  <2>1. Life(h) \in {"works", "over"} /\ Life(h)' = "over"
    BY <1>6 DEF Life
  <2>2. stdin'[h] = <<>> /\ DOMAIN <<>> = {}
    BY <1>6
  <2>3. GainsNothing(h)
    BY <1>6, <2>2 DEF GainsNothing, Has
  <2> QED BY <1>1, <1>6, <2>1, <2>3, SilentKept
<1>7. CASE Exit(h) \/ Die(h) \/ (Sigterm(h) /\ state[h] = "boot")
  BY <1>6, <1>7 DEF Exit, Die, Sigterm, Ends
<1>8. ASSUME UNCHANGED state, GainsNothing(h)
      PROVE  Kept
  <2>1. state' = [state EXCEPT ![h] = state[h]] /\ Life(h)' = Life(h)
    BY <1>8 DEF Life
  <2> QED BY <1>1, <1>8, <2>1, SilentKept
<1>9. CASE ReadStdin(h)
  <2>1. stdin[h] \in Seq(Passwords) /\ stdin[h] # <<>>
    BY <1>9 DEF ReadStdin
  <2>2. 1 \in DOMAIN stdin[h] /\ stdin[h][1] = Head(stdin[h]) /\ Head(stdin[h]) \in Passwords
    BY <2>1, HeadTailProperties, LenProperties, EmptySeq
  <2>3. stdin'[h] = <<>> /\ DOMAIN <<>> = {}
    BY <1>9 DEF ReadStdin
  <2>4. slot'[h] = IF Len(stdin[h]) = 1 THEN stdin[h][1] ELSE "wrong"
    BY <1>9, <2>2 DEF ReadStdin
  <2>5. stdin[h][1] = "right" \/ stdin[h][1] = "wrong"
    BY <2>2 DEF Passwords
  <2>6. GainsNothing(h)
    BY <1>9, <2>2, <2>3, <2>4, <2>5 DEF ReadStdin, GainsNothing, Has
  <2> QED BY <1>8, <1>9, <2>6 DEF ReadStdin
<1>10. CASE Sigterm(h) /\ state[h] # "boot"
  BY <1>8, <1>10 DEF Sigterm, GainsNothing, Has
<1>11. CASE Shutdown(h)
  BY <1>8, <1>11 DEF Shutdown, GainsNothing, Has
<1> QED BY <1>2, <1>3, <1>4, <1>5, <1>7, <1>9, <1>10, <1>11

\* auth_message_handler finds stdin cancelled, which happens to no current helper.
LEMMA InterruptKept ==
  ASSUME IInv, AnswersInv, NEW h \in Helpers, GiveUpPrompt(h)
  PROVE  Kept
<1> USE DEF IInv, HelperInv, TypeOK, pamVars, inputVars, Running
<1>1. /\ UNCHANGED <<clientVars, failures, stdout>> /\ TouchesOnly(h)
      /\ state' = [state EXCEPT ![h] = "pam"] /\ Life(h) = "works" /\ Life(h)' = "works"
  BY DEF GiveUpPrompt, TouchesOnly, Life
<1>2. CASE GainsNothing(h)
  BY <1>1, <1>2, SilentKept
<1>3. CASE ~GainsNothing(h)
  <2>1. Best(h) = "nothing" /\ Best(h)' = "wrong"
    BY <1>3 DEF GiveUpPrompt, GainsNothing, Best, Has
  <2>2. h # proc
    BY DEF GiveUpPrompt, ClientInv, ToldUnlessCurrent, AnswersInv, UntoldWrites
  <2>3. /\ [g \in Helpers |-> Life(g)]' = [[g \in Helpers |-> Life(g)] EXCEPT ![h] = Life(h)']
        /\ [g \in Helpers |-> Best(g)]' = [[g \in Helpers |-> Best(g)] EXCEPT ![h] = Best(h)']
    BY <1>1, LifeChanges, HoldsChange
  <2>4. UNCHANGED [g \in Helpers |-> Life(g)]
    BY <1>1, <2>3
  <2>5. Promise!Interrupt(h)
    BY <1>1, <2>1, <2>2, <2>3, <2>4
       DEF clientVars, Promise!Interrupt, Promise!dialogVars
  <2> QED BY <2>5 DEF Kept, Promise!Next
<1> QED BY <1>2, <1>3

\* response_lock_init_failed().
LEMMA BootFailsKept ==
  ASSUME IInv, AnswersInv, NEW h \in Helpers, BootFails(h)
  PROVE  Kept
<1> USE DEF IInv, HelperInv, TypeOK, pamVars, inputVars, Running
<1>1. /\ InitMayFail /\ failures[h] = 0 /\ stdout[h] = <<>>
      /\ UNCHANGED <<clientVars, failures>> /\ TouchesOnly(h)
      /\ Life(h) = "works" /\ Life(h)' = "over"
  BY DEF BootFails, Ends, AnswersInv, BootIsFresh, TouchesOnly, Life
<1>2. Promise!Over(h)
  <2>1. [g \in Helpers |-> Life(g)]' = [[g \in Helpers |-> Life(g)] EXCEPT ![h] = Life(h)']
    BY LifeChanges DEF BootFails, Ends
  <2> QED BY <1>1, <2>1 DEF Promise!Over
<1>3. Promise!MayForget(h)
  <2>1. GainsNothing(h)
    <3>1. stdin'[h] = <<>> /\ slot'[h] = "none" /\ DOMAIN <<>> = {}
      BY DEF BootFails, Ends
    <3> QED BY <3>1 DEF BootFails, GainsNothing, Has
  <2> QED BY <1>1, <2>1, HoldsLess
<1>4. Promise!Says(h, "success")
  <2>1. CASE pipe[h] # "closed"
    BY <2>1 DEF BootFails, Promise!Says
  <2>2. CASE pipe[h] = "closed"
    <3>1. h # proc
      BY <2>2, AuthAssumption DEF ClientInv, CurrentIsHeard
    <3>2. UNCHANGED stdout
      BY <2>2 DEF BootFails
    <3> QED BY <3>1, <3>2 DEF Promise!Says
  <2> QED BY <2>1, <2>2
<1>5. Promise!Abort(h)
  BY <1>1, <1>2, <1>3, <1>4 DEF clientVars, Promise!Abort, Promise!dialogVars
<1> QED BY <1>5 DEF Kept, Promise!Next

\* What a helper has to say is written, or it is not current any more.
LEMMA SendSays ==
  ASSUME IInv, AnswersInv, NEW h \in Helpers, NEW result, NEW next,
         state[h] = "pam", Send(h, result, next)
  PROVE  /\ Promise!Says(h, result)
         /\ state' = [state EXCEPT ![h] = next]
            \/ (h # proc /\ state' = [state EXCEPT ![h] = "exited"])
<1>1. CASE Writes(h) /\ pipe[h] # "closed"
  BY <1>1 DEF Send, AfterWriting, Promise!Says
<1>2. CASE ~(Writes(h) /\ pipe[h] # "closed")
  <2>1. h # proc
    BY <1>2, CurrentWrites
  <2>2. UNCHANGED stdout
    BY <1>2 DEF Send
  <2>3. state' = [state EXCEPT ![h] = next] \/ state' = [state EXCEPT ![h] = "exited"]
    BY DEF Send, AfterWriting
  <2> QED BY <2>1, <2>2, <2>3 DEF Promise!Says
<1> QED BY <1>1, <1>2

\* The password was accepted: it was the right one.
LEMMA AcceptKept ==
  ASSUME IInv, AnswersInv, NEW h \in Helpers, PamAccepts(h)
  PROVE  Kept
<1>1. state[h] = "pam" /\ given[h] = "right" /\ Send(h, "success", "done")
      /\ UNCHANGED <<clientVars, pipe, pamVars, inputVars, told>>
  BY DEF PamAccepts
<1>2. Promise!Says(h, "success")
  BY <1>1, SendSays
<1>3. Promise!Over(h)
  <2>1. PICK s \in {"done", "exited"} : state' = [state EXCEPT ![h] = s]
    BY <1>1 DEF Send, AfterWriting
  <2>2. [g \in Helpers |-> Life(g)]' = [[g \in Helpers |-> Life(g)] EXCEPT ![h] = Life(h)']
    BY <2>1, LifeChanges DEF IInv, HelperInv
  <2>3. Life(h)' = "over"
    BY <2>1 DEF Life, Running, IInv, HelperInv, TypeOK
  <2> QED BY <2>2, <2>3 DEF Promise!Over
<1>4. Life(h) = "works" /\ Best(h) = "right" /\ UNCHANGED [g \in Helpers |-> Best(g)]
  BY <1>1, HoldsStay DEF Life, Running, Best, Has, pamVars, inputVars
<1>5. Promise!Accept(h)
  BY <1>1, <1>2, <1>3, <1>4 DEF clientVars, pamVars, Promise!Accept, Promise!dialogVars
<1> QED BY <1>5 DEF Kept, Promise!Next

\* It was not; the last failure is a cancellation.
LEMMA RejectKept ==
  ASSUME IInv, AnswersInv, NEW h \in Helpers, PamRejects(h)
  PROVE  Kept
<1> USE DEF IInv, HelperInv, TypeOK, pamVars, inputVars, Running
<1>1. /\ state[h] = "pam" /\ given[h] \in Passwords
      /\ failures' = [failures EXCEPT ![h] = @ + 1]
      /\ given' = [given EXCEPT ![h] = "nothing"]
      /\ UNCHANGED <<clientVars, pipe, inputVars, told>>
  BY DEF PamRejects
<1>2. failures[h] < MAX_FAILURES /\ failures[h] \in Nat /\ MAX_FAILURES \in Nat
  BY <1>1, AuthAssumption DEF AttemptsLeft
<1>3. Best(h) # "nothing" /\ Life(h) = "works"
  BY <1>1 DEF Best, Has, Passwords, Life
<1>4. Promise!MayForget(h)
  <2>1. TouchesOnly(h) /\ GainsNothing(h)
    BY <1>1 DEF TouchesOnly, GainsNothing, Has
  <2> QED BY <2>1, HoldsLess
<1>5. ASSUME NEW s, state' = [state EXCEPT ![h] = s]
      PROVE  /\ [g \in Helpers |-> Life(g)]'
                  = [[g \in Helpers |-> Life(g)] EXCEPT ![h] = Life(h)']
             /\ s = "idle" => Life(h)' = "works"
             /\ s \in {"done", "exited"} => Life(h)' = "over"
  BY <1>5, LifeChanges DEF Life
<1>6. CASE failures[h] + 1 < MAX_FAILURES
  <2>1. Send(h, "failure", "idle")
    BY <1>6 DEF PamRejects
  <2>2. /\ Promise!Says(h, "failure")
        /\ state' = [state EXCEPT ![h] = "idle"]
           \/ (h # proc /\ state' = [state EXCEPT ![h] = "exited"])
    BY <1>1, <2>1, SendSays
  <2>3. UNCHANGED [g \in Helpers |-> Life(g)] \/ (h # proc /\ Promise!Over(h))
    BY <1>3, <1>5, <2>2 DEF Promise!Over
  <2>4. Promise!Reject(h)
    BY <1>1, <1>3, <1>4, <1>6, <2>2, <2>3
       DEF clientVars, Promise!Reject, Promise!dialogVars
  <2> QED BY <2>4 DEF Kept, Promise!Next
<1>7. CASE ~(failures[h] + 1 < MAX_FAILURES)
  <2>1. Send(h, "cancelled", "done")
    BY <1>7 DEF PamRejects
  <2>2. Promise!Says(h, "cancelled")
    BY <1>1, <2>1, SendSays
  <2>3. Promise!Over(h)
    <3>1. PICK s \in {"done", "exited"} : state' = [state EXCEPT ![h] = s]
      BY <2>1 DEF Send, AfterWriting
    <3> QED BY <1>5, <3>1 DEF Promise!Over
  <2>4. Promise!GiveUp(h)
    BY <1>1, <1>2, <1>3, <1>4, <1>7, <2>2, <2>3
       DEF clientVars, Promise!GiveUp, Promise!dialogVars
  <2> QED BY <2>4 DEF Kept, Promise!Next
<1> QED BY <1>6, <1>7

\* Every step of the client or of a helper is one of Authenticator, or none.
LEMMA PromiseStep == IInv /\ AnswersInv /\ [Next]_vars => [Promise!Next]_(Promise!vars)
<1> SUFFICES ASSUME IInv, AnswersInv, [Next]_vars PROVE Kept
  BY DEF Kept
<1>1. CASE Cancel \/ StartFails \/ Emit
  BY <1>1, ClientKept
<1>2. ASSUME NEW password \in Passwords, Submit(password) PROVE Kept
  <2>1. proc \in Helpers
    BY <1>2 DEF Submit, IInv, HelperInv, TypeOK
  <2>2. PICK h \in Helpers : proc = h
    BY <2>1
  <2> QED BY <1>2, <2>2, SubmitKept
<1>3. ASSUME NEW h \in Helpers, Start(h) PROVE Kept
  BY <1>3, StartKept
<1>4. ASSUME NEW h \in Helpers, Dispatch(h) PROVE Kept
  BY <1>4, DispatchKept
<1>5. ASSUME NEW h \in Helpers,
             \/ Boot(h) \/ BeginAuth(h) \/ Prompt(h) \/ TakePassword(h) \/ Exit(h)
             \/ ReadStdin(h) \/ Sigterm(h) \/ Shutdown(h) \/ Die(h)
      PROVE  Kept
  BY <1>5, SilentStepKept
<1>6. ASSUME NEW h \in Helpers, BootFails(h) PROVE Kept
  BY <1>6, BootFailsKept
<1>7. ASSUME NEW h \in Helpers, GiveUpPrompt(h) PROVE Kept
  BY <1>7, InterruptKept
<1>8. ASSUME NEW h \in Helpers, PamAccepts(h) PROVE Kept
  BY <1>8, AcceptKept
<1>9. ASSUME NEW h \in Helpers, PamRejects(h) PROVE Kept
  BY <1>9, RejectKept
<1>10. CASE UNCHANGED vars
  <2>1. UNCHANGED <<[g \in Helpers |-> Life(g)], [g \in Helpers |-> Best(g)]>>
    BY <1>10, LivesStay, HoldsStay DEF vars, pamVars, inputVars
  <2> QED
    BY <1>10, <2>1
       DEF vars, clientVars, pamVars, Kept, Promise!vars, Promise!dialogVars,
           Promise!helperVars
<1> QED
  BY <1>1, <1>2, <1>3, <1>4, <1>5, <1>6, <1>7, <1>8, <1>9, <1>10
     DEF Next, User, MainThread

\* The client and any number of helpers, with whatever is still on its way between them,
\* implement Authenticator: success takes the right password, handed to a helper while it
\* was current, or a helper that could not get ready.
THEOREM KeepsThePromise == Spec => KeepsPromise
<1>1. Init => Promise!Init /\ AnswersInv
  <2> SUFFICES ASSUME Init PROVE Promise!Init /\ AnswersInv
    OBVIOUS
  <2>1. \A h \in Helpers : Life(h) = "new" /\ Best(h) = "nothing"
    <3>1. DOMAIN <<>> = {}
      OBVIOUS
    <3> QED BY <3>1 DEF Init, Life, Best, Has
  <2> QED
    BY <2>1 DEF Init, Promise!Init, AnswersInv, UnlockedIsOver, UntoldWrites, BootIsFresh
<1>2. QED
  BY <1>1, AnswersStep, PromiseStep, Invariant, PTL DEF Spec, KeepsPromise, Promise!Spec
\* Whatever implements Authenticator is done once it has unlocked: it has no helper
\* (NoHelperOnceUnlocked), takes no answer, and has none to report.
THEOREM PromiseIsEnough ==
  KeepsPromise => []NoHelperOnceUnlocked /\ [](unlocked => ~cancellable /\ idles = <<>>)
<1> DEFINE Done == unlocked => proc = None /\ ~cancellable /\ idles = <<>>
<1>1. Promise!Init => Done
  BY DEF Promise!Init
<1>2. Done /\ [Promise!Next]_(Promise!vars) => Done'
  <2> SUFFICES ASSUME Done, [Promise!Next]_(Promise!vars) PROVE Done'
    OBVIOUS
  <2> USE DEF Promise!dialogVars, Promise!helperVars, Promise!LetGo
  <2>1. CASE Promise!FailToBegin \/ Promise!Drop
    BY <2>1 DEF Promise!FailToBegin, Promise!Drop
  <2>2. CASE Promise!Unlock \/ Promise!Lower \/ Promise!AskAgain
    BY <2>2 DEF Promise!Unlock, Promise!Lower, Promise!AskAgain
  <2>3. ASSUME NEW h \in Helpers, Promise!Begin(h) PROVE Done'
    BY <2>3 DEF Promise!Begin
  <2>4. ASSUME NEW h \in Helpers, NEW p, Promise!Hand(h, p) PROVE Done'
    BY <2>4 DEF Promise!Hand
  <2>5. ASSUME NEW h \in Helpers, Promise!Hear(h) PROVE Done'
    BY <2>5 DEF Promise!Hear
  <2>6. ASSUME NEW h \in Helpers, Promise!Discard(h) PROVE Done'
    BY <2>6 DEF Promise!Discard
  <2>7. ASSUME NEW h \in Helpers,
               Promise!Accept(h) \/ Promise!Abort(h) \/ Promise!Reject(h) \/ Promise!GiveUp(h)
        PROVE  Done'
    BY <2>7 DEF Promise!Accept, Promise!Abort, Promise!Reject, Promise!GiveUp
  <2>8. ASSUME NEW h \in Helpers,
               Promise!Forget(h) \/ Promise!Interrupt(h) \/ Promise!End(h)
        PROVE  Done'
    BY <2>8 DEF Promise!Forget, Promise!Interrupt, Promise!End
  <2>9. CASE UNCHANGED Promise!vars
    BY <2>9 DEF Promise!vars
  <2> QED
    BY <2>1, <2>2, <2>3, <2>4, <2>5, <2>6, <2>7, <2>8, <2>9 DEF Promise!Next
<1>3. Done => NoHelperOnceUnlocked /\ (unlocked => ~cancellable /\ idles = <<>>)
  BY DEF NoHelperOnceUnlocked
<1> QED BY <1>1, <1>2, <1>3, PTL DEF KeepsPromise, Promise!Spec
=============================================================================
