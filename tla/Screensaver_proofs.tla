--------------------------- MODULE Screensaver_proofs -------------------------
(***************************************************************************)
(* The safety properties of Screensaver hold for every value of its        *)
(* constants.  They are proved together, from one inductive invariant.     *)
(***************************************************************************)
EXTENDS Screensaver, SequenceTheorems, TLAPS

\* Facts the properties of the core rest on and none of them states.  An active screen has
\* a stage, and there is no grab without one.
ActiveHasStage == Active => stage

GrabsNeedStage == ~stage => keyboard = "none" /\ mouse = "none"

\* What a failed refresh leaves: as long as there is an old stage no activation succeeds,
\* and no dialog is raised on a destroyed one.
LeftoverInv ==
  /\ leftover # "none" => SpawnMayRaise
  /\ leftover \in {"shown", "gone"} => ~Active
  /\ leftover \in {"shown", "wreck"} => stage
  /\ Wrecked => ~Awake

\* If constructing the stage cannot raise, a queued Lock() has an idle coming.
NoLockCallForgotten ==
  ~SpawnMayRaise /\ (\E c \in Calls : callState[c] = "queued") => activeIdles # <<>>

\* A raised dialog whose helper has ended waits for a result that will lower it or unlock.
HelperAnswers ==
  ~HelperMayDie /\ Awake /\ ~helper =>
    authIdles # <<>> /\ authIdles[Len(authIdles)] # "failure"

StageInv ==
  /\ ActiveHasStage
  /\ AwakeOnlyWhenLocked
  /\ CallbacksFindTheirStage
  /\ ActiveTimeTellsActive
  /\ HelperOnlyWhileAwake
  /\ StageKeepsProcess
  /\ ActiveHoldsInput
  /\ FallbackOnlyWhileLocked
  /\ UncoveredIsRefreshed
  /\ GrabsNeedStage
  /\ LeftoverInv

QueueInv ==
  /\ ActiveIsAnnounced
  /\ NoLockCallForgotten
  /\ HelperAnswers
  /\ AwakeCanSleep

IInv == TypeOK /\ StageInv /\ QueueInv

-----------------------------------------------------------------------------
(* Queues. *)

\* Appending an element to a queue.
LEMMA AppendLast ==
  ASSUME NEW S, NEW q \in Seq(S), NEW e \in S
  PROVE  /\ Append(q, e) \in Seq(S)
         /\ Append(q, e) # <<>>
         /\ Append(q, e)[Len(Append(q, e))] = e
BY AppendProperties

\* Queueing the signal ActiveChanged(True), and ActiveChanged(False).
LEMMA AppendSignal ==
  ASSUME NEW q \in Seq(BOOLEAN)
  PROVE  /\ Append(q, TRUE) \in Seq(BOOLEAN)
         /\ Append(q, TRUE) # <<>>
         /\ Append(q, TRUE)[Len(Append(q, TRUE))] = TRUE
         /\ Append(q, FALSE) \in Seq(BOOLEAN)
         /\ Append(q, FALSE) # <<>>
<1>1. ASSUME NEW e \in BOOLEAN
      PROVE  /\ Append(q, e) \in Seq(BOOLEAN)
             /\ Append(q, e) # <<>>
             /\ Append(q, e)[Len(Append(q, e))] = e
  BY AppendLast, Zenon
<1> QED BY <1>1, Zenon

\* Taking the head of a queue leaves its last element last.
LEMMA TailLast ==
  ASSUME NEW S, NEW q \in Seq(S), q # <<>>
  PROVE  /\ Head(q) \in S
         /\ Tail(q) \in Seq(S)
         /\ Tail(q) # <<>> => Tail(q)[Len(Tail(q))] = q[Len(q)]
         /\ Tail(q) = <<>> => q[Len(q)] = Head(q)
<1>1. Len(q) \in Nat \ {0}
  BY EmptySeq
<1>2. Head(q) \in S /\ Tail(q) \in Seq(S) /\ Len(Tail(q)) = Len(q) - 1
  BY HeadTailProperties
<1>3. ASSUME Tail(q) # <<>>
      PROVE  Tail(q)[Len(Tail(q))] = q[Len(q)]
  <2>1. Len(q) - 1 \in 1 .. Len(q) - 1
    BY <1>1, <1>2, <1>3, EmptySeq
  <2> QED BY <1>1, <1>2, <2>1
<1>4. ASSUME Tail(q) = <<>>
      PROVE  q[Len(q)] = Head(q)
  <2>1. Len(q) = 1
    BY <1>1, <1>2, <1>4, EmptySeq
  <2> QED BY <2>1
<1> QED BY <1>2, <1>3, <1>4

\* Once ActiveChanged(True) is queued, it is what a client will believe.
LEMMA SignalQueued ==
  ASSUME TypeOK, activeIdles' = Append(activeIdles, TRUE)
  PROVE  LastSignal'
BY AppendSignal DEF TypeOK, LastSignal

-----------------------------------------------------------------------------
(* Deactivation. *)

\* What set_active(False) leaves, whether or not it found a stage, but for a destroyed one.
LEMMA DeactivateEffect ==
  ASSUME IInv, ~Wrecked, NEW done, Deactivate(done)
  PROVE  /\ stage' = FALSE /\ Active' = FALSE /\ activated' = FALSE /\ helper' = FALSE
         /\ leftover' = IF leftover = "none" THEN "none" ELSE "gone"
         /\ keyboard' = "none" /\ mouse' = "none"
         /\ authIdles' = <<>>
         /\ timers' \cap StageTimers = {}
         /\ activeIdles # <<>> => activeIdles' # <<>>
         /\ timers' \in SUBSET Timers /\ activeIdles' \in Seq(BOOLEAN) /\ holds' \in Nat
         /\ covers' \in BOOLEAN /\ panels' \in BOOLEAN /\ checking' \in BOOLEAN
<1>1. CASE stage
  <2>1. DespawnStage /\ timers' = timers \ (done \cup StageTimers)
    BY <1>1 DEF Deactivate
  <2>2. holds' \in Nat
    BY <1>1, <2>1 DEF DespawnStage, ReleaseGrabs, EndHelper, IInv, TypeOK, StageInv,
         StageKeepsProcess
  <2>3. activeIdles' \in Seq(BOOLEAN) /\ (activeIdles # <<>> => activeIdles' # <<>>)
    BY <2>1, AppendSignal DEF DespawnStage, ReleaseGrabs, EndHelper, IInv, TypeOK
  <2> QED
    BY <2>1, <2>2, <2>3 DEF DespawnStage, ReleaseGrabs, EndHelper, IInv, TypeOK
<1>2. CASE ~stage
  <2>1. UNCHANGED stageOnlyVars /\ timers' \subseteq timers
    BY <1>2 DEF Deactivate
  <2>2. /\ ~Active /\ ~activated /\ ~helper /\ authIdles = <<>>
        /\ timers \cap StageTimers = {}
        /\ keyboard = "none" /\ mouse = "none"
    BY <1>2 DEF IInv, StageInv, ActiveHasStage, ActiveTimeTellsActive, GrabsNeedStage,
         AwakeOnlyWhenLocked, HelperOnlyWhileAwake, CallbacksFindTheirStage
  <2>3. leftover \in {"none", "gone"}
    BY <1>2 DEF IInv, TypeOK, StageInv, LeftoverInv, Leftovers
  <2> QED
    BY <1>2, <2>1, <2>2, <2>3 DEF stageOnlyVars, IInv, TypeOK
<1> QED BY <1>1, <1>2 DEF IInv, TypeOK

\* Any deactivation that clears Awake and keeps fbPid behind the lock preserves IInv.
LEMMA DeactivateStep ==
  ASSUME IInv, ~Wrecked, NEW done, Deactivate(done), Awake' = FALSE,
         Locked' \in BOOLEAN, fbPid' \in BOOLEAN, FallbackOnlyWhileLocked',
         bailOuts' \in Nat, running' \in BOOLEAN,
         UNCHANGED <<refreshVars, grabIdles, emitted, callState>>
  PROVE  IInv'
<1> USE DeactivateEffect
<1>1. TypeOK'
  BY EmptySeq DEF IInv, TypeOK, refreshVars, Grab, Leftovers
<1>2. StageInv'
  <2>1. CallbacksFindTheirStage'
    <3>1. "idle-lock-delay" \in StageTimers
      BY DEF StageTimers, Timers
    <3> QED BY <3>1 DEF CallbacksFindTheirStage
  <2>2. LeftoverInv' /\ GrabsNeedStage'
    BY DEF IInv, StageInv, LeftoverInv, GrabsNeedStage, Wrecked
  <2> QED
    BY <2>1, <2>2 DEF StageInv, ActiveHasStage, AwakeOnlyWhenLocked,
         ActiveTimeTellsActive, HelperOnlyWhileAwake, StageKeepsProcess,
         ActiveHoldsInput, UncoveredIsRefreshed
<1>3. QueueInv'
  BY DEF IInv, QueueInv, ActiveIsAnnounced, NoLockCallForgotten, HelperAnswers,
       AwakeCanSleep
<1> QED BY <1>1, <1>2, <1>3 DEF IInv

\* A destroyed stage loses the grabs, and stays.
LEMMA WreckStays ==
  ASSUME IInv, Wrecked, NEW done, Deactivate(done),
         UNCHANGED <<Locked, fbPid, refreshVars, grabIdles, emitted, callState>>,
         Awake' = FALSE,
         bailOuts' \in Nat, running' \in BOOLEAN
  PROVE  IInv'
<1>1. stage /\ ~Awake
  BY DEF IInv, StageInv, LeftoverInv, Wrecked
<1>2. /\ keyboard' = "none" /\ mouse' = "none"
      /\ timers' = timers \ done
      /\ UNCHANGED <<stage, leftover, Active, activated, covers, panels, helper, checking,
                     authIdles, activeIdles, holds>>
  BY <1>1 DEF Deactivate, DespawnRaises, ReleaseGrabs, authVars
<1>3. TypeOK'
  <2>1. timers' \in SUBSET Timers /\ Awake' \in BOOLEAN
    BY <1>2 DEF IInv, TypeOK
  <2>2. keyboard' \in Grab /\ mouse' \in Grab
    BY <1>2 DEF Grab
  <2> QED BY <1>2, <2>1, <2>2 DEF IInv, TypeOK, refreshVars
<1>4. StageInv'
  BY <1>1, <1>2 DEF IInv, StageInv, refreshVars, ActiveHasStage, AwakeOnlyWhenLocked,
       CallbacksFindTheirStage, ActiveTimeTellsActive, HelperOnlyWhileAwake,
       StageKeepsProcess, ActiveHoldsInput, FallbackOnlyWhileLocked,
       UncoveredIsRefreshed, LeftoverInv, GrabsNeedStage, Wrecked
<1>5. QueueInv'
  BY <1>2 DEF IInv, QueueInv, ActiveIsAnnounced, LastSignal, NoLockCallForgotten,
       HelperAnswers, AwakeCanSleep
<1> QED BY <1>3, <1>4, <1>5 DEF IInv

\* unlock() preserves IInv, whatever follows it in the same handler.
LEMMA UnlockStep ==
  ASSUME IInv, Unlock, running' \in BOOLEAN
  PROVE  IInv'
<1>1. CASE Wrecked
  <2>1. Awake' = FALSE
    BY <1>1 DEF Unlock, IInv, TypeOK, StageInv, LeftoverInv
  <2> QED BY <1>1, <2>1, WreckStays DEF Unlock, IInv, TypeOK
<1>2. CASE ~Wrecked
  <2>1. FallbackOnlyWhileLocked' /\ Locked' \in BOOLEAN /\ fbPid' \in BOOLEAN
    BY <1>2 DEF IInv, TypeOK, StageInv, FallbackOnlyWhileLocked, Unlock,
         UnlockAndUnguard, KillFallback
  <2> QED BY <1>2, <2>1, DeactivateStep DEF Unlock, IInv, TypeOK
<1> QED BY <1>1, <1>2

\* The callbacks that deactivate without a look at status.Locked.
LEMMA LateDeactivateStep ==
  ASSUME IInv, NEW done, Deactivate(done), Awake' = (Awake /\ ~stage),
         UNCHANGED <<Locked, fbPid, refreshVars, grabIdles, busVars>>,
         bailOuts' \in Nat
  PROVE  IInv'
<1>1. Awake' = FALSE /\ FallbackOnlyWhileLocked' /\ running' \in BOOLEAN
  BY DEF IInv, TypeOK, StageInv, AwakeOnlyWhenLocked, FallbackOnlyWhileLocked, busVars
<1> QED BY <1>1, DeactivateStep, WreckStays DEF IInv, TypeOK, busVars

-----------------------------------------------------------------------------
(* Locking and activation. *)

\* Whether or not a step calls set_locked(True), the fallback guards a locked screen.
LEMMA GuardEffect ==
  ASSUME TypeOK, FallbackOnlyWhileLocked, LockAndGuard \/ UNCHANGED <<Locked, fbPid>>
  PROVE  /\ Locked' \in BOOLEAN /\ fbPid' \in BOOLEAN
         /\ Locked => Locked'
         /\ FallbackOnlyWhileLocked'
<1>1. CASE LockAndGuard
  <2>1. Locked' = TRUE
    BY <1>1 DEF LockAndGuard, SpawnFallback
  <2>2. CASE UseFallback /\ ~fbPid
    <3>1. fbPid' = TRUE \/ fbPid' = FALSE
      BY <1>1, <2>2 DEF LockAndGuard, SpawnFallback
    <3> QED BY <2>1, <2>2, <3>1 DEF FallbackOnlyWhileLocked
  <2>3. CASE ~(UseFallback /\ ~fbPid)
    BY <1>1, <2>1, <2>3 DEF LockAndGuard, SpawnFallback, TypeOK, FallbackOnlyWhileLocked
  <2> QED BY <2>2, <2>3
<1>2. CASE UNCHANGED <<Locked, fbPid>>
  BY <1>2 DEF TypeOK, FallbackOnlyWhileLocked
<1> QED BY <1>1, <1>2

\* Constructing a stage queues one bail-out at most.
LEMMA NoteBuildType ==
  ASSUME TypeOK, NEW build, NoteBuild(build)
  PROVE  bailOuts' \in Nat
<1>1. bailOuts' = bailOuts + 1 \/ bailOuts' = bailOuts + 0
  BY DEF NoteBuild
<1> QED BY <1>1 DEF TypeOK

\* What answering or queueing a Lock() call does to the others.
LEMMA ReplyEffect ==
  ASSUME TypeOK, NEW c \in Calls, NEW r \in CallStates, Reply(c, r)
  PROVE  /\ callState' \in [Calls -> CallStates]
         /\ r # "queued" =>
              \A d \in Calls : callState'[d] = "queued" => callState[d] = "queued"
BY DEF TypeOK, Reply

\* lock() on an active screen.
LEMMA LockShownStep ==
  ASSUME IInv, LockShown, callState' \in [Calls -> CallStates], NoLockCallForgotten'
  PROVE  IInv'
<1>1. /\ Locked' \in BOOLEAN /\ fbPid' \in BOOLEAN
      /\ Locked => Locked'
      /\ FallbackOnlyWhileLocked'
  BY GuardEffect DEF LockShown, IInv, StageInv
<1>2. UNCHANGED <<Awake, stageVars, refreshVars, grabIdles, bailOuts, running, emitted>>
  BY DEF LockShown
<1>3. TypeOK'
  BY <1>1, <1>2 DEF IInv, TypeOK, stageVars, stageOnlyVars, refreshVars
<1>4. StageInv'
  BY <1>1, <1>2 DEF IInv, TypeOK, StageInv, stageVars, stageOnlyVars, refreshVars,
       ActiveHasStage, AwakeOnlyWhenLocked, CallbacksFindTheirStage,
       ActiveTimeTellsActive, HelperOnlyWhileAwake, StageKeepsProcess, ActiveHoldsInput,
       UncoveredIsRefreshed, LeftoverInv, GrabsNeedStage, Wrecked
<1>5. QueueInv'
  BY <1>2 DEF IInv, QueueInv, stageVars, stageOnlyVars, ActiveIsAnnounced, LastSignal,
       HelperAnswers, AwakeCanSleep
<1> QED BY <1>3, <1>4, <1>5 DEF IInv

\* Activation up to on_spawn_stage_complete, and locking or not in the same step.
LEMMA ShowStep ==
  ASSUME IInv, NEW build, ShowStage(build),
         LockAndGuard \/ UNCHANGED <<Locked, fbPid>>,
         timers' \in SUBSET Timers, callState' \in [Calls -> CallStates]
  PROVE  IInv'
<1>1. /\ Locked' \in BOOLEAN /\ fbPid' \in BOOLEAN
      /\ FallbackOnlyWhileLocked'
  BY GuardEffect DEF IInv, StageInv
<1>2. /\ stage' = TRUE /\ Active' = TRUE /\ activated' = TRUE
      /\ keyboard' = "stage" /\ mouse' = "stage"
      /\ activeIdles' = Append(activeIdles, TRUE)
      /\ leftover \in {"none", "wreck"}
      /\ UNCHANGED <<Awake, leftover, refreshVars, authVars, grabIdles, running, emitted>>
  BY DEF ShowStage, NewStage
<1>3. activeIdles' \in Seq(BOOLEAN) /\ activeIdles' # <<>>
  BY <1>2, AppendSignal DEF IInv, TypeOK
<1>4. /\ holds' \in Nat /\ holds' > 0 /\ bailOuts' \in Nat
      /\ covers' \in BOOLEAN /\ panels' \in BOOLEAN
      /\ covers' \/ (stage /\ covers' = covers)
  <2>1. CASE stage
    BY <2>1 DEF ShowStage, NewStage, IInv, TypeOK, StageInv, StageKeepsProcess
  <2>2. CASE ~stage
    <3>1. covers' = TRUE /\ panels' = FALSE /\ holds' = holds + 1 /\ NoteBuild(build)
      BY <2>2 DEF ShowStage, NewStage
    <3>2. holds \in Nat /\ bailOuts \in Nat
      BY DEF IInv, TypeOK
    <3>3. holds' \in Nat /\ holds' > 0
      BY <3>1, <3>2
    <3>4. bailOuts' \in Nat
      BY <3>1, NoteBuildType DEF IInv
    <3> QED BY <3>1, <3>3, <3>4
  <2> QED BY <2>1, <2>2
<1>5. Awake = FALSE /\ helper = FALSE
  BY DEF ShowStage, NewStage, IInv, TypeOK, StageInv, AwakeOnlyWhenLocked,
       HelperOnlyWhileAwake
<1>6. TypeOK'
  BY <1>1, <1>2, <1>3, <1>4 DEF IInv, TypeOK, Grab, refreshVars, authVars
<1>7. StageInv'
  BY <1>1, <1>2, <1>4, <1>5 DEF IInv, StageInv, refreshVars, authVars, ActiveHasStage,
       AwakeOnlyWhenLocked, CallbacksFindTheirStage, ActiveTimeTellsActive,
       HelperOnlyWhileAwake, StageKeepsProcess, ActiveHoldsInput, UncoveredIsRefreshed,
       LeftoverInv, GrabsNeedStage, Wrecked
<1>8. QueueInv'
  BY <1>2, <1>3, <1>5, SignalQueued DEF IInv, QueueInv, ActiveIsAnnounced,
       NoLockCallForgotten, HelperAnswers, AwakeCanSleep
<1> QED BY <1>6, <1>7, <1>8 DEF IInv

\* Activation when the stage cannot be constructed.
LEMMA RaiseStep ==
  ASSUME IInv, SpawnRaises, Locked' \in BOOLEAN, Locked => Locked',
         callState' \in [Calls -> CallStates]
  PROVE  IInv'
<1>1. TypeOK'
  <2>1. holds' \in Nat
    BY DEF SpawnRaises, ReleaseGrabs, IInv, TypeOK
  <2> QED
    BY <2>1 DEF IInv, TypeOK, SpawnRaises, ReleaseGrabs, Grab, refreshVars, authVars
<1>2. StageInv'
  BY DEF IInv, TypeOK, StageInv, SpawnRaises, ReleaseGrabs, refreshVars, authVars,
       ActiveHasStage, AwakeOnlyWhenLocked, CallbacksFindTheirStage,
       ActiveTimeTellsActive, HelperOnlyWhileAwake, StageKeepsProcess, ActiveHoldsInput,
       FallbackOnlyWhileLocked, UncoveredIsRefreshed, LeftoverInv, GrabsNeedStage, Wrecked
<1>3. QueueInv'
  BY DEF IInv, StageInv, QueueInv, SpawnRaises, ReleaseGrabs, ActiveIsAnnounced,
       NoLockCallForgotten, HelperAnswers, AwakeCanSleep, AwakeOnlyWhenLocked
<1> QED BY <1>1, <1>2, <1>3 DEF IInv

\* Activation when destroying an old stage once more raises.
LEMMA SpoiledStep ==
  ASSUME IInv, NEW build, SpawnSpoiled(build),
         LockAndGuard \/ UNCHANGED <<Locked, fbPid>>,
         callState' \in [Calls -> CallStates]
  PROVE  IInv'
<1>1. Locked' \in BOOLEAN /\ fbPid' \in BOOLEAN /\ FallbackOnlyWhileLocked'
  BY GuardEffect DEF IInv, StageInv
<1>2. /\ leftover = "gone" /\ ~Active /\ ~stage /\ stage' = TRUE
      /\ holds' = holds + 1
      /\ covers' = TRUE /\ panels' = FALSE /\ NoteBuild(build)
      /\ keyboard' = "none" /\ mouse' = "none"
      /\ activated' = FALSE
      /\ timers' = timers \ {"setup-delayed-components", "idle-lock-delay"}
      /\ UNCHANGED <<Active, Awake, leftover, refreshVars, authVars, activeIdles,
                     grabIdles, running, emitted>>
  BY DEF SpawnSpoiled, NewStage, ReleaseGrabs
<1>3. ~Awake /\ ~helper /\ SpawnMayRaise
  BY <1>2 DEF IInv, StageInv, AwakeOnlyWhenLocked, HelperOnlyWhileAwake, LeftoverInv
<1>4. TypeOK'
  <2>1. bailOuts' \in Nat
    BY <1>2, NoteBuildType DEF IInv
  <2>2. timers' \in SUBSET Timers /\ holds' \in Nat
    BY <1>2 DEF IInv, TypeOK
  <2>3. keyboard' \in Grab /\ mouse' \in Grab
    BY <1>2 DEF Grab
  <2> QED BY <1>1, <1>2, <2>1, <2>2, <2>3 DEF IInv, TypeOK, refreshVars, authVars
<1>5. StageInv'
  <2>1. holds \in Nat
    BY DEF IInv, TypeOK
  <2> QED
    BY <1>1, <1>2, <1>3, <2>1 DEF IInv, StageInv, authVars, ActiveHasStage,
         AwakeOnlyWhenLocked, CallbacksFindTheirStage, ActiveTimeTellsActive,
         HelperOnlyWhileAwake, StageKeepsProcess, ActiveHoldsInput, UncoveredIsRefreshed,
         LeftoverInv, GrabsNeedStage, Wrecked
<1>6. QueueInv'
  BY <1>2, <1>3 DEF QueueInv, ActiveIsAnnounced, NoLockCallForgotten, HelperAnswers,
       AwakeCanSleep
<1> QED BY <1>4, <1>5, <1>6 DEF IInv

\* Activation when on_spawn_stage_complete raises over a stage that was there.
LEMMA ActivationRaisesStep ==
  ASSUME IInv, ActivationRaises, callState' \in [Calls -> CallStates]
  PROVE  IInv'
<1>1. /\ ~Active /\ stage /\ leftover \in {"shown", "gone"}
      /\ leftover' \in {"gone", "wreck"}
      /\ keyboard' \in Grab /\ mouse' \in Grab
      /\ timers' \subseteq timers
      /\ UNCHANGED covers \/ leftover' = "wreck"
      /\ covers' \in BOOLEAN /\ panels' \in BOOLEAN /\ checking' \in BOOLEAN
      /\ UNCHANGED helper \/ helper' = FALSE
      /\ authIdles' \in {<<>>, authIdles}
      /\ UNCHANGED <<statusVars, stage, activated, refreshVars, fbPid, activeIdles,
                     grabIdles, bailOuts, holds, running, emitted>>
  <2>1. CASE WreckStage
    BY <2>1 DEF ActivationRaises, WreckStage, EndHelper, IInv, TypeOK, Grab
  <2>2. CASE ~WreckStage
    BY <2>2 DEF ActivationRaises, IInv, TypeOK, Grab, authVars
  <2> QED BY <2>1, <2>2
<1>2. ~Awake /\ ~helper /\ SpawnMayRaise
  BY <1>1 DEF IInv, StageInv, AwakeOnlyWhenLocked, HelperOnlyWhileAwake, LeftoverInv
<1>3. TypeOK'
  <2>1. /\ leftover' \in Leftovers
        /\ authIdles' \in Seq(AuthResults) /\ helper' \in BOOLEAN
        /\ timers' \in SUBSET Timers
    BY <1>1, EmptySeq DEF IInv, TypeOK, Leftovers
  <2> QED BY <1>1, <2>1 DEF IInv, TypeOK, statusVars, refreshVars
<1>4. StageInv'
  BY <1>1, <1>2 DEF IInv, StageInv, statusVars, refreshVars, ActiveHasStage,
       AwakeOnlyWhenLocked, CallbacksFindTheirStage, ActiveTimeTellsActive,
       HelperOnlyWhileAwake, StageKeepsProcess, ActiveHoldsInput,
       FallbackOnlyWhileLocked, UncoveredIsRefreshed, LeftoverInv, GrabsNeedStage, Wrecked
<1>5. QueueInv'
  BY <1>1, <1>2 DEF statusVars, QueueInv, ActiveIsAnnounced, NoLockCallForgotten,
       HelperAnswers, AwakeCanSleep
<1> QED BY <1>3, <1>4, <1>5 DEF IInv

-----------------------------------------------------------------------------
(* Refreshing. *)

\* A refresh that ends in queue_refresh_stage's exception.
LEMMA RefreshRaisesStep ==
  ASSUME IInv, NEW build, RefreshRaises(build), refreshQueued' \in BOOLEAN
  PROVE  IInv'
<1>1. /\ stage /\ stage' = stage /\ leftover' = "none" /\ holds' = holds
      /\ covers' = TRUE /\ panels' = FALSE
      /\ checking' = FALSE /\ authIdles' = <<>> /\ refreshing' = FALSE
      /\ UNCHANGED <<grabIdles, running, emitted, callState>>
  BY DEF RefreshRaises, ReleaseGrabs, ReplaceStage, NewStage, busVars
<1>2. /\ refreshAgain' = FALSE
      /\ Active' = FALSE /\ activated' = FALSE /\ Awake' = FALSE /\ helper' = FALSE
      /\ keyboard' = "none" /\ mouse' = "none"
      /\ timers' = timers \ StageTimers
      /\ UNCHANGED <<Locked, fbPid, activeIdles>>
  BY DEF RefreshRaises, ReleaseGrabs
<1>3. TypeOK'
  <2>1. bailOuts' \in Nat
    BY NoteBuildType DEF RefreshRaises, ReleaseGrabs, ReplaceStage, NewStage, IInv
  <2> QED
    BY <1>1, <1>2, <2>1, EmptySeq DEF IInv, TypeOK, Grab, Leftovers
<1>4. StageInv'
  <2>1. "idle-lock-delay" \in StageTimers
    BY DEF StageTimers, Timers
  <2> QED
    BY <1>1, <1>2, <2>1 DEF IInv, TypeOK, StageInv, ActiveHasStage, AwakeOnlyWhenLocked,
         CallbacksFindTheirStage, ActiveTimeTellsActive, HelperOnlyWhileAwake,
         StageKeepsProcess, ActiveHoldsInput, FallbackOnlyWhileLocked,
         UncoveredIsRefreshed, LeftoverInv, GrabsNeedStage, Wrecked
<1>5. QueueInv'
  BY <1>1, <1>2 DEF IInv, QueueInv, ActiveIsAnnounced, NoLockCallForgotten,
       HelperAnswers, AwakeCanSleep
<1> QED BY <1>3, <1>4, <1>5 DEF IInv

\* A refresh that gets to its end.
LEMMA RefreshCompletesStep ==
  ASSUME IInv, NEW build, NEW policy, NEW wakes \in BOOLEAN,
         RefreshCompletes(build, policy, wakes), refreshQueued' \in BOOLEAN
  PROVE  IInv'
<1>1. /\ stage /\ stage' = stage /\ leftover' = "none" /\ holds' = holds
      /\ covers' = TRUE /\ panels' = FALSE
      /\ checking' = FALSE /\ authIdles' = <<>> /\ refreshing' = FALSE
      /\ UNCHANGED <<grabIdles, running, emitted, callState, refreshAgain>>
  BY DEF RefreshCompletes, ReplaceStage, NewStage, busVars
<1>2. /\ wakes => Active /\ Locked
      /\ Awake' = wakes /\ helper' = wakes
      /\ Active' = TRUE /\ activated' = TRUE
      /\ keyboard' = "stage" /\ mouse' = IF wakes THEN "none" ELSE "stage"
      /\ wakes => "wake-timeout" \in timers'
      /\ activeIdles' = Append(activeIdles, TRUE)
  BY DEF RefreshCompletes
<1>3. activeIdles' \in Seq(BOOLEAN) /\ activeIdles' # <<>>
  BY <1>2, AppendSignal DEF IInv, TypeOK
<1>4. /\ Locked' \in BOOLEAN /\ fbPid' \in BOOLEAN
      /\ Locked => Locked'
      /\ FallbackOnlyWhileLocked'
  BY GuardEffect DEF RefreshCompletes, IInv, StageInv
<1>5. TypeOK'
  <2>1. bailOuts' \in Nat
    BY NoteBuildType DEF RefreshCompletes, ReplaceStage, NewStage, IInv
  <2>2. timers' \in SUBSET Timers
    BY DEF RefreshCompletes, IInv, TypeOK, Timers, DelayTimer
  <2> QED
    BY <1>1, <1>2, <1>3, <1>4, <2>1, <2>2, EmptySeq DEF IInv, TypeOK, Grab, Leftovers
<1>6. StageInv'
  BY <1>1, <1>2, <1>4 DEF IInv, StageInv, ActiveHasStage, AwakeOnlyWhenLocked,
       CallbacksFindTheirStage, ActiveTimeTellsActive, HelperOnlyWhileAwake,
       StageKeepsProcess, ActiveHoldsInput, UncoveredIsRefreshed,
       LeftoverInv, GrabsNeedStage, Wrecked
<1>7. QueueInv'
  BY <1>1, <1>2, <1>3, SignalQueued DEF IInv, QueueInv, ActiveIsAnnounced,
       NoLockCallForgotten, HelperAnswers, AwakeCanSleep
<1> QED BY <1>5, <1>6, <1>7 DEF IInv

\* A refresh that cannot construct a new stage.
LEMMA RefreshFailsStep ==
  ASSUME IInv, NEW begun \in BOOLEAN, RefreshFails(begun), begun \/ ~refreshing,
         refreshQueued' \in BOOLEAN, refreshQueued' \/ ~refreshQueued \/ begun
  PROVE  IInv'
<1>1. /\ SpawnMayRaise /\ stage /\ ~Wrecked
      /\ leftover' = "shown" /\ refreshing' = begun
      /\ Active' = FALSE /\ activated' = FALSE /\ Awake' = FALSE
      /\ keyboard' = "none" /\ mouse' = "none"
      /\ helper' = FALSE /\ checking' = FALSE
      /\ timers' = timers \ {"wake-timeout", "idle-lock-delay"}
      /\ UNCHANGED <<Locked, stage, refreshAgain, fbPid, covers, panels, authIdles,
                     activeIdles, grabIdles, bailOuts, holds, running, emitted, callState>>
  BY DEF RefreshFails, ReleaseGrabs, EndHelper, busVars
<1>2. TypeOK'
  BY <1>1 DEF IInv, TypeOK, Grab, Leftovers
<1>3. StageInv'
  BY <1>1 DEF IInv, StageInv, ActiveHasStage, AwakeOnlyWhenLocked,
       CallbacksFindTheirStage, ActiveTimeTellsActive, HelperOnlyWhileAwake,
       StageKeepsProcess, ActiveHoldsInput, FallbackOnlyWhileLocked,
       UncoveredIsRefreshed, LeftoverInv, GrabsNeedStage, Wrecked
<1>4. QueueInv'
  BY <1>1 DEF IInv, QueueInv, ActiveIsAnnounced, NoLockCallForgotten, HelperAnswers,
       AwakeCanSleep
<1> QED BY <1>2, <1>3, <1>4 DEF IInv

\* refresh_stage on a stage.
LEMMA RefreshStep ==
  ASSUME IInv, NEW begun \in BOOLEAN, RefreshStage(begun), begun \/ ~refreshing,
         refreshQueued' \in BOOLEAN, refreshQueued' \/ ~refreshQueued \/ begun
  PROVE  IInv'
BY RefreshFailsStep, RefreshRaisesStep, RefreshCompletesStep DEF RefreshStage

-----------------------------------------------------------------------------
(* The dialog. *)

\* cancel_unlocking, from a key, from the timeout or for a result that has been queued.
LEMMA CancelStep ==
  ASSUME IInv, CancelUnlocking, stage,
         UNCHANGED authIdles \/ (authIdles # <<>> /\ authIdles' = Tail(authIdles))
  PROVE  IInv'
<1>1. authIdles' \in Seq(AuthResults) /\ (authIdles' # <<>> => authIdles # <<>>)
  BY TailLast DEF IInv, TypeOK
<1>2. TypeOK'
  <2>1. keyboard' \in Grab /\ mouse' \in Grab
    BY DEF IInv, TypeOK, CancelUnlocking, GrabStage, EndHelper, Grab
  <2>2. /\ Awake' = FALSE /\ helper' = FALSE /\ checking' = FALSE
        /\ timers' \in SUBSET Timers
    BY DEF IInv, TypeOK, CancelUnlocking, GrabStage, EndHelper
  <2> QED
    BY <1>1, <2>1, <2>2 DEF IInv, TypeOK, CancelUnlocking, GrabStage, EndHelper,
         refreshVars, busVars
<1>3. StageInv'
  BY <1>1 DEF IInv, TypeOK, StageInv, CancelUnlocking, GrabStage, EndHelper,
       refreshVars, ActiveHasStage, AwakeOnlyWhenLocked, CallbacksFindTheirStage,
       ActiveTimeTellsActive, HelperOnlyWhileAwake, StageKeepsProcess, ActiveHoldsInput,
       FallbackOnlyWhileLocked, UncoveredIsRefreshed, LeftoverInv, GrabsNeedStage, Wrecked
<1>4. QueueInv'
  BY DEF IInv, QueueInv, CancelUnlocking, GrabStage, EndHelper, busVars,
       ActiveIsAnnounced, LastSignal, NoLockCallForgotten, HelperAnswers, AwakeCanSleep
<1> QED BY <1>2, <1>3, <1>4 DEF IInv

\* simulate_user_activity, with the password submitted before it or not.
LEMMA WakeStep ==
  ASSUME IInv, Active, UNCHANGED userUnchanged,
         \/ WakeOrDeactivate(timers) /\ UNCHANGED checking
         \/ WakeOrDeactivate(timers \ {"wake-timeout"}) /\ checking' = (checking \/ helper)
  PROVE  IInv'
<1>1. /\ UNCHANGED <<Active, Locked, stage, leftover, activated, refreshQueued, refreshing,
                     refreshAgain, fbPid, keyboard, covers, panels, authIdles, activeIdles,
                     grabIdles, bailOuts, holds, running, emitted, callState>>
      /\ checking' \in BOOLEAN
  BY DEF userUnchanged, refreshVars, busVars, IInv, TypeOK
<1>2. timers' \in SUBSET Timers
  BY DEF WakeOrDeactivate, RaiseDialog, IInv, TypeOK, Timers
<1>3. \/ Locked /\ ~Wrecked /\ helper' = TRUE /\ Awake' = TRUE /\ mouse' = "none"
           /\ "wake-timeout" \in timers'
      \/ /\ Locked => ~helper
         /\ UNCHANGED <<helper, Awake, mouse>>
  BY DEF WakeOrDeactivate, RaiseDialog
<1>4. TypeOK'
  <2>1. mouse' \in Grab /\ helper' \in BOOLEAN /\ Awake' \in BOOLEAN
    BY <1>3 DEF IInv, TypeOK, Grab
  <2> QED
    BY <1>1, <1>2, <2>1 DEF IInv, TypeOK
<1>5. StageInv'
  <2>1. "idle-lock-delay" \in timers' => "idle-lock-delay" \in timers
    BY DEF WakeOrDeactivate, RaiseDialog
  <2> QED
    BY <1>1, <1>3, <2>1 DEF IInv, StageInv, ActiveHasStage, AwakeOnlyWhenLocked,
         CallbacksFindTheirStage, ActiveTimeTellsActive, HelperOnlyWhileAwake,
         StageKeepsProcess, ActiveHoldsInput, FallbackOnlyWhileLocked,
         UncoveredIsRefreshed, LeftoverInv, GrabsNeedStage, Wrecked
<1>6. QueueInv'
  BY <1>1, <1>3 DEF IInv, StageInv, QueueInv, AwakeOnlyWhenLocked, HelperOnlyWhileAwake,
       ActiveIsAnnounced, LastSignal, NoLockCallForgotten, HelperAnswers, AwakeCanSleep
<1> QED BY <1>4, <1>5, <1>6 DEF IInv

-----------------------------------------------------------------------------
(* The steps that change few variables. *)

\* A stage that no longer covers the screens has queued a refresh.
LEMMA ScreenChangedStep ==
  ASSUME IInv, ScreenChanged
  PROVE  IInv'
<1>1. TypeOK'
  BY DEF IInv, TypeOK, ScreenChanged, statusVars, refreshVars, grabVars, authVars,
       busVars
<1>2. StageInv'
  BY DEF IInv, TypeOK, StageInv, ScreenChanged, statusVars, refreshVars, grabVars,
       authVars, busVars, ActiveHasStage, AwakeOnlyWhenLocked, CallbacksFindTheirStage,
       ActiveTimeTellsActive, HelperOnlyWhileAwake, StageKeepsProcess, ActiveHoldsInput,
       FallbackOnlyWhileLocked, UncoveredIsRefreshed, LeftoverInv, GrabsNeedStage, Wrecked
<1>3. QueueInv'
  BY DEF IInv, StageInv, QueueInv, ScreenChanged, statusVars, refreshVars, grabVars,
       authVars, busVars, ActiveIsAnnounced, LastSignal, NoLockCallForgotten,
       HelperAnswers, AwakeCanSleep
<1> QED BY <1>1, <1>2, <1>3 DEF IInv

\* A broken grab is still recorded.
LEMMA GrabBrokenStep ==
  ASSUME IInv, GrabBroken
  PROVE  IInv'
<1>1. TypeOK'
  BY DEF IInv, TypeOK, GrabBroken, statusVars, refreshVars, grabVars, authVars, busVars,
       Grab
<1>2. StageInv'
  BY DEF IInv, TypeOK, StageInv, GrabBroken, statusVars, refreshVars, grabVars,
       authVars, busVars, Grab, ActiveHasStage, AwakeOnlyWhenLocked,
       CallbacksFindTheirStage, ActiveTimeTellsActive, HelperOnlyWhileAwake,
       StageKeepsProcess, ActiveHoldsInput, FallbackOnlyWhileLocked,
       UncoveredIsRefreshed, LeftoverInv, GrabsNeedStage, Wrecked
<1>3. QueueInv'
  BY DEF IInv, StageInv, QueueInv, GrabBroken, statusVars, refreshVars, grabVars,
       authVars, busVars, Grab, ActiveIsAnnounced, LastSignal, NoLockCallForgotten,
       HelperAnswers, AwakeCanSleep
<1> QED BY <1>1, <1>2, <1>3 DEF IInv

\* Grabbing again never drops a grab.
LEMMA GrabIdleStep ==
  ASSUME IInv, GrabIdle
  PROVE  IInv'
<1>1. TypeOK'
  BY DEF IInv, TypeOK, GrabIdle, GrabStage, statusVars, refreshVars, grabVars, authVars,
       busVars, Grab
<1>2. StageInv'
  BY DEF IInv, TypeOK, StageInv, GrabIdle, GrabStage, statusVars, refreshVars, grabVars,
       authVars, busVars, Grab, ActiveHasStage, AwakeOnlyWhenLocked,
       CallbacksFindTheirStage, ActiveTimeTellsActive, HelperOnlyWhileAwake,
       StageKeepsProcess, ActiveHoldsInput, FallbackOnlyWhileLocked,
       UncoveredIsRefreshed, LeftoverInv, GrabsNeedStage, Wrecked
<1>3. QueueInv'
  BY DEF IInv, StageInv, QueueInv, GrabIdle, GrabStage, statusVars, refreshVars,
       grabVars, authVars, busVars, Grab, ActiveIsAnnounced, LastSignal,
       NoLockCallForgotten, HelperAnswers, AwakeCanSleep
<1> QED BY <1>1, <1>2, <1>3 DEF IInv

\* A helper that may die gives no promise of an answer.
LEMMA HelperDiesStep ==
  ASSUME IInv, HelperDies
  PROVE  IInv'
<1>1. TypeOK'
  BY DEF IInv, TypeOK, HelperDies, EndHelper, statusVars, refreshVars, grabVars,
       authVars, busVars
<1>2. StageInv'
  BY DEF IInv, TypeOK, StageInv, HelperDies, EndHelper, statusVars, refreshVars,
       grabVars, authVars, busVars, ActiveHasStage, AwakeOnlyWhenLocked,
       CallbacksFindTheirStage, ActiveTimeTellsActive, HelperOnlyWhileAwake,
       StageKeepsProcess, ActiveHoldsInput, FallbackOnlyWhileLocked,
       UncoveredIsRefreshed, LeftoverInv, GrabsNeedStage, Wrecked
<1>3. QueueInv'
  BY DEF IInv, StageInv, QueueInv, HelperDies, EndHelper, statusVars, refreshVars,
       grabVars, authVars, busVars, ActiveIsAnnounced, LastSignal, NoLockCallForgotten,
       HelperAnswers, AwakeCanSleep
<1> QED BY <1>1, <1>2, <1>3 DEF IInv

\* The late components touch only their own timer.
LEMMA DelayedComponentsStep ==
  ASSUME IInv, DelayedComponents
  PROVE  IInv'
<1>1. TypeOK'
  BY DEF IInv, TypeOK, DelayedComponents, statusVars, refreshVars, grabVars, authVars,
       busVars
<1>2. StageInv'
  BY DEF IInv, TypeOK, StageInv, DelayedComponents, statusVars, refreshVars, grabVars,
       authVars, busVars, ActiveHasStage, AwakeOnlyWhenLocked, CallbacksFindTheirStage,
       ActiveTimeTellsActive, HelperOnlyWhileAwake, StageKeepsProcess, ActiveHoldsInput,
       FallbackOnlyWhileLocked, UncoveredIsRefreshed, LeftoverInv, GrabsNeedStage, Wrecked
<1>3. QueueInv'
  BY DEF IInv, StageInv, QueueInv, DelayedComponents, statusVars, refreshVars, grabVars,
       authVars, busVars, ActiveIsAnnounced, LastSignal, NoLockCallForgotten,
       HelperAnswers, AwakeCanSleep
<1> QED BY <1>1, <1>2, <1>3 DEF IInv

\* Ending the process changes nothing else.
LEMMA InactivityExitStep ==
  ASSUME IInv, InactivityExit
  PROVE  IInv'
<1>1. TypeOK'
  <2>1. /\ running' \in BOOLEAN
        /\ UNCHANGED <<statusVars, stageVars, refreshVars, fbPid, grabIdles, bailOuts,
                       emitted, callState>>
    BY DEF InactivityExit
  <2> QED
    BY <2>1 DEF IInv, TypeOK, statusVars, stageVars, stageOnlyVars, refreshVars
<1>2. StageInv'
  BY DEF IInv, TypeOK, StageInv, InactivityExit, statusVars, refreshVars, grabVars,
       authVars, busVars, stageVars, stageOnlyVars, ActiveHasStage, AwakeOnlyWhenLocked,
       CallbacksFindTheirStage, ActiveTimeTellsActive, HelperOnlyWhileAwake,
       StageKeepsProcess, ActiveHoldsInput, FallbackOnlyWhileLocked,
       UncoveredIsRefreshed, LeftoverInv, GrabsNeedStage, Wrecked
<1>3. QueueInv'
  BY DEF IInv, StageInv, QueueInv, InactivityExit, statusVars, refreshVars, grabVars,
       authVars, busVars, stageVars, stageOnlyVars, ActiveIsAnnounced, LastSignal,
       NoLockCallForgotten, HelperAnswers, AwakeCanSleep
<1> QED BY <1>1, <1>2, <1>3 DEF IInv

\* Submitting the password hands the dialog over to the helper.
LEMMA UnlockClickedStep ==
  ASSUME IInv, UnlockClicked
  PROVE  IInv'
<1>1. TypeOK'
  BY DEF IInv, TypeOK, UnlockClicked, SubmitPassword, statusVars, refreshVars, grabVars,
       authVars, busVars, userUnchanged
<1>2. StageInv'
  BY DEF IInv, TypeOK, StageInv, UnlockClicked, SubmitPassword, statusVars, refreshVars,
       grabVars, authVars, busVars, userUnchanged, ActiveHasStage, AwakeOnlyWhenLocked,
       CallbacksFindTheirStage, ActiveTimeTellsActive, HelperOnlyWhileAwake,
       StageKeepsProcess, ActiveHoldsInput, FallbackOnlyWhileLocked,
       UncoveredIsRefreshed, LeftoverInv, GrabsNeedStage, Wrecked
<1>3. QueueInv'
  BY DEF IInv, StageInv, QueueInv, UnlockClicked, SubmitPassword, statusVars,
       refreshVars, grabVars, authVars, busVars, userUnchanged, ActiveIsAnnounced,
       LastSignal, NoLockCallForgotten, HelperAnswers, AwakeCanSleep
<1> QED BY <1>1, <1>2, <1>3 DEF IInv

\* The lock delay locks an active screen.
LEMMA LockDelayTimeoutStep ==
  ASSUME IInv, LockDelayTimeout
  PROVE  IInv'
<1>1. /\ Locked' \in BOOLEAN /\ fbPid' \in BOOLEAN
      /\ Locked => Locked'
      /\ FallbackOnlyWhileLocked'
  BY GuardEffect DEF LockDelayTimeout, IInv, StageInv
<1>2. /\ timers' = timers \ {"idle-lock-delay"}
      /\ UNCHANGED <<Active, Awake, stage, leftover, activated, refreshVars, grabVars,
                     covers, panels, authVars, activeIdles, grabIdles, bailOuts, holds,
                     busVars>>
  BY DEF LockDelayTimeout
<1>3. TypeOK'
  BY <1>1, <1>2 DEF IInv, TypeOK, refreshVars, grabVars, authVars, busVars
<1>4. StageInv'
  BY <1>1, <1>2 DEF IInv, StageInv, refreshVars, grabVars, authVars, ActiveHasStage,
       AwakeOnlyWhenLocked, CallbacksFindTheirStage, ActiveTimeTellsActive,
       HelperOnlyWhileAwake, StageKeepsProcess, ActiveHoldsInput, UncoveredIsRefreshed,
       LeftoverInv, GrabsNeedStage, Wrecked
<1>5. QueueInv'
  BY <1>2 DEF IInv, QueueInv, authVars, busVars, ActiveIsAnnounced, LastSignal,
       NoLockCallForgotten, HelperAnswers, AwakeCanSleep
<1> QED BY <1>3, <1>4, <1>5 DEF IInv

\* What the helper reports is queued for a dialog that is raised, and a report that ends
\* the helper is one that lowers the dialog or unlocks.
LEMMA HelperReportsStep ==
  ASSUME IInv, NEW r \in AuthResults, HelperReports(r)
  PROVE  IInv'
<1>1. /\ helper
      /\ authIdles' = Append(authIdles, r)
      /\ helper' = (r = "failure")
      /\ UNCHANGED <<statusVars, stage, leftover, activated, refreshVars, fbPid,
                     grabVars, covers, panels, checking, timers, activeIdles, grabIdles,
                     bailOuts, holds, busVars>>
  BY DEF HelperReports
<1>2. /\ authIdles' \in Seq(AuthResults)
      /\ authIdles' # <<>>
      /\ authIdles'[Len(authIdles')] = r
  BY <1>1, AppendLast DEF IInv, TypeOK
<1>3. TypeOK'
  BY <1>1, <1>2 DEF IInv, TypeOK, statusVars, refreshVars, grabVars, busVars
<1>4. StageInv'
  BY <1>1 DEF IInv, StageInv, statusVars, refreshVars, grabVars, ActiveHasStage,
       AwakeOnlyWhenLocked, CallbacksFindTheirStage, ActiveTimeTellsActive,
       HelperOnlyWhileAwake, StageKeepsProcess, ActiveHoldsInput,
       FallbackOnlyWhileLocked, UncoveredIsRefreshed, LeftoverInv, GrabsNeedStage, Wrecked
<1>5. QueueInv'
  BY <1>1, <1>2 DEF IInv, QueueInv, statusVars, busVars, ActiveIsAnnounced, LastSignal,
       NoLockCallForgotten, HelperAnswers, AwakeCanSleep
<1> QED BY <1>3, <1>4, <1>5 DEF IInv

\* A failure resumes the timeout of the dialog that it leaves raised.
LEMMA AuthIdleStep ==
  ASSUME IInv, AuthIdle
  PROVE  IInv'
<1>1. CASE Unlock /\ UNCHANGED running
  BY <1>1, UnlockStep DEF IInv, TypeOK
<1>2. CASE CancelUnlocking /\ authIdles # <<>> /\ authIdles' = Tail(authIdles)
  BY <1>2, CancelStep DEF IInv, StageInv, CallbacksFindTheirStage
<1>3. CASE /\ authIdles # <<>> /\ Head(authIdles) = "failure"
           /\ authIdles' = Tail(authIdles)
           /\ checking' = FALSE
           /\ timers' = timers \cup {"wake-timeout"}
           /\ UNCHANGED <<statusVars, stage, leftover, activated, refreshVars, fbPid,
                          grabVars, covers, panels, helper, activeIdles, grabIdles,
                          bailOuts, holds, busVars>>
  <2>1. /\ authIdles' \in Seq(AuthResults)
        /\ authIdles' # <<>> => authIdles'[Len(authIdles')] = authIdles[Len(authIdles)]
        /\ authIdles' = <<>> => authIdles[Len(authIdles)] = "failure"
    BY <1>3, TailLast DEF IInv, TypeOK
  <2>2. stage
    BY <1>3 DEF IInv, StageInv, CallbacksFindTheirStage
  <2>3. TypeOK'
    <3>1. timers' \in SUBSET Timers /\ checking' \in BOOLEAN
      BY <1>3 DEF IInv, TypeOK, Timers
    <3> QED
      BY <1>3, <2>1, <3>1 DEF IInv, TypeOK, statusVars, refreshVars, grabVars, busVars
  <2>4. StageInv'
    BY <1>3, <2>2 DEF IInv, StageInv, statusVars, refreshVars, grabVars, ActiveHasStage,
         AwakeOnlyWhenLocked, CallbacksFindTheirStage, ActiveTimeTellsActive,
         HelperOnlyWhileAwake, StageKeepsProcess, ActiveHoldsInput,
         FallbackOnlyWhileLocked, UncoveredIsRefreshed,
         LeftoverInv, GrabsNeedStage, Wrecked
  <2>5. QueueInv'
    BY <1>3, <2>1 DEF IInv, QueueInv, statusVars, busVars, ActiveIsAnnounced,
         LastSignal, NoLockCallForgotten, HelperAnswers, AwakeCanSleep
  <2> QED BY <2>3, <2>4, <2>5 DEF IInv
<1> QED BY <1>1, <1>2, <1>3 DEF AuthIdle

\* Sending the oldest signal leaves the belief to come as it is, and no call waiting.
LEMMA ActiveIdleStep ==
  ASSUME IInv, ActiveIdle
  PROVE  IInv'
<1>1. /\ activeIdles # <<>>
      /\ emitted' = Head(activeIdles)
      /\ activeIdles' = Tail(activeIdles)
      /\ callState' = [c \in Calls |->
                         IF callState[c] = "queued" THEN "answered" ELSE callState[c]]
      /\ UNCHANGED <<statusVars, stage, leftover, activated, refreshVars, fbPid,
                     grabVars, covers, panels, authVars, timers, grabIdles, bailOuts,
                     holds, running>>
  BY DEF ActiveIdle
<1>2. /\ emitted' \in BOOLEAN /\ activeIdles' \in Seq(BOOLEAN)
      /\ LastSignal' = LastSignal
  BY <1>1, TailLast DEF IInv, TypeOK, LastSignal
<1>3. /\ callState' \in [Calls -> CallStates]
      /\ \A c \in Calls : callState'[c] # "queued"
  BY <1>1 DEF IInv, TypeOK, CallStates
<1>4. TypeOK'
  BY <1>1, <1>2, <1>3 DEF IInv, TypeOK, statusVars, refreshVars, grabVars, authVars
<1>5. StageInv'
  BY <1>1 DEF IInv, StageInv, statusVars, refreshVars, grabVars, authVars,
       ActiveHasStage, AwakeOnlyWhenLocked, CallbacksFindTheirStage,
       ActiveTimeTellsActive, HelperOnlyWhileAwake, StageKeepsProcess, ActiveHoldsInput,
       FallbackOnlyWhileLocked, UncoveredIsRefreshed, LeftoverInv, GrabsNeedStage, Wrecked
<1>6. QueueInv'
  BY <1>1, <1>2, <1>3 DEF IInv, QueueInv, statusVars, authVars, ActiveIsAnnounced,
       NoLockCallForgotten, HelperAnswers, AwakeCanSleep
<1> QED BY <1>4, <1>5, <1>6 DEF IInv

-----------------------------------------------------------------------------
(* The invariant. *)

\* A Lock() call, whatever becomes of it.
LEMMA DBusLockStep ==
  ASSUME IInv, NEW c \in Calls, DBusLock(c)
  PROVE  IInv'
<1>1. CASE LockShown /\ Reply(c, "answered")
  <2>1. /\ callState' \in [Calls -> CallStates]
        /\ \A d \in Calls : callState'[d] = "queued" => callState[d] = "queued"
    BY <1>1, ReplyEffect DEF IInv, CallStates
  <2>2. activeIdles' = activeIdles
    BY <1>1 DEF LockShown, stageVars, stageOnlyVars
  <2>3. NoLockCallForgotten'
    BY <2>1, <2>2 DEF IInv, QueueInv, NoLockCallForgotten
  <2> QED BY <1>1, <2>1, <2>3, LockShownStep
<1>2. CASE LockHidden /\ Reply(c, "queued")
  <2>1. callState' \in [Calls -> CallStates]
    BY <1>2, ReplyEffect DEF IInv, CallStates
  <2>2. PICK build \in Builds :
          /\ ShowStage(build)
          /\ timers' = (timers \cup BuildTimer(build)) \ {"idle-lock-delay"}
          /\ IF CanLock THEN LockAndGuard ELSE UNCHANGED <<Locked, fbPid>>
    BY <1>2 DEF LockHidden
  <2>3. timers' \in SUBSET Timers
    BY <2>2 DEF IInv, TypeOK, BuildTimer, Timers
  <2> QED BY <2>1, <2>2, <2>3, ShowStep
<1>3. CASE LockRaises /\ \E r \in CallStates : Reply(c, r)
  BY <1>3, RaiseStep, ReplyEffect, ConstantsAssumption DEF LockRaises, IInv, TypeOK
<1>4. CASE LockSpoiled /\ Reply(c, "queued")
  BY <1>4, SpoiledStep, ReplyEffect DEF LockSpoiled, IInv, CallStates
<1>5. CASE ActivationRaises /\ Reply(c, "failed")
  BY <1>5, ActivationRaisesStep, ReplyEffect DEF IInv, CallStates
<1>6. CASE /\ Reply(c, "answered")
           /\ UNCHANGED <<statusVars, stageVars, refreshVars, fbPid, grabIdles, bailOuts,
                          running, emitted>>
  <2>1. /\ callState' \in [Calls -> CallStates]
        /\ \A d \in Calls : callState'[d] = "queued" => callState[d] = "queued"
    BY <1>6, ReplyEffect DEF IInv, CallStates
  <2>2. TypeOK'
    BY <1>6, <2>1 DEF IInv, TypeOK, statusVars, stageVars, stageOnlyVars, refreshVars
  <2>3. StageInv'
    BY <1>6 DEF IInv, StageInv, statusVars, stageVars, stageOnlyVars, refreshVars,
         ActiveHasStage, AwakeOnlyWhenLocked, CallbacksFindTheirStage,
         ActiveTimeTellsActive, HelperOnlyWhileAwake, StageKeepsProcess,
         ActiveHoldsInput, FallbackOnlyWhileLocked, UncoveredIsRefreshed,
         LeftoverInv, GrabsNeedStage, Wrecked
  <2>4. QueueInv'
    BY <1>6, <2>1 DEF IInv, QueueInv, statusVars, stageVars, stageOnlyVars,
         ActiveIsAnnounced, LastSignal, NoLockCallForgotten, HelperAnswers,
         AwakeCanSleep
  <2> QED BY <2>2, <2>3, <2>4 DEF IInv
<1> QED BY <1>1, <1>2, <1>3, <1>4, <1>5, <1>6 DEF DBusLock, CallStates

\* A request to lock that waits for no answer.
LEMMA SessionLockStep ==
  ASSUME IInv, SessionLock
  PROVE  IInv'
<1>1. callState' = callState /\ callState' \in [Calls -> CallStates]
  BY DEF SessionLock, IInv, TypeOK
<1>2. CASE LockShown
  <2>1. NoLockCallForgotten'
    BY <1>1, <1>2 DEF LockShown, stageVars, stageOnlyVars, IInv, QueueInv,
         NoLockCallForgotten
  <2> QED BY <1>1, <1>2, <2>1, LockShownStep
<1>3. CASE LockHidden
  <2>1. PICK build \in Builds :
          /\ ShowStage(build)
          /\ timers' = (timers \cup BuildTimer(build)) \ {"idle-lock-delay"}
          /\ IF CanLock THEN LockAndGuard ELSE UNCHANGED <<Locked, fbPid>>
    BY <1>3 DEF LockHidden
  <2>2. timers' \in SUBSET Timers
    BY <2>1 DEF IInv, TypeOK, BuildTimer, Timers
  <2> QED BY <1>1, <2>1, <2>2, ShowStep
<1>4. CASE LockRaises
  BY <1>1, <1>4, RaiseStep, ConstantsAssumption DEF LockRaises, IInv, TypeOK
<1>5. CASE LockSpoiled
  BY <1>1, <1>5, SpoiledStep DEF LockSpoiled
<1>6. CASE ActivationRaises
  BY <1>1, <1>6, ActivationRaisesStep
<1> QED BY <1>2, <1>3, <1>4, <1>5, <1>6 DEF SessionLock

\* set_active(True).
LEMMA ActivateStep ==
  ASSUME IInv, Activate
  PROVE  IInv'
<1>1. callState' \in [Calls -> CallStates]
  BY DEF Activate, IInv, TypeOK
<1>2. CASE SpawnRaises /\ UNCHANGED Locked
  BY <1>1, <1>2, RaiseStep DEF IInv, TypeOK
<1>3. ASSUME NEW build \in Builds, NEW policy \in LockPolicies,
             ShowStage(build),
             timers' = timers \cup BuildTimer(build) \cup DelayTimer(policy),
             IF policy = "now" THEN LockAndGuard ELSE UNCHANGED <<Locked, fbPid>>
      PROVE  IInv'
  <2>1. timers' \in SUBSET Timers
    BY <1>3 DEF IInv, TypeOK, BuildTimer, DelayTimer, Timers
  <2> QED BY <1>1, <1>3, <2>1, ShowStep
<1>4. ASSUME NEW build \in Builds, SpawnSpoiled(build), UNCHANGED <<Locked, fbPid>>
      PROVE  IInv'
  BY <1>1, <1>4, SpoiledStep
<1>5. CASE ActivationRaises
  BY <1>1, <1>5, ActivationRaisesStep
<1> QED BY <1>2, <1>3, <1>4, <1>5 DEF Activate

\* The refresh idle, with and without a stage.
LEMMA RefreshIdleStep ==
  ASSUME IInv, RefreshIdle
  PROVE  IInv'
<1>1. CASE RefreshStage(TRUE)
  BY <1>1, RefreshStep DEF RefreshIdle
<1>2. CASE /\ UNCHANGED <<statusVars, stageVars, fbPid, grabIdles, bailOuts, busVars>>
           /\ refreshing' \in BOOLEAN /\ refreshAgain' \in BOOLEAN
           /\ refreshing' \/ ~stage \/ Wrecked
  <2>1. TypeOK'
    BY <1>2 DEF RefreshIdle, IInv, TypeOK, statusVars, stageVars, stageOnlyVars, busVars
  <2>2. StageInv'
    BY <1>2 DEF IInv, StageInv, statusVars, stageVars, stageOnlyVars, ActiveHasStage,
         AwakeOnlyWhenLocked, CallbacksFindTheirStage, ActiveTimeTellsActive,
         HelperOnlyWhileAwake, StageKeepsProcess, ActiveHoldsInput,
         FallbackOnlyWhileLocked, UncoveredIsRefreshed,
         LeftoverInv, GrabsNeedStage, Wrecked
  <2>3. QueueInv'
    BY <1>2 DEF IInv, QueueInv, statusVars, stageVars, stageOnlyVars, busVars,
         ActiveIsAnnounced, LastSignal, NoLockCallForgotten, HelperAnswers,
         AwakeCanSleep
  <2> QED BY <2>1, <2>2, <2>3 DEF IInv
<1>3. CASE refreshing
  BY <1>2, <1>3 DEF RefreshIdle, IInv, TypeOK
<1>4. CASE ~refreshing /\ (~stage \/ Wrecked) /\ ~RefreshStage(TRUE)
  BY <1>2, <1>4 DEF RefreshIdle, IInv, TypeOK
<1> QED BY <1>1, <1>3, <1>4 DEF RefreshIdle

\* The process starts with no stage, nothing pending and nothing announced.
LEMMA Initially == Init => IInv
<1> SUFFICES ASSUME Init PROVE IInv
  OBVIOUS
<1>1. TypeOK
  BY EmptySeq DEF Init, TypeOK, Grab, CallStates, Leftovers
<1>2. StageInv
  BY DEF Init, StageInv, ActiveHasStage, AwakeOnlyWhenLocked, CallbacksFindTheirStage,
       ActiveTimeTellsActive, HelperOnlyWhileAwake, StageKeepsProcess, ActiveHoldsInput,
       FallbackOnlyWhileLocked, UncoveredIsRefreshed, LeftoverInv, GrabsNeedStage, Wrecked
<1>3. QueueInv
  BY DEF Init, QueueInv, ActiveIsAnnounced, NoLockCallForgotten, HelperAnswers,
       AwakeCanSleep
<1> QED BY <1>1, <1>2, <1>3 DEF IInv

\* A step that changes no variable.
LEMMA Stutter == IInv /\ UNCHANGED vars => IInv'
<1> SUFFICES ASSUME IInv, UNCHANGED vars PROVE IInv'
  OBVIOUS
<1> USE DEF vars, statusVars, refreshVars, grabVars, authVars, busVars
<1>1. TypeOK'
  BY DEF IInv, TypeOK
<1>2. StageInv'
  BY DEF IInv, StageInv, ActiveHasStage, AwakeOnlyWhenLocked, CallbacksFindTheirStage,
       ActiveTimeTellsActive, HelperOnlyWhileAwake, StageKeepsProcess, ActiveHoldsInput,
       FallbackOnlyWhileLocked, UncoveredIsRefreshed, LeftoverInv, GrabsNeedStage, Wrecked
<1>3. QueueInv'
  BY DEF IInv, QueueInv, ActiveIsAnnounced, LastSignal, NoLockCallForgotten,
       HelperAnswers, AwakeCanSleep
<1> QED BY <1>1, <1>2, <1>3 DEF IInv

\* Every step of the process preserves the invariant.
LEMMA Inductive == IInv /\ [Next]_vars => IInv'
<1> SUFFICES ASSUME IInv, [Next]_vars PROVE IInv'
  OBVIOUS
<1>1. CASE \E c \in Calls : DBusLock(c)
  BY <1>1, DBusLockStep
<1>2. CASE SessionLock
  BY <1>2, SessionLockStep
<1>3. CASE SetActive \/ SessionIdle
  BY <1>3, ActivateStep DEF SetActive, SessionIdle
<1>4. CASE SetInactive \/ SessionUnlock \/ Quit
  BY <1>4, UnlockStep DEF SetInactive, SessionUnlock, Quit, Wrecked, IInv, TypeOK
<1>5. CASE SessionActive
  <2>1. /\ refreshing \in BOOLEAN /\ refreshQueued' \in BOOLEAN
        /\ refreshQueued' \/ ~refreshQueued
    BY <1>5 DEF SessionActive, IInv, TypeOK
  <2>2. RefreshStage(refreshing)
    BY <1>5 DEF SessionActive
  <2> QED BY <2>1, <2>2, RefreshStep
<1>6. CASE ScreenChanged
  BY <1>6, ScreenChangedStep
<1>7. CASE UserActivity
  <2>1. Active /\ WakeOrDeactivate(timers) /\ UNCHANGED checking /\ UNCHANGED userUnchanged
    BY <1>7 DEF UserActivity
  <2> QED BY <2>1, WakeStep
<1>8. CASE EscapeKey
  BY <1>8, CancelStep DEF EscapeKey, IInv, StageInv, AwakeOnlyWhenLocked
<1>9. CASE ReturnKey
  BY <1>9, WakeStep DEF ReturnKey, SubmitPassword
<1>10. CASE UnlockClicked
  BY <1>10, UnlockClickedStep
<1>11. CASE GrabBroken
  BY <1>11, GrabBrokenStep
<1>12. CASE HelperDies
  BY <1>12, HelperDiesStep
<1>13. CASE \E r \in AuthResults : HelperReports(r)
  BY <1>13, HelperReportsStep
<1>14. CASE WakeTimeout
  <2>1. stage
    BY <1>14 DEF WakeTimeout, IInv, StageInv, CallbacksFindTheirStage, StageTimers, Timers
  <2> QED BY <1>14, <2>1, CancelStep DEF WakeTimeout
<1>15. CASE LockDelayTimeout
  BY <1>15, LockDelayTimeoutStep
<1>16. CASE DelayedComponents
  BY <1>16, DelayedComponentsStep
<1>17. CASE InactivityExit
  BY <1>17, InactivityExitStep
<1>18. CASE AuthIdle
  BY <1>18, AuthIdleStep
<1>19. CASE IdleDeactivate
  BY <1>19, LateDeactivateStep DEF IdleDeactivate, IInv, TypeOK
<1>20. CASE BailOut
  <2>1. bailOuts' \in Nat
    BY <1>20 DEF BailOut, IInv, TypeOK
  <2> QED BY <1>20, <2>1, LateDeactivateStep DEF BailOut
<1>21. CASE GrabIdle
  BY <1>21, GrabIdleStep
<1>22. CASE ActiveIdle
  BY <1>22, ActiveIdleStep
<1>23. CASE RefreshIdle
  BY <1>23, RefreshIdleStep
<1>24. CASE UNCHANGED vars
  BY <1>24, Stutter
<1> QED
  BY <1>1, <1>2, <1>3, <1>4, <1>5, <1>6, <1>7, <1>8, <1>9, <1>10, <1>11, <1>12, <1>13,
     <1>14, <1>15, <1>16, <1>17, <1>18, <1>19, <1>20, <1>21, <1>22, <1>23, <1>24
     DEF Next, Requests, User, Outside, Timeouts, Idles

\* So every reachable state satisfies the invariant.
LEMMA Invariance == Spec => []IInv
BY Initially, Inductive, PTL DEF Spec
-----------------------------------------------------------------------------
(* The properties. *)

\* Every variable keeps its type: hold() and release(), counted bail-outs and re-grabs
\* never go below zero.
THEOREM TypesHold == Spec => []TypeOK
<1>1. IInv => TypeOK
  BY DEF IInv
<1> QED BY <1>1, Invariance, PTL

\* The unlock dialog is raised only over an active, locked screen with a stage.
THEOREM DialogOnlyWhenLocked == Spec => []AwakeOnlyWhenLocked
<1>1. IInv => AwakeOnlyWhenLocked
  BY DEF IInv, StageInv
<1> QED BY <1>1, Invariance, PTL

\* No timer or authentication result is left pending for a stage that is gone, so no
\* callback dereferences None.
THEOREM NoCallbackOutlivesStage == Spec => []CallbacksFindTheirStage
<1>1. IInv => CallbacksFindTheirStage
  BY DEF IInv, StageInv
<1> QED BY <1>1, Invariance, PTL

\* GetActiveTime is non-zero exactly while the screen is active.
THEOREM ActiveTimeIsRight == Spec => []ActiveTimeTellsActive
<1>1. IInv => ActiveTimeTellsActive
  BY DEF IInv, StageInv
<1> QED BY <1>1, Invariance, PTL

\* No PAM helper runs unless the dialog is raised.
THEOREM NoHelperBehindDialog == Spec => []HelperOnlyWhileAwake
<1>1. IInv => HelperOnlyWhileAwake
  BY DEF IInv, StageInv
<1> QED BY <1>1, Invariance, PTL

\* While there is a stage the GApplication is held.
THEOREM StageHoldsProcess == Spec => []StageKeepsProcess
<1>1. IInv => StageKeepsProcess
  BY DEF IInv, StageInv
<1> QED BY <1>1, Invariance, PTL

\* An active screen keeps the keyboard and, asleep, the pointer.
THEOREM InputStaysGrabbed == Spec => []ActiveHoldsInput
<1>1. IInv => ActiveHoldsInput
  BY DEF IInv, StageInv
<1> QED BY <1>1, Invariance, PTL

\* The fallback window exists only while the screen is locked.
THEOREM FallbackGuardsLock == Spec => []FallbackOnlyWhileLocked
<1>1. IInv => FallbackOnlyWhileLocked
  BY DEF IInv, StageInv
<1> QED BY <1>1, Invariance, PTL

\* The last ActiveChanged sent or queued for an active screen is True.
THEOREM ClientsKnowActive == Spec => []ActiveIsAnnounced
<1>1. IInv => ActiveIsAnnounced
  BY DEF IInv, QueueInv
<1> QED BY <1>1, Invariance, PTL

\* A stage that does not cover the screens waits for a refresh.
THEOREM ChangeIsRefreshed == Spec => []UncoveredIsRefreshed
<1>1. IInv => UncoveredIsRefreshed
  BY DEF IInv, StageInv
<1> QED BY <1>1, Invariance, PTL

\* Unless constructing the stage raises, every waiting Lock() call has an idle coming
\* that answers it.
THEOREM LockCallsHaveAnIdle == Spec => []NoLockCallForgotten
<1>1. IInv => NoLockCallForgotten
  BY DEF IInv, QueueInv
<1> QED BY <1>1, Invariance, PTL

\* Unless the helper dies silently, something is always pending that will lower a raised
\* dialog.
THEOREM AwakeHasAnEnd == Spec => []AwakeCanSleep
<1>1. IInv => AwakeCanSleep
  BY DEF IInv, QueueInv
<1> QED BY <1>1, Invariance, PTL

\* The screen stops being active while locked only by an unlock, through one of the
\* callbacks that the manager queued or owes to a refresh, or because a new stage could not
\* be constructed.
THEOREM LockedScreenStays == Spec => LockedScreenLeaves
<1> DEFINE Leaves == \/ ~Locked'
                     \/ "idle-deactivate" \in timers \/ bailOuts > 0 \/ refreshAgain
                     \/ leftover' = "shown"
<1>1. IInv /\ [Next]_vars => [Locked /\ Active /\ ~Active' => Leaves]_vars
  <2> SUFFICES ASSUME IInv, Next, Locked, Active, ~Active'
               PROVE  Leaves
    OBVIOUS
  <2>1. CASE Unlock
    <3>1. CASE Wrecked
      BY <2>1, <3>1 DEF Unlock, Deactivate, DespawnRaises, stageOnlyVars
    <3>2. CASE ~Wrecked
      BY <2>1, <3>2 DEF Unlock, UnlockAndUnguard
    <3> QED BY <3>1, <3>2
  <2>2. CASE IdleDeactivate
    BY <2>2 DEF IdleDeactivate
  <2>3. CASE BailOut
    BY <2>3 DEF BailOut
  <2>4. CASE \E begun : RefreshStage(begun)
    BY <2>4 DEF RefreshStage, RefreshRaises, RefreshCompletes, RefreshFails
  <2>5. CASE (\E c \in Calls : DBusLock(c)) \/ SessionLock \/ Activate
    BY <2>5 DEF DBusLock, SessionLock, Activate, LockShown, LockHidden, LockRaises,
         LockSpoiled, ShowStage, SpawnRaises, SpawnSpoiled, ActivationRaises, stageVars,
         stageOnlyVars, statusVars
  <2>6. CASE Active' = Active
    BY <2>6
  <2>7. CASE ScreenChanged \/ UserActivity \/ EscapeKey \/ ReturnKey \/ UnlockClicked
    BY <2>7 DEF ScreenChanged, UserActivity, EscapeKey, CancelUnlocking, ReturnKey,
         UnlockClicked, userUnchanged, statusVars
  <2>8. CASE \/ GrabBroken \/ HelperDies \/ \E r \in AuthResults : HelperReports(r)
             \/ Timeouts \/ GrabIdle \/ ActiveIdle
    BY <2>8 DEF GrabBroken, HelperDies, HelperReports, Timeouts, WakeTimeout,
         CancelUnlocking, LockDelayTimeout, DelayedComponents, InactivityExit, GrabIdle,
         ActiveIdle, statusVars
  <2>9. CASE AuthIdle
    BY <2>1, <2>6, <2>9 DEF AuthIdle, CancelUnlocking, statusVars
  <2>10. CASE RefreshIdle
    BY <2>4, <2>6, <2>10 DEF RefreshIdle, statusVars
  <2> QED
    BY <2>1, <2>2, <2>3, <2>4, <2>5, <2>7, <2>8, <2>9, <2>10
       DEF Next, Requests, User, Outside, Timeouts, Idles, SetActive, SessionIdle,
           SetInactive, SessionUnlock, Quit, SessionActive
<1> QED BY <1>1, Invariance, PTL DEF Spec, LockedScreenLeaves

\* Unlocking takes down the stage, the grabs, the helper, the fallback window and the
\* timers of the stage.
THEOREM UnlockIsComplete == Spec => UnlockTakesAllDown
<1> DEFINE Down == /\ ~stage' /\ ~Active' /\ ~Awake' /\ ~helper' /\ ~fbPid'
                   /\ keyboard' = "none" /\ mouse' = "none"
                   /\ timers' \cap StageTimers = {}
<1>1. IInv /\ [Next]_vars => [Locked /\ ~Locked' => Down]_vars
  <2> SUFFICES ASSUME IInv, Next, Locked, ~Locked'
               PROVE  Down
    OBVIOUS
  <2>1. CASE Unlock
    <3>1. ~Wrecked
      BY <2>1 DEF Unlock
    <3>2. /\ ~stage' /\ ~Active' /\ ~helper' /\ timers' \cap StageTimers = {}
          /\ keyboard' = "none" /\ mouse' = "none"
      BY <2>1, <3>1, DeactivateEffect DEF Unlock
    <3>3. ~Awake' /\ ~fbPid'
      BY <2>1, <3>1 DEF Unlock, UnlockAndUnguard, KillFallback, IInv, StageInv,
           FallbackOnlyWhileLocked
    <3> QED BY <3>2, <3>3
  <2>2. CASE Locked' = Locked
    BY <2>2
  <2>3. CASE LockAndGuard
    BY <2>3 DEF LockAndGuard, SpawnFallback
  <2>4. CASE \E begun : RefreshStage(begun)
    BY <2>2, <2>3, <2>4 DEF RefreshStage, RefreshRaises, RefreshCompletes, RefreshFails
  <2>5. CASE (\E c \in Calls : DBusLock(c)) \/ SessionLock \/ Activate
    BY <2>2, <2>3, <2>5 DEF DBusLock, SessionLock, Activate, LockShown, LockHidden,
         LockRaises, LockSpoiled, ActivationRaises, statusVars
  <2>6. CASE ScreenChanged \/ UserActivity \/ EscapeKey \/ ReturnKey \/ UnlockClicked
    BY <2>2, <2>6 DEF ScreenChanged, UserActivity, EscapeKey, CancelUnlocking,
         ReturnKey, UnlockClicked, userUnchanged, statusVars
  <2>7. CASE \/ GrabBroken \/ HelperDies \/ \E r \in AuthResults : HelperReports(r)
             \/ Timeouts \/ GrabIdle \/ ActiveIdle \/ IdleDeactivate \/ BailOut
    BY <2>2, <2>3, <2>7 DEF GrabBroken, HelperDies, HelperReports, Timeouts,
         WakeTimeout, CancelUnlocking, LockDelayTimeout, DelayedComponents,
         InactivityExit, GrabIdle, ActiveIdle, IdleDeactivate, BailOut, statusVars
  <2>8. CASE AuthIdle
    BY <2>1, <2>2, <2>8 DEF AuthIdle, CancelUnlocking, statusVars
  <2>9. CASE RefreshIdle
    BY <2>2, <2>4, <2>9 DEF RefreshIdle, statusVars
  <2> QED
    BY <2>1, <2>4, <2>5, <2>6, <2>7, <2>8, <2>9
       DEF Next, Requests, User, Outside, Timeouts, Idles, SetActive, SessionIdle,
           SetInactive, SessionUnlock, Quit, SessionActive
<1> QED BY <1>1, Invariance, PTL DEF Spec, UnlockTakesAllDown

-----------------------------------------------------------------------------
(* What LockScreen promises. *)

\* A lock delay runs only for a user who can lock.
DelayNeedsLock == "idle-lock-delay" \in timers => CanLock

\* Whichever policy is read, a delay is started for such a user only.
LEMMA DelayTimerNeedsLock ==
  ASSUME NEW policy \in LockPolicies, "idle-lock-delay" \in DelayTimer(policy)
  PROVE  CanLock
BY DEF DelayTimer, LockPolicies

\* A delay is started by an activation and at the end of a refresh, and nowhere else.
LEMMA DelayStep == DelayNeedsLock /\ [Next]_vars => DelayNeedsLock'
<1> SUFFICES ASSUME DelayNeedsLock, [Next]_vars PROVE DelayNeedsLock'
  OBVIOUS
<1> USE DEF DelayNeedsLock
<1>1. CASE \E begun : RefreshStage(begun)
  <2>1. CASE \E begun : RefreshFails(begun)
    BY <2>1 DEF RefreshFails
  <2>2. ASSUME NEW build \in Builds, NEW policy \in LockPolicies, NEW wakes \in BOOLEAN,
               RefreshCompletes(build, policy, wakes)
        PROVE  DelayNeedsLock'
    <3>1. "idle-lock-delay" \in timers' => "idle-lock-delay" \in DelayTimer(policy)
      BY <2>2 DEF RefreshCompletes, StageTimers, Timers
    <3> QED BY <3>1, DelayTimerNeedsLock
  <2>3. ASSUME NEW build \in Builds, RefreshRaises(build) PROVE DelayNeedsLock'
    BY <2>3 DEF RefreshRaises
  <2> QED BY <1>1, <2>1, <2>2, <2>3 DEF RefreshStage
<1>2. CASE Activate
  BY <1>2, DelayTimerNeedsLock DEF Activate, SpawnRaises, SpawnSpoiled, ActivationRaises,
       WreckStage, BuildTimer
<1>3. CASE (\E c \in Calls : DBusLock(c)) \/ SessionLock
  BY <1>3 DEF DBusLock, SessionLock, LockShown, LockHidden, LockRaises, LockSpoiled,
       SpawnRaises, SpawnSpoiled, ActivationRaises, WreckStage, BuildTimer, stageVars
<1>4. CASE Unlock
  BY <1>4 DEF Unlock, Deactivate
<1>5. CASE ScreenChanged \/ UserActivity \/ EscapeKey \/ ReturnKey \/ UnlockClicked
  BY <1>5 DEF ScreenChanged, UserActivity, EscapeKey, CancelUnlocking, ReturnKey,
       UnlockClicked, WakeOrDeactivate, RaiseDialog
<1>6. CASE \/ GrabBroken \/ HelperDies \/ \E r \in AuthResults : HelperReports(r)
           \/ Timeouts \/ IdleDeactivate \/ BailOut \/ GrabIdle \/ ActiveIdle
  BY <1>6 DEF GrabBroken, HelperDies, HelperReports, Timeouts, WakeTimeout,
       CancelUnlocking, LockDelayTimeout, DelayedComponents, InactivityExit,
       IdleDeactivate, BailOut, Deactivate, GrabIdle, ActiveIdle, stageVars
<1>7. CASE AuthIdle
  <2>1. CASE Unlock
    BY <1>4, <2>1
  <2>2. CASE timers' = timers \cup {"wake-timeout"}
    BY <2>2
  <2>3. CASE CancelUnlocking
    BY <2>3 DEF CancelUnlocking
  <2> QED BY <1>7, <2>1, <2>2, <2>3 DEF AuthIdle
<1>8. CASE RefreshIdle
  BY <1>1, <1>8 DEF RefreshIdle, stageVars
<1>9. CASE UNCHANGED vars
  BY <1>9 DEF vars
<1> QED
  BY <1>1, <1>2, <1>3, <1>4, <1>5, <1>6, <1>7, <1>8, <1>9
     DEF Next, Requests, User, Outside, Timeouts, Idles, SetActive, SessionIdle,
         SetInactive, SessionUnlock, Quit, SessionActive

\* What a step of the core is to LockScreen: a step, or nothing.
Kept == Promise!Next \/ UNCHANGED Promise!vars

\* Constructing a stage queues a bail-out only if the stage may break.
LEMMA BuildKeeps ==
  ASSUME TypeOK, NEW build \in Builds, NoteBuild(build)
  PROVE  Promise!MayBreak
BY DEF TypeOK, Builds, NoteBuild, Promise!MayBreak

\* The reasons for which a screen may be left are those that stood.
LEMMA ReasonsStay ==
  ASSUME "idle-deactivate" \in timers' <=> "idle-deactivate" \in timers,
         UNCHANGED <<bailOuts, refreshing, refreshAgain>>
  PROVE  UNCHANGED Promise!reasons
<1>1. /\ ("idle-deactivate" \in timers)' = ("idle-deactivate" \in timers)
      /\ (bailOuts > 0)' = (bailOuts > 0)
  OBVIOUS
<1> QED BY <1>1, Zenon DEF Promise!reasons

\* set_active(True) shows the screens, whether or not it locks them.
LEMMA ShowKept ==
  ASSUME IInv, NEW build \in Builds, ShowStage(build),
         (CanLock /\ LockAndGuard) \/ UNCHANGED <<Locked, fbPid>>,
         "idle-deactivate" \in timers' <=> "idle-deactivate" \in timers
  PROVE  Kept
<1>1. Promise!MayLock
  BY DEF LockAndGuard, Promise!MayLock
<1>2. Promise!MayBreak
  BY BuildKeeps DEF IInv, ShowStage, NewStage, Promise!MayBreak
<1>3. Promise!Show
  BY <1>1, <1>2 DEF ShowStage, refreshVars, authVars, Promise!Show
<1> QED BY <1>3 DEF Kept, Promise!Next

\* An activation that fails shows nothing, and may lock all the same.
LEMMA FailKept ==
  ASSUME IInv,
         \/ SpawnRaises /\ Locked' \in {Locked, Locked \/ CanLock}
         \/ /\ \E build \in Builds : SpawnSpoiled(build)
            /\ (CanLock /\ LockAndGuard) \/ UNCHANGED <<Locked, fbPid>>
         \/ ActivationRaises
  PROVE  Kept
<1>1. SpawnMayRaise /\ ~Active
  BY DEF SpawnRaises, SpawnSpoiled, ActivationRaises, WreckStage, IInv, StageInv,
       LeftoverInv
<1>2. ~Awake /\ ~helper
  BY <1>1 DEF IInv, StageInv, AwakeOnlyWhenLocked, HelperOnlyWhileAwake
<1>3. /\ UNCHANGED <<Active, Awake, helper, refreshing, refreshAgain>>
      /\ authIdles' \in {authIdles, <<>>}
      /\ "idle-deactivate" \in timers' <=> "idle-deactivate" \in timers
  BY <1>2 DEF SpawnRaises, SpawnSpoiled, ActivationRaises, WreckStage, EndHelper,
       statusVars, refreshVars, authVars, IInv, TypeOK
<1>4. Promise!MayBreak
  <2>1. CASE UNCHANGED bailOuts
    BY <2>1 DEF Promise!MayBreak
  <2>2. CASE \E build \in Builds : SpawnSpoiled(build)
    BY <2>2, BuildKeeps DEF IInv, SpawnSpoiled, NewStage
  <2> QED BY <2>1, <2>2 DEF SpawnRaises, ActivationRaises
<1>5. Promise!MayLock
  BY ConstantsAssumption DEF LockAndGuard, ActivationRaises, statusVars, IInv, TypeOK,
     Promise!MayLock
<1>6. Promise!FailToShow
  BY <1>1, <1>3, <1>4, <1>5 DEF Promise!FailToShow
<1> QED BY <1>6 DEF Kept, Promise!Next

\* lock() locks a covered screen, or one that cannot be covered.
LEMMA LockKept ==
  ASSUME IInv, (\E c \in Calls : DBusLock(c)) \/ SessionLock
  PROVE  Kept
<1> USE DEF Kept, Promise!Next, Promise!vars
<1>1. CASE LockShown
  <2>1. CASE CanLock
    BY <1>1, <2>1 DEF LockShown, LockAndGuard, stageVars, stageOnlyVars, refreshVars,
         authVars, Promise!Lock, Promise!reasons
  <2>2. CASE ~CanLock
    BY <1>1, <2>2 DEF LockShown, stageVars, stageOnlyVars, refreshVars, authVars,
         Promise!reasons
  <2> QED BY <2>1, <2>2
<1>2. CASE LockHidden
  <2>1. PICK build \in Builds :
          /\ ShowStage(build)
          /\ timers' = (timers \cup BuildTimer(build)) \ {"idle-lock-delay"}
          /\ IF CanLock THEN LockAndGuard ELSE UNCHANGED <<Locked, fbPid>>
    BY <1>2 DEF LockHidden
  <2>2. "idle-deactivate" \in timers' <=> "idle-deactivate" \in timers
    BY <2>1 DEF BuildTimer
  <2> QED BY <2>1, <2>2, ShowKept
<1>3. CASE LockRaises \/ LockSpoiled \/ ActivationRaises
  BY <1>3, FailKept DEF LockRaises, LockSpoiled
<1>4. CASE UNCHANGED <<statusVars, stageVars, refreshVars, fbPid, grabIdles, bailOuts,
                       running, emitted>>
  BY <1>4 DEF statusVars, stageVars, stageOnlyVars, refreshVars, authVars, Promise!reasons
<1> QED BY <1>1, <1>2, <1>3, <1>4 DEF DBusLock, SessionLock

\* An activation, with the lock that its policy asks for.
LEMMA ActivateKept ==
  ASSUME IInv, Activate
  PROVE  Kept
<1>1. ASSUME NEW build \in Builds, NEW policy \in LockPolicies,
             ShowStage(build),
             timers' = timers \cup BuildTimer(build) \cup DelayTimer(policy),
             IF policy = "now" THEN LockAndGuard ELSE UNCHANGED <<Locked, fbPid>>
      PROVE  Kept
  <2>1. "idle-deactivate" \in timers' <=> "idle-deactivate" \in timers
    BY <1>1 DEF BuildTimer, DelayTimer
  <2>2. policy = "now" => CanLock
    BY DEF LockPolicies
  <2> QED BY <1>1, <2>1, <2>2, ShowKept
<1>2. CASE \/ SpawnRaises /\ UNCHANGED Locked
           \/ \E build \in Builds : SpawnSpoiled(build) /\ UNCHANGED <<Locked, fbPid>>
           \/ ActivationRaises
  BY <1>2, FailKept
<1> QED BY <1>1, <1>2 DEF Activate

\* set_active(False) uncovers the screens, if they were covered, and ends all that was
\* asked; it comes to nothing on a destroyed stage.
LEMMA UncoverEffect ==
  ASSUME IInv, ~Wrecked, NEW done, Deactivate(done), Awake' = FALSE
  PROVE  /\ Promise!Uncover
         /\ "idle-deactivate" \in timers' <=>
              "idle-deactivate" \in timers /\ "idle-deactivate" \notin done
<1>1. Promise!Uncover
  BY DeactivateEffect DEF Promise!Uncover, Promise!Lower
<1>2. timers' = timers \ done \/ timers' = timers \ (done \cup StageTimers)
  BY DEF Deactivate
<1> QED BY <1>1, <1>2 DEF StageTimers

\* What set_active(False) does to a destroyed stage.
LEMMA SpoiledEffect ==
  ASSUME IInv, Wrecked, NEW done, Deactivate(done)
  PROVE  /\ SpawnMayRaise /\ ~Awake
         /\ UNCHANGED <<Active, helper, authIdles>>
         /\ timers' = timers \ done
BY DEF IInv, StageInv, LeftoverInv, Wrecked, Deactivate, DespawnRaises, authVars

\* unlock() on a stage that can be left.
LEMMA UnlockSoundKept ==
  ASSUME IInv, ~Wrecked, Unlock
  PROVE  Kept
<1>1. /\ Deactivate({}) /\ Awake' = FALSE /\ Locked' = FALSE
      /\ UNCHANGED <<bailOuts, refreshing, refreshAgain>>
  BY DEF Unlock, UnlockAndUnguard, refreshVars
<1>2. /\ Promise!Uncover
      /\ "idle-deactivate" \in timers' <=>
           "idle-deactivate" \in timers /\ "idle-deactivate" \notin {}
  BY <1>1, UncoverEffect, Zenon
<1>3. UNCHANGED Promise!reasons
  BY <1>1, <1>2, ReasonsStay
<1> QED BY <1>1, <1>2, <1>3 DEF Kept, Promise!Next, Promise!Unlock

\* unlock().
LEMMA UnlockKept ==
  ASSUME IInv, Unlock
  PROVE  Kept
<1>1. CASE Wrecked
  <2>1. /\ UNCHANGED <<Active, Locked, Awake, helper, authIdles, bailOuts, refreshing,
                       refreshAgain>>
        /\ timers' = timers
    BY <1>1, SpoiledEffect DEF Unlock, refreshVars
  <2>2. UNCHANGED Promise!reasons
    BY <2>1, ReasonsStay
  <2> QED BY <2>1, <2>2 DEF Kept, Promise!vars
<1>2. CASE ~Wrecked
  BY <1>2, UnlockSoundKept
<1> QED BY <1>1, <1>2

\* The two callbacks that look at nothing but the stage, where it can be left.
LEMMA LeaveSoundKept ==
  ASSUME IInv, ~Wrecked, IdleDeactivate \/ BailOut
  PROVE  Kept
<1>1. Awake' = FALSE
  BY DEF IdleDeactivate, BailOut, IInv, TypeOK, StageInv, AwakeOnlyWhenLocked
<1>2. CASE IdleDeactivate
  <2>1. /\ "idle-deactivate" \in timers /\ Deactivate({"idle-deactivate"})
        /\ UNCHANGED <<Locked, bailOuts, refreshing, refreshAgain>>
    BY <1>2 DEF IdleDeactivate, refreshVars
  <2>2. Promise!Uncover /\ "idle-deactivate" \notin timers'
    BY <1>1, <2>1, UncoverEffect
  <2>3. Promise!LeaveDismissed
    BY <2>1, <2>2 DEF Promise!LeaveDismissed
  <2> QED BY <2>3 DEF Kept, Promise!Next
<1>3. CASE BailOut
  <2>1. /\ bailOuts > 0 /\ Deactivate({})
        /\ UNCHANGED <<Locked, refreshing, refreshAgain>>
    BY <1>3 DEF BailOut, refreshVars
  <2>2. /\ Promise!Uncover
        /\ "idle-deactivate" \in timers' <=>
             "idle-deactivate" \in timers /\ "idle-deactivate" \notin {}
    BY <1>1, <2>1, UncoverEffect, Zenon
  <2>3. Promise!LeaveBroken
    BY <2>1, <2>2 DEF Promise!LeaveBroken
  <2> QED BY <2>3 DEF Kept, Promise!Next
<1> QED BY <1>2, <1>3

\* The two callbacks, which a destroyed stage survives.
LEMMA LeaveKept ==
  ASSUME IInv, IdleDeactivate \/ BailOut
  PROVE  Kept
<1>1. CASE Wrecked
  <2>1. PICK done \in {{}, {"idle-deactivate"}} : Deactivate(done)
    BY DEF IdleDeactivate, BailOut
  <2>2. /\ SpawnMayRaise /\ ~Awake
        /\ UNCHANGED <<Active, helper, authIdles>>
        /\ timers' = timers \ done
    BY <1>1, <2>1, SpoiledEffect
  <2>3. UNCHANGED <<Awake, Locked, refreshing, refreshAgain>>
    BY <2>2 DEF IdleDeactivate, BailOut, refreshVars, IInv, TypeOK
  <2>4. /\ "idle-deactivate" \in timers' => "idle-deactivate" \in timers
        /\ bailOuts' > 0 => bailOuts > 0
    BY <2>2 DEF IdleDeactivate, BailOut, IInv, TypeOK
  <2>5. Promise!FailToLeave
    BY <2>2, <2>3, <2>4 DEF Promise!FailToLeave
  <2> QED BY <2>5 DEF Kept, Promise!Next
<1>2. CASE ~Wrecked
  BY <1>2, LeaveSoundKept
<1> QED BY <1>1, <1>2

\* manager.cancel_unlocking(), for the user, the timeout or a helper that has given up.
LEMMA CancelKept ==
  ASSUME IInv, CancelUnlocking,
         \/ UNCHANGED authIdles
         \/ authIdles # <<>> /\ Head(authIdles) = "cancel" /\ authIdles' = Tail(authIdles)
  PROVE  Kept
<1>1. /\ Promise!Lower
      /\ UNCHANGED <<Active, Locked, bailOuts, refreshing, refreshAgain>>
      /\ "idle-deactivate" \in timers' <=> "idle-deactivate" \in timers
  BY DEF CancelUnlocking, EndHelper, refreshVars, Promise!Lower
<1>2. UNCHANGED Promise!reasons
  BY <1>1, ReasonsStay
<1>3. Promise!StopAsking \/ Promise!GivenUp
  BY <1>1, <1>2 DEF Promise!StopAsking, Promise!GivenUp
<1> QED BY <1>3 DEF Kept, Promise!Next

\* Activity on an active screen asks for the password, or is going to end the screensaver.
LEMMA WakeKept ==
  ASSUME IInv, NEW pending, Active, WakeOrDeactivate(pending), UNCHANGED userUnchanged,
         "idle-deactivate" \in pending <=> "idle-deactivate" \in timers
  PROVE  Kept
<1>1. UNCHANGED <<Active, Locked, authIdles, bailOuts, refreshing, refreshAgain>>
  BY DEF userUnchanged, refreshVars
<1>2. CASE Locked /\ RaiseDialog(pending)
  <2>1. UNCHANGED Promise!reasons
    BY <1>1, <1>2, ReasonsStay DEF RaiseDialog
  <2>2. Promise!Ask
    BY <1>1, <1>2, <2>1 DEF RaiseDialog, Promise!Ask
  <2> QED BY <2>2 DEF Kept, Promise!Next
<1>3. CASE /\ Locked => PamMayFail /\ ~helper
           /\ timers' = pending \cup {"idle-deactivate"}
           /\ UNCHANGED <<helper, Awake, mouse>>
  <2>1. Promise!Dismiss
    BY <1>1, <1>3 DEF Promise!Dismiss
  <2> QED BY <2>1 DEF Kept, Promise!Next
<1> QED BY <1>2, <1>3 DEF WakeOrDeactivate

\* refresh_stage: a new stage takes the place of the old one, or could not be had, or a
\* second refresh that is due uncovers the screens.
LEMMA RefreshKept ==
  ASSUME IInv, NEW begun \in {TRUE, refreshing}, RefreshStage(begun)
  PROVE  Kept
<1>1. ASSUME NEW build \in Builds, RefreshRaises(build)
      PROVE  Kept
  <2>1. Promise!MayBreak
    BY <1>1, BuildKeeps DEF IInv, RefreshRaises, ReplaceStage, NewStage
  <2>2. /\ Promise!Uncover
        /\ "idle-deactivate" \in timers' <=> "idle-deactivate" \in timers
    BY <1>1 DEF RefreshRaises, ReplaceStage, NewStage, StageTimers, Promise!Uncover,
         Promise!Lower
  <2>3. Promise!LeaveRefreshing
    BY <1>1, <2>1, <2>2 DEF RefreshRaises, ReplaceStage, Promise!LeaveRefreshing
  <2> QED BY <2>3 DEF Kept, Promise!Next
<1>2. ASSUME NEW build \in Builds, NEW policy \in LockPolicies, NEW wakes \in BOOLEAN,
             RefreshCompletes(build, policy, wakes)
      PROVE  Kept
  <2>1. Promise!MayBreak
    BY <1>2, BuildKeeps DEF IInv, RefreshCompletes, ReplaceStage, NewStage
  <2>2. Promise!MayLock
    <3>1. policy = "now" => CanLock
      BY DEF LockPolicies
    <3> QED BY <1>2, <3>1 DEF RefreshCompletes, LockAndGuard, Promise!MayLock
  <2>3. "idle-deactivate" \in timers' <=>
          "idle-deactivate" \in timers \/ (Active /\ ~wakes)
    BY <1>2 DEF RefreshCompletes, DelayTimer, StageTimers
  <2>4. /\ ~refreshAgain /\ refreshAgain' = refreshAgain /\ refreshing' = FALSE
        /\ wakes => Active /\ Locked
        /\ Locked /\ Active /\ ~wakes => PamMayFail
        /\ Active' = TRUE /\ Awake' = wakes /\ helper' = wakes /\ authIdles' = <<>>
    BY <1>2 DEF RefreshCompletes, ReplaceStage
  <2>5. Promise!Refresh(wakes)
    BY <2>1, <2>2, <2>3, <2>4 DEF Promise!Refresh
  <2> QED BY <2>5 DEF Kept, Promise!Next
<1>3. CASE RefreshFails(begun)
  <2>1. /\ SpawnMayRaise /\ Active' = FALSE /\ Promise!Lower
        /\ UNCHANGED refreshing \/ refreshing' = TRUE
        /\ UNCHANGED <<Locked, authIdles, bailOuts, refreshAgain>>
        /\ "idle-deactivate" \in timers' <=> "idle-deactivate" \in timers
    BY <1>3 DEF RefreshFails, EndHelper, Promise!Lower
  <2>2. Promise!FailToRefresh
    BY <2>1 DEF Promise!FailToRefresh
  <2> QED BY <2>2 DEF Kept, Promise!Next
<1> QED BY <1>1, <1>2, <1>3 DEF RefreshStage

\* A queued refresh is made, put off, or gets stuck.
LEMMA RefreshIdleKept ==
  ASSUME IInv, RefreshIdle
  PROVE  Kept
<1>1. CASE RefreshStage(TRUE)
  BY <1>1, RefreshKept
<1>2. CASE /\ refreshing
           /\ refreshAgain' = TRUE
           /\ UNCHANGED <<statusVars, stageVars, refreshing, fbPid, grabIdles, bailOuts,
                          busVars>>
  <2>1. Promise!PutOff
    BY <1>2 DEF statusVars, stageVars, stageOnlyVars, authVars, Promise!PutOff
  <2> QED BY <2>1 DEF Kept, Promise!Next
<1>3. CASE /\ ~refreshing /\ (~stage \/ Wrecked)
           /\ refreshing' = TRUE
           /\ UNCHANGED <<statusVars, stageVars, refreshAgain, fbPid, grabIdles, bailOuts,
                          busVars>>
  <2>1. ~Active \/ SpawnMayRaise
    BY <1>3 DEF IInv, StageInv, ActiveHasStage, LeftoverInv, Wrecked
  <2>2. Promise!GetStuck
    BY <1>3, <2>1 DEF statusVars, stageVars, stageOnlyVars, authVars, Promise!GetStuck
  <2> QED BY <2>2 DEF Kept, Promise!Next
<1> QED BY <1>1, <1>2, <1>3 DEF RefreshIdle

\* What the helper says, and that it dies.
LEMMA HelperKept ==
  ASSUME IInv, HelperDies \/ \E r \in AuthResults : HelperReports(r)
  PROVE  Kept
<1>1. UNCHANGED <<Active, Locked, Awake, timers, bailOuts, refreshing, refreshAgain>>
  BY DEF HelperDies, HelperReports, statusVars, refreshVars
<1>2. UNCHANGED Promise!reasons
  BY <1>1, ReasonsStay
<1>3. CASE HelperDies
  <2>1. Promise!LoseHelper
    BY <1>1, <1>2, <1>3 DEF HelperDies, EndHelper, Promise!LoseHelper
  <2> QED BY <2>1 DEF Kept, Promise!Next
<1>4. ASSUME NEW r \in AuthResults, HelperReports(r)
      PROVE  Kept
  <2>1. Promise!Answer(r)
    BY <1>1, <1>2, <1>4 DEF HelperReports, Promise!Answer
  <2> QED BY <2>1 DEF Kept, Promise!Next, Promise!Answers, AuthResults
<1> QED BY <1>3, <1>4

\* A result is acted upon.
LEMMA AuthIdleKept ==
  ASSUME IInv, AuthIdle
  PROVE  Kept
<1>1. CASE Unlock
  BY <1>1, UnlockKept
<1>2. CASE /\ Head(authIdles) = "failure"
           /\ authIdles' = Tail(authIdles)
           /\ checking' = FALSE
           /\ timers' = timers \cup {"wake-timeout"}
           /\ UNCHANGED <<statusVars, stage, leftover, activated, refreshVars, fbPid,
                          grabVars, covers, panels, helper, activeIdles, grabIdles,
                          bailOuts, holds, busVars>>
  <2>1. /\ UNCHANGED <<Active, Locked, Awake, helper, bailOuts, refreshing, refreshAgain>>
        /\ "idle-deactivate" \in timers' <=> "idle-deactivate" \in timers
    BY <1>2 DEF statusVars, refreshVars
  <2>2. UNCHANGED Promise!reasons
    BY <2>1, ReasonsStay
  <2>3. Promise!Rejected
    BY <1>2, <2>1, <2>2 DEF AuthIdle, Promise!Rejected
  <2> QED BY <2>3 DEF Kept, Promise!Next
<1>3. CASE /\ Head(authIdles) = "cancel"
           /\ authIdles' = Tail(authIdles)
           /\ CancelUnlocking
  BY <1>3, CancelKept DEF AuthIdle
<1> QED BY <1>1, <1>2, <1>3 DEF AuthIdle

\* The lock delay runs only on an active screen, for a user who can lock.
LEMMA LockDelayKept ==
  ASSUME IInv, DelayNeedsLock, LockDelayTimeout
  PROVE  Kept
<1>1. /\ Active /\ CanLock
      /\ Locked' = TRUE
      /\ UNCHANGED <<Active, Awake, helper, authIdles, bailOuts, refreshing, refreshAgain>>
      /\ "idle-deactivate" \in timers' <=> "idle-deactivate" \in timers
  BY DEF IInv, StageInv, CallbacksFindTheirStage, DelayNeedsLock, LockDelayTimeout,
       LockAndGuard, refreshVars, authVars
<1>2. UNCHANGED Promise!reasons
  BY <1>1, ReasonsStay
<1>3. Promise!Lock
  BY <1>1, <1>2 DEF Promise!Lock
<1> QED BY <1>3 DEF Kept, Promise!Next

\* What LockScreen does not tell apart.
LEMMA UnseenKept ==
  ASSUME \/ ScreenChanged \/ UnlockClicked \/ GrabBroken \/ DelayedComponents
         \/ InactivityExit \/ GrabIdle \/ ActiveIdle \/ UNCHANGED vars
  PROVE  Kept
<1>1. /\ UNCHANGED <<Active, Locked, Awake, helper, authIdles, bailOuts, refreshing,
                     refreshAgain>>
      /\ "idle-deactivate" \in timers' <=> "idle-deactivate" \in timers
  BY DEF ScreenChanged, UnlockClicked, userUnchanged, GrabBroken, DelayedComponents,
       InactivityExit, GrabIdle, ActiveIdle, vars, statusVars, stageVars, stageOnlyVars,
       authVars, refreshVars
<1>2. UNCHANGED Promise!reasons
  BY <1>1, ReasonsStay
<1> QED BY <1>1, <1>2 DEF Kept, Promise!vars

\* Every step of the core is one of LockScreen, or none.
LEMMA PromiseStep == IInv /\ DelayNeedsLock /\ [Next]_vars => [Promise!Next]_(Promise!vars)
<1> SUFFICES ASSUME IInv, DelayNeedsLock, [Next]_vars PROVE Kept
  BY DEF Kept
<1>1. CASE (\E c \in Calls : DBusLock(c)) \/ SessionLock
  BY <1>1, LockKept
<1>2. CASE SetActive \/ SessionIdle
  BY <1>2, ActivateKept DEF SetActive, SessionIdle
<1>3. CASE SetInactive \/ SessionUnlock \/ Quit
  BY <1>3, UnlockKept DEF SetInactive, SessionUnlock, Quit
<1>4. CASE SessionActive
  BY <1>4, RefreshKept DEF SessionActive
<1>5. CASE UserActivity
  <2>1. Active /\ WakeOrDeactivate(timers) /\ UNCHANGED userUnchanged
    BY <1>5 DEF UserActivity
  <2> QED BY <2>1, WakeKept
<1>6. CASE ReturnKey
  <2>1. /\ Active /\ WakeOrDeactivate(timers \ {"wake-timeout"})
        /\ UNCHANGED userUnchanged
    BY <1>6 DEF ReturnKey
  <2> QED BY <2>1, WakeKept
<1>7. CASE EscapeKey \/ WakeTimeout
  BY <1>7, CancelKept DEF EscapeKey, WakeTimeout
<1>8. CASE HelperDies \/ \E r \in AuthResults : HelperReports(r)
  BY <1>8, HelperKept
<1>9. CASE LockDelayTimeout
  BY <1>9, LockDelayKept
<1>10. CASE AuthIdle
  BY <1>10, AuthIdleKept
<1>11. CASE IdleDeactivate \/ BailOut
  BY <1>11, LeaveKept
<1>12. CASE RefreshIdle
  BY <1>12, RefreshIdleKept
<1>13. CASE \/ ScreenChanged \/ UnlockClicked \/ GrabBroken \/ DelayedComponents
            \/ InactivityExit \/ GrabIdle \/ ActiveIdle \/ UNCHANGED vars
  BY <1>13, UnseenKept
<1> QED
  BY <1>1, <1>2, <1>3, <1>4, <1>5, <1>6, <1>7, <1>8, <1>9, <1>10, <1>11, <1>12, <1>13
     DEF Next, Requests, User, Outside, Timeouts, Idles

\* The core implements LockScreen for all values of its constants: a locked session is
\* uncovered by unlocking it, for a reason that stood, or by a refresh that could not
\* construct its stage; only the answers of a helper that was listened to are acted upon,
\* and none outlives its screen but the one that such a refresh leaves shown.
THEOREM KeepsThePromise == Spec => KeepsPromise
<1>1. Init => Promise!Init /\ DelayNeedsLock
  BY DEF Init, Promise!Init, DelayNeedsLock
<1>2. QED
  BY <1>1, DelayStep, PromiseStep, Invariance, PTL DEF Spec, KeepsPromise, Promise!Spec

\* Whatever implements LockScreen listens to a helper only while it asks for the password
\* (HelperOnlyWhileAwake) and, if constructing a stage cannot raise, uncovers a locked
\* session only by unlocking it or for a reason that stood (LockedScreenLeaves).
THEOREM PromiseIsEnough ==
  KeepsPromise => []HelperOnlyWhileAwake /\ (~SpawnMayRaise => LockedScreenLeaves)
<1> DEFINE Leaves == ~SpawnMayRaise /\ Locked /\ Active /\ ~Active' =>
                       \/ ~Locked'
                       \/ "idle-deactivate" \in timers \/ bailOuts > 0 \/ refreshAgain
<1>1. Promise!Init => HelperOnlyWhileAwake
  BY DEF Promise!Init, HelperOnlyWhileAwake
<1>2. [Promise!Next]_(Promise!vars)
        => (HelperOnlyWhileAwake => HelperOnlyWhileAwake') /\ Leaves
  <2> SUFFICES ASSUME [Promise!Next]_(Promise!vars)
               PROVE  (HelperOnlyWhileAwake => HelperOnlyWhileAwake') /\ Leaves
    OBVIOUS
  <2> USE DEF HelperOnlyWhileAwake, Promise!reasons, Promise!Lower, Promise!Uncover
  <2>1. CASE Promise!Show \/ Promise!FailToShow \/ Promise!Lock \/ Promise!Unlock
    BY <2>1 DEF Promise!Show, Promise!FailToShow, Promise!Lock, Promise!Unlock
  <2>2. CASE Promise!Ask \/ Promise!StopAsking \/ Promise!Dismiss \/ Promise!LoseHelper
    BY <2>2 DEF Promise!Ask, Promise!StopAsking, Promise!Dismiss, Promise!LoseHelper
  <2>3. ASSUME NEW a, Promise!Answer(a)
        PROVE  (HelperOnlyWhileAwake => HelperOnlyWhileAwake') /\ Leaves
    BY <2>3 DEF Promise!Answer
  <2>4. CASE Promise!Rejected \/ Promise!GivenUp
    BY <2>4 DEF Promise!Rejected, Promise!GivenUp
  <2>5. CASE Promise!LeaveDismissed \/ Promise!LeaveBroken \/ Promise!LeaveRefreshing
    BY <2>5 DEF Promise!LeaveDismissed, Promise!LeaveBroken, Promise!LeaveRefreshing
  <2>6. ASSUME NEW asks, Promise!Refresh(asks)
        PROVE  (HelperOnlyWhileAwake => HelperOnlyWhileAwake') /\ Leaves
    BY <2>6 DEF Promise!Refresh
  <2>7. CASE \/ Promise!FailToRefresh \/ Promise!FailToLeave
             \/ Promise!GetStuck \/ Promise!PutOff
    BY <2>7 DEF Promise!FailToRefresh, Promise!FailToLeave, Promise!GetStuck,
         Promise!PutOff
  <2>8. CASE UNCHANGED Promise!vars
    BY <2>8 DEF Promise!vars
  <2> QED
    BY <2>1, <2>2, <2>3, <2>4, <2>5, <2>6, <2>7, <2>8 DEF Promise!Next
<1>3. CASE SpawnMayRaise
  BY <1>1, <1>2, <1>3, PTL DEF KeepsPromise, Promise!Spec
<1>4. CASE ~SpawnMayRaise
  <2>1. Leaves => [Locked /\ Active /\ ~Active' =>
                     \/ ~Locked'
                     \/ "idle-deactivate" \in timers \/ bailOuts > 0 \/ refreshAgain
                     \/ leftover' = "shown"]_vars
    BY <1>4
  <2> QED BY <1>1, <1>2, <2>1, PTL DEF KeepsPromise, Promise!Spec, LockedScreenLeaves
<1> QED BY <1>3, <1>4
-----------------------------------------------------------------------------
(* What the documentation says, and all that keeps it from being true. *)

\* No refresh is dispatched after the stage that queued it was destroyed.
NoStrayRefresh == [][RefreshIdle => stage]_vars

\* No refresh finds that it cannot construct a stage.
NoFailedRefresh == [][\A begun \in BOOLEAN : ~RefreshFails(begun)]_vars

\* No callback deactivates a screen that has been locked since it was queued.
NoLateDeactivation == [][IdleDeactivate \/ BailOut => ~Locked]_vars

\* No stage takes the place of another.
NoReplacement == [][\A build \in Builds : ~ReplaceStage(build)]_vars

\* Between two callbacks no refresh is under way, none has left an old stage behind, and a
\* stage that is shown is active.
RefreshEnds == leftover = "none" /\ ~refreshing /\ ~refreshAgain /\ (stage => Active)

\* What a deactivation, an activation and a completed refresh leave of RefreshEnds.
LEMMA RefreshEndsLeft ==
  ASSUME IInv, RefreshEnds,
         \/ (\E done : Deactivate(done)) /\ UNCHANGED refreshVars
         \/ \E build \in Builds : ShowStage(build)
         \/ SpawnRaises
         \/ \E begun \in BOOLEAN : RefreshStage(begun) /\ ~RefreshFails(begun)
  PROVE  RefreshEnds'
<1>1. CASE (\E done : Deactivate(done)) /\ UNCHANGED refreshVars
  <2>1. PICK done : Deactivate(done)
    BY <1>1
  <2>2. stage' = FALSE /\ leftover' = "none"
    BY <2>1, DeactivateEffect DEF RefreshEnds, Wrecked
  <2> QED BY <1>1, <2>2 DEF RefreshEnds, refreshVars
<1>2. CASE \E build \in Builds : ShowStage(build)
  BY <1>2 DEF ShowStage, RefreshEnds, refreshVars
<1>3. CASE SpawnRaises
  BY <1>3 DEF SpawnRaises, RefreshEnds, refreshVars
<1>4. CASE \E begun \in BOOLEAN : RefreshStage(begun) /\ ~RefreshFails(begun)
  <2>1. PICK build \in Builds, policy \in LockPolicies, wakes \in BOOLEAN :
             RefreshCompletes(build, policy, wakes)
    BY <1>4 DEF RefreshStage, RefreshRaises, RefreshEnds
  <2>2. ReplaceStage(build) /\ Active' = TRUE /\ UNCHANGED refreshAgain
    BY <2>1 DEF RefreshCompletes
  <2> QED BY <2>2 DEF ReplaceStage, RefreshEnds
<1> QED BY <1>1, <1>2, <1>3, <1>4

\* Where no refresh has failed, no activation meets what it left.
LEMMA NothingSpoiled ==
  ASSUME leftover = "none"
  PROVE  ~ActivationRaises /\ \A build : ~SpawnSpoiled(build)
BY DEF ActivationRaises, WreckStage, SpawnSpoiled

\* As long as every refresh finds its stage and can construct another, every refresh that
\* is begun completes.
LEMMA RefreshEndsStep ==
  IInv /\ RefreshEnds /\ [Next]_vars /\ [RefreshIdle => stage]_vars
       /\ [\A begun \in BOOLEAN : ~RefreshFails(begun)]_vars => RefreshEnds'
<1> SUFFICES ASSUME IInv, RefreshEnds, [Next]_vars, [RefreshIdle => stage]_vars,
                    [\A begun \in BOOLEAN : ~RefreshFails(begun)]_vars
             PROVE  RefreshEnds'
  OBVIOUS
<1>1. CASE UNCHANGED <<Active, stage, leftover, refreshing, refreshAgain>>
  BY <1>1 DEF RefreshEnds
<1>10. CASE UNCHANGED vars
  BY <1>1, <1>10 DEF vars, statusVars, refreshVars
<1>2. CASE SetInactive \/ SessionUnlock \/ Quit
  BY <1>2, RefreshEndsLeft DEF SetInactive, SessionUnlock, Quit, Unlock
<1>3. CASE (\E c \in Calls : DBusLock(c)) \/ SessionLock \/ SetActive \/ SessionIdle
  <2>1. LockShown \/ LockHidden \/ LockRaises \/ Activate
        \/ UNCHANGED <<Active, stage, leftover, refreshing, refreshAgain>>
    BY <1>3, NothingSpoiled
       DEF DBusLock, SessionLock, SetActive, SessionIdle, LockSpoiled, statusVars,
           stageVars, stageOnlyVars, refreshVars, RefreshEnds
  <2> QED
    BY <1>1, <2>1, RefreshEndsLeft, NothingSpoiled
       DEF LockShown, LockHidden, LockRaises, Activate, stageVars, stageOnlyVars,
           refreshVars, RefreshEnds
<1>4. CASE SessionActive
  <2>1. refreshing \in BOOLEAN
    BY DEF IInv, TypeOK
  <2>2. ~RefreshFails(refreshing) \/ UNCHANGED vars
    BY <2>1
  <2> QED BY <1>4, <1>10, <2>1, <2>2, RefreshEndsLeft DEF SessionActive
<1>5. CASE ScreenChanged \/ User \/ Outside
  BY <1>1, <1>5 DEF ScreenChanged, User, UserActivity, EscapeKey, CancelUnlocking,
       ReturnKey, UnlockClicked, Outside, GrabBroken, HelperDies, HelperReports,
       userUnchanged, statusVars, refreshVars
<1>6. CASE Timeouts \/ GrabIdle \/ ActiveIdle
  BY <1>1, <1>6 DEF Timeouts, WakeTimeout, CancelUnlocking, LockDelayTimeout,
       DelayedComponents, InactivityExit, GrabIdle, ActiveIdle, statusVars, refreshVars,
       stageVars, stageOnlyVars
<1>7. CASE AuthIdle
  <2>1. Unlock \/ UNCHANGED <<Active, stage, leftover, refreshing, refreshAgain>>
    BY <1>7 DEF AuthIdle, CancelUnlocking, statusVars, refreshVars
  <2> QED BY <1>1, <2>1, RefreshEndsLeft DEF Unlock
<1>8. CASE IdleDeactivate \/ BailOut
  BY <1>8, RefreshEndsLeft DEF IdleDeactivate, BailOut
<1>9. CASE RefreshIdle
  <2>1. RefreshStage(TRUE)
    BY <1>9 DEF RefreshIdle, RefreshEnds, Wrecked, vars, refreshVars, IInv, TypeOK
  <2>2. ~RefreshFails(TRUE) \/ UNCHANGED vars
    OBVIOUS
  <2> QED BY <1>10, <2>1, <2>2, RefreshEndsLeft
<1> QED
  BY <1>2, <1>3, <1>4, <1>5, <1>6, <1>7, <1>8, <1>9, <1>10
     DEF Next, Requests, Idles

\* What follows needs both invariants at every step.
LEMMA RefreshAlwaysEnds == Spec /\ NoStrayRefresh /\ NoFailedRefresh => []RefreshEnds
<1>1. Init => RefreshEnds
  BY DEF Init, RefreshEnds
<1> QED
  BY <1>1, RefreshEndsStep, Invariance, PTL DEF Spec, NoStrayRefresh, NoFailedRefresh

\* A refresh that finds its stage gone and one that cannot construct another are all that
\* keep a change of the screen from being acted upon, a locked stage from holding the
\* keyboard, and a stage that is shown from being active.
THEOREM RefreshFaultsAreTheCause ==
  Spec /\ NoStrayRefresh /\ NoFailedRefresh
    => [](ChangeIsActedUpon /\ LockedStageHoldsKeyboard /\ ActiveTellsShowing)
<1>1. IInv /\ RefreshEnds =>
        ChangeIsActedUpon /\ LockedStageHoldsKeyboard /\ ActiveTellsShowing
  BY DEF IInv, StageInv, RefreshEnds, UncoveredIsRefreshed, Wrecked, ActiveHoldsInput,
       ChangeIsActedUpon, LockedStageHoldsKeyboard, ActiveTellsShowing
<1> QED BY <1>1, RefreshAlwaysEnds, Invariance, PTL

\* The same two and a deactivation that overtakes a lock are all that uncovers a session
\* that stays locked.
THEOREM LateCallbacksAndRefreshFaultsAreTheCause ==
  Spec /\ NoStrayRefresh /\ NoFailedRefresh /\ NoLateDeactivation => LockedStaysCovered
<1> DEFINE StaysCovered == Locked /\ Active /\ ~Active' => ~Locked'
<1>1. /\ IInv /\ RefreshEnds /\ [Next]_vars
      /\ [IdleDeactivate \/ BailOut => ~Locked]_vars
      /\ [\A begun \in BOOLEAN : ~RefreshFails(begun)]_vars
      => [StaysCovered]_vars
  <2> SUFFICES ASSUME IInv, RefreshEnds, Next, ~(UNCHANGED vars),
                      IdleDeactivate \/ BailOut => ~Locked,
                      \A begun \in BOOLEAN : ~RefreshFails(begun),
                      Locked, Active, ~Active'
               PROVE  ~Locked'
    OBVIOUS
  <2>1. CASE Unlock
    BY <2>1 DEF Unlock, UnlockAndUnguard, RefreshEnds, Wrecked
  <2>2. ~(IdleDeactivate \/ BailOut)
    OBVIOUS
  <2>3. ~RefreshStage(TRUE) /\ ~RefreshStage(refreshing)
    BY DEF RefreshStage, RefreshRaises, RefreshCompletes, RefreshEnds, IInv, TypeOK
  <2>4. CASE (\E c \in Calls : DBusLock(c)) \/ SessionLock \/ Activate
    BY <2>4, NothingSpoiled
       DEF DBusLock, SessionLock, Activate, LockShown, LockHidden, LockRaises, LockSpoiled,
           ShowStage, SpawnRaises, stageVars, stageOnlyVars, statusVars, RefreshEnds
  <2>5. CASE ScreenChanged \/ User \/ Outside
    BY <2>5 DEF ScreenChanged, User, UserActivity, EscapeKey, CancelUnlocking, ReturnKey,
         UnlockClicked, Outside, GrabBroken, HelperDies, HelperReports, userUnchanged,
         statusVars
  <2>6. CASE Timeouts \/ GrabIdle \/ ActiveIdle
    BY <2>6 DEF Timeouts, WakeTimeout, CancelUnlocking, LockDelayTimeout,
         DelayedComponents, InactivityExit, GrabIdle, ActiveIdle, statusVars
  <2>7. CASE AuthIdle
    BY <2>1, <2>7 DEF AuthIdle, CancelUnlocking, statusVars
  <2>8. ~RefreshIdle
    BY <2>3 DEF RefreshIdle, statusVars
  <2> QED
    BY <2>1, <2>2, <2>3, <2>4, <2>5, <2>6, <2>7, <2>8
       DEF Next, Requests, Idles, SetActive, SessionIdle, SetInactive, SessionUnlock,
           Quit, SessionActive
<1> QED
  BY <1>1, RefreshAlwaysEnds, Invariance, PTL
     DEF Spec, NoFailedRefresh, NoLateDeactivation, LockedStaysCovered

\* The children of a stage are there, are coming, or are given up with it.
ChildrenAreMeant == leftover = "none" /\ (DelayedComponentsComing \/ bailOuts > 0)

\* Except by a refresh, a stage loses the timer of its late children only when it fires.
LEMMA ChildrenAreMeantStep ==
  IInv /\ ChildrenAreMeant /\ [Next]_vars
       /\ [\A build \in Builds : ~ReplaceStage(build)]_vars
       /\ [\A begun \in BOOLEAN : ~RefreshFails(begun)]_vars => ChildrenAreMeant'
<1> SUFFICES ASSUME IInv, ChildrenAreMeant, [Next]_vars,
                    [\A build \in Builds : ~ReplaceStage(build)]_vars,
                    [\A begun \in BOOLEAN : ~RefreshFails(begun)]_vars
             PROVE  ChildrenAreMeant'
  OBVIOUS
<1> USE DEF ChildrenAreMeant, DelayedComponentsComing
<1>1. CASE UNCHANGED vars
  BY <1>1 DEF vars
<1>2. CASE UNCHANGED <<stage, leftover, panels, timers, bailOuts>>
  BY <1>2
<1>3. CASE \E done : Deactivate(done)
  BY <1>3, DeactivateEffect DEF Wrecked
<1>4. (~RefreshStage(TRUE) /\ ~RefreshStage(refreshing)) \/ UNCHANGED vars
  BY DEF RefreshStage, RefreshRaises, RefreshCompletes, IInv, TypeOK
<1>5. ASSUME NEW build \in Builds, ShowStage(build),
             (timers \cup BuildTimer(build)) \ {"idle-lock-delay"} \subseteq timers'
      PROVE  ChildrenAreMeant'
  <2>1. CASE stage
    BY <1>5, <2>1 DEF ShowStage
  <2>2. CASE ~stage /\ build = "ok"
    BY <1>5, <2>2 DEF ShowStage, BuildTimer
  <2>3. CASE ~stage /\ build = "broken"
    BY <1>5, <2>3 DEF ShowStage, NewStage, NoteBuild, IInv, TypeOK
  <2> QED BY <2>1, <2>2, <2>3 DEF Builds
<1>6. CASE (\E c \in Calls : DBusLock(c)) \/ SessionLock \/ SetActive \/ SessionIdle
  <2>1. LockShown \/ LockHidden \/ LockRaises \/ Activate
        \/ UNCHANGED <<stage, leftover, panels, timers, bailOuts>>
    BY <1>6, NothingSpoiled
       DEF DBusLock, SessionLock, SetActive, SessionIdle, LockSpoiled, stageVars,
           stageOnlyVars
  <2>2. CASE LockHidden
    BY <1>5, <2>2 DEF LockHidden
  <2>3. CASE SpawnRaises
    BY <2>3 DEF SpawnRaises
  <2>4. CASE Activate
    BY <1>5, <2>3, <2>4, NothingSpoiled DEF Activate
  <2> QED
    BY <1>2, <2>1, <2>2, <2>3, <2>4 DEF LockShown, LockRaises, stageVars, stageOnlyVars
<1>7. CASE SetInactive \/ SessionUnlock \/ Quit \/ IdleDeactivate \/ BailOut
  BY <1>3, <1>7 DEF SetInactive, SessionUnlock, Quit, Unlock, IdleDeactivate, BailOut
<1>8. CASE ScreenChanged \/ User \/ Outside
  BY <1>8 DEF ScreenChanged, User, UserActivity, EscapeKey, CancelUnlocking, ReturnKey,
       UnlockClicked, WakeOrDeactivate, RaiseDialog, Outside, GrabBroken, HelperDies,
       HelperReports, userUnchanged
<1>9. CASE Timeouts \/ GrabIdle \/ ActiveIdle
  BY <1>9 DEF Timeouts, WakeTimeout, CancelUnlocking, LockDelayTimeout,
       DelayedComponents, InactivityExit, GrabIdle, ActiveIdle, stageVars, stageOnlyVars
<1>10. CASE AuthIdle
  <2>1. \/ Unlock
        \/ /\ UNCHANGED <<stage, leftover, panels, bailOuts>>
           /\ timers \ {"wake-timeout"} \subseteq timers'
    BY <1>10 DEF AuthIdle, CancelUnlocking
  <2> QED BY <1>3, <2>1 DEF Unlock
<1>11. CASE RefreshIdle
  BY <1>1, <1>2, <1>4, <1>11 DEF RefreshIdle, stageVars, stageOnlyVars
<1> QED
  BY <1>1, <1>4, <1>6, <1>7, <1>8, <1>9, <1>10, <1>11
     DEF Next, Requests, Idles, SessionActive

\* A refresh is all that leaves a stage without its late children, unless it is about to
\* be given up: destroying the old stage stops the timer of the new one, and a failed
\* refresh leaves a stage to be destroyed with the next.
THEOREM RefreshIsTheCause ==
  Spec /\ NoReplacement /\ NoFailedRefresh => [](bailOuts = 0 => DelayedComponentsComing)
<1>1. Init => ChildrenAreMeant
  BY DEF Init, ChildrenAreMeant, DelayedComponentsComing
<1>2. ChildrenAreMeant => (bailOuts = 0 => DelayedComponentsComing)
  BY DEF ChildrenAreMeant
<1> QED
  BY <1>1, <1>2, ChildrenAreMeantStep, Invariance, PTL
     DEF Spec, NoReplacement, NoFailedRefresh

=============================================================================
