----------------------------- MODULE Screensaver -----------------------------
(***************************************************************************)
(* The core of the cinnamon-screensaver process: ScreensaverManager, the   *)
(* life of the Stage it owns, the D-Bus service in front of it, and the    *)
(* user events, timers and idle callbacks that drive both.                 *)
(*                                                                         *)
(* The process is one GLib main loop, so each handler runs to its end      *)
(* before the next one starts: one handler, timer or idle callback is one  *)
(* action, with everything it calls.  What interleaves is the order in     *)
(* which the loop dispatches them.                                         *)
(***************************************************************************)
EXTENDS Naturals, Sequences

CONSTANTS
  Calls,             \* D-Bus invocations of Lock(), each made at most once
  CanLock,           \* utils.user_can_lock(), fixed for the life of the process
  UseFallback,       \* status.UseFallback: cs-backup-locker guards a locked screen
  IdleLockPolicies,  \* lock-enabled and lock-delay, read at each activation
  SpawnMayRaise,     \* constructing a Stage may raise, at an activation or a refresh
  BuildMayBreak,     \* Stage.setup_children may hit a "total failure"
  PamMayFail,        \* starting the PAM helper may fail
  HelperMayDie,      \* the PAM helper may exit without a result
  FallbackMayFail,   \* starting cs-backup-locker may fail
  MaxSignals,        \* bound: ActiveChanged signals waiting when an input arrives
  MaxAuth,           \* bound: results of one helper waiting for their idle
  MaxIdles,          \* bound: queued re-grabs, and queued bail-outs
  MaxHolds           \* bound: holds leaked by activations that raised

Policies == {"off", "now", "later"}

ASSUME ConstantsAssumption ==
  /\ CanLock \in BOOLEAN
  /\ UseFallback \in BOOLEAN
  /\ SpawnMayRaise \in BOOLEAN
  /\ BuildMayBreak \in BOOLEAN
  /\ PamMayFail \in BOOLEAN
  /\ HelperMayDie \in BOOLEAN
  /\ FallbackMayFail \in BOOLEAN
  /\ IdleLockPolicies \in SUBSET Policies
  /\ IdleLockPolicies # {}
  /\ MaxSignals \in Nat
  /\ MaxAuth \in Nat
  /\ MaxIdles \in Nat
  /\ MaxHolds \in Nat

VARIABLES
  (* status.py *)
  Active, Locked, Awake,
  (* ScreensaverManager *)
  stage,          \* self.stage is not None
  leftover,       \* what a refresh that failed has left behind: see Leftovers
  activated,      \* self.activated_timestamp is not 0
  refreshQueued,  \* self.stage_refresh_id is not 0
  refreshing, refreshAgain,
  fbPid,          \* self.fb_pid is not 0
  (* EventGrabber: "stage" is a grab on the stage's window; "lost" is one the *)
  (* grabber still records and the X server has broken                        *)
  keyboard, mouse,
  (* Stage, UnlockDialog and AuthClient *)
  covers,         \* the stage was built for the present screen layout
  panels,         \* setup_delayed_components has run for this stage
  helper,         \* the dialog's AuthClient is initialized
  checking,       \* a password was handed to the helper and is not answered
  (* the main loop *)
  timers,         \* names TimerTracker holds a live source for
  activeIdles,    \* queued on_active_changed_idle(state) callbacks
  authIdles,      \* queued auth-success, auth-failure and auth-cancel emissions
  grabIdles,      \* queued manager.grab_stage callbacks
  bailOuts,       \* queued deactivate_after_timeout callbacks
  (* the process and its D-Bus clients *)
  holds,          \* use count of the GApplication
  running,        \* the main loop runs
  emitted,        \* the last ActiveChanged signal sent
  callState       \* what became of each Lock() invocation

statusVars  == <<Active, Locked, Awake>>
refreshVars == <<refreshQueued, refreshing, refreshAgain>>
grabVars    == <<keyboard, mouse>>
authVars    == <<helper, checking, authIdles>>
busVars     == <<running, emitted, callState>>

\* What destroying a stage touches besides status.Awake and the timers.
stageOnlyVars == <<stage, leftover, Active, activated, keyboard, mouse, covers, panels,
                   helper, checking, authIdles, activeIdles, holds>>
stageVars     == <<stageOnlyVars, timers>>

vars == <<statusVars, stage, leftover, activated, refreshVars, fbPid, grabVars, covers,
          panels, authVars, timers, activeIdles, grabIdles, bailOuts, holds,
          busVars>>

Timers ==
  {"idle-lock-delay", "wake-timeout", "idle-deactivate", "setup-delayed-components"}

\* The timers that Stage.destroy_stage and manager.cancel_timers stop.
StageTimers == Timers \ {"idle-deactivate"}

\* self.old_stage is None; is self.stage; or is a stage that has been destroyed since.
\* "wreck": self.stage is one that has been destroyed.
Leftovers == {"none", "shown", "gone", "wreck"}

Wrecked == leftover = "wreck"

AuthResults == {"success", "failure", "cancel"}
Grab        == {"none", "stage", "lost"}
CallStates  == {"new", "queued", "answered", "failed"}

Init ==
  /\ Active = FALSE /\ Locked = FALSE /\ Awake = FALSE
  /\ stage = FALSE /\ leftover = "none" /\ activated = FALSE
  /\ refreshQueued = FALSE /\ refreshing = FALSE /\ refreshAgain = FALSE
  /\ fbPid = FALSE
  /\ keyboard = "none" /\ mouse = "none"
  /\ covers = FALSE /\ panels = FALSE
  /\ helper = FALSE /\ checking = FALSE
  /\ timers = {}
  /\ activeIdles = <<>> /\ authIdles = <<>>
  /\ grabIdles = 0 /\ bailOuts = 0
  /\ holds = 0 /\ running = TRUE
  /\ emitted = FALSE
  /\ callState = [c \in Calls |-> "new"]

-----------------------------------------------------------------------------
(* Pieces of handlers.  Each is the effect of the method it is named for. *)

\* EventGrabber.move_to_window onto the stage, the keyboard first.  The grabber finds
\* out by itself that it lost the pointer, never that it lost the keyboard: only one
\* it does not hold at all is grabbed again.
GrabStage ==
  /\ keyboard' = IF keyboard = "none" THEN "stage" ELSE keyboard
  /\ mouse' = "stage"

\* EventGrabber.release.
ReleaseGrabs == keyboard' = "none" /\ mouse' = "none"

\* AuthClient.end_proc: the helper is told to go, and with it a check under way.
EndHelper == helper' = FALSE /\ checking' = FALSE

\* UnlockDialog.on_unlock_clicked: a password is handed to the helper, if there is one.
SubmitPassword == checking' = (checking \/ helper)

\* spawn_fallback_window, over a realized stage.
SpawnFallback ==
  IF fbPid THEN UNCHANGED fbPid
           ELSE fbPid' \in {TRUE} \cup (IF FallbackMayFail THEN {FALSE} ELSE {})

\* kill_fallback_window, whether the window is still there or not.
KillFallback == fbPid' = FALSE

\* set_locked(True).
LockAndGuard ==
  /\ Locked' = TRUE
  /\ IF UseFallback THEN SpawnFallback ELSE UNCHANGED fbPid

\* Mutant of UnlockAndUnguard: the fallback window is not killed.
UnlockKeepingGuard == Locked' = FALSE /\ UNCHANGED fbPid

\* set_locked(False).
UnlockAndUnguard ==
  /\ Locked' = FALSE
  /\ IF UseFallback THEN KillFallback ELSE UNCHANGED fbPid

Builds == {"ok"} \cup (IF BuildMayBreak /\ bailOuts < MaxIdles THEN {"broken"} ELSE {})

\* start_lock_delay returns before it reads the delay if the user cannot lock.
LockPolicies == IF CanLock THEN IdleLockPolicies ELSE {"off"}

\* Mutant of DelayTimer: a delay is started when there is none to wait for.
DelayTimerForNow(policy) == IF policy = "now" THEN {"idle-lock-delay"} ELSE {}

DelayTimer(policy) == IF policy = "later" THEN {"idle-lock-delay"} ELSE {}

\* "setup-delayed-components" is started by setup_children, for a new stage only.
BuildTimer(build) ==
  IF ~stage /\ build = "ok" THEN {"setup-delayed-components"} ELSE {}

NoteBuild(build) == bailOuts' = bailOuts + (IF build = "broken" THEN 1 ELSE 0)

\* Stage(): it covers the screens as they are, and has no late components yet.
NewStage(build) == covers' = TRUE /\ panels' = FALSE /\ NoteBuild(build)

\* set_active(True) from an inactive state up to on_spawn_stage_complete: the root
\* grab is obtained, a stage is constructed (or one left behind is shown again),
\* the grabs move to it and active-changed is emitted.
ShowStage(build) ==
  /\ ~Active
  /\ leftover \in {"none", "wreck"}
  /\ Len(activeIdles) < MaxSignals
  /\ stage' = TRUE
  /\ Active' = TRUE
  /\ activated' = TRUE
  /\ keyboard' = "stage" /\ mouse' = "stage"
  /\ activeIdles' = Append(activeIdles, TRUE)
  /\ IF stage
       THEN UNCHANGED <<covers, panels, holds, bailOuts>>
       ELSE NewStage(build) /\ holds' = holds + 1
  /\ UNCHANGED <<Awake, leftover, refreshVars, authVars, grabIdles, running, emitted>>

\* set_active(True) when constructing the stage raises: spawn_stage swallows the
\* exception, and the hold taken before it is never released.
SpawnRaises ==
  /\ SpawnMayRaise
  /\ ~Active /\ ~stage
  /\ holds < MaxHolds
  /\ holds' = holds + 1
  /\ ReleaseGrabs
  /\ activated' = FALSE
  /\ timers' = timers \ {"idle-lock-delay"}
  /\ UNCHANGED <<Active, Awake, stage, leftover, refreshVars, fbPid, covers, panels,
                 authVars, activeIdles, grabIdles, bailOuts, running, emitted>>

\* set_active(True) with an old stage that has been destroyed: destroying it again stops
\* the timer of the new one and raises; spawn_stage leaves the new one inactive.
SpawnSpoiled(build) ==
  /\ leftover = "gone"
  /\ ~Active /\ ~stage
  /\ stage' = TRUE
  /\ holds' = holds + 1
  /\ NewStage(build)
  /\ ReleaseGrabs
  /\ activated' = FALSE
  /\ timers' = timers \ {"setup-delayed-components", "idle-lock-delay"}
  /\ UNCHANGED <<Active, Awake, leftover, refreshVars, authVars, activeIdles, grabIdles,
                 running, emitted>>

\* set_active(True) over the stage of a refresh that failed: it is destroyed for the old
\* one, and grabbing its window raises.
WreckStage ==
  /\ leftover = "shown" /\ leftover' = "wreck"
  /\ keyboard' = "none" /\ mouse' = "none"
  /\ covers' = FALSE /\ panels' = FALSE
  /\ EndHelper /\ authIdles' = <<>>
  /\ timers' = timers \ {"setup-delayed-components", "wake-timeout"}

\* set_active(True) over an inactive stage, with an old stage left: nothing catches what
\* on_spawn_stage_complete raises.
ActivationRaises ==
  /\ ~Active /\ stage
  /\ \/ WreckStage
     \/ /\ leftover = "gone"
        /\ keyboard' = "stage" /\ mouse' = "stage"
        /\ timers' = timers \ {"setup-delayed-components"}
        /\ UNCHANGED <<leftover, covers, panels, authVars>>
  /\ UNCHANGED <<statusVars, stage, activated, refreshVars, fbPid, activeIdles, grabIdles,
                 bailOuts, holds, running, emitted>>

\* Mutant of DespawnStage: cancel_timers does not clear the time stamp.
DespawnKeepingStamp ==
  /\ stage' = FALSE /\ Active' = FALSE
  /\ leftover' = IF leftover = "none" THEN "none" ELSE "gone"
  /\ ReleaseGrabs
  /\ covers' = FALSE /\ panels' = FALSE
  /\ EndHelper /\ authIdles' = <<>>
  /\ activeIdles' = IF Active THEN Append(activeIdles, FALSE) ELSE activeIdles
  /\ holds' = holds - 1
  /\ UNCHANGED activated

\* despawn_stage, with the release of the grabs and of the hold around it.
DespawnStage ==
  /\ stage' = FALSE
  /\ leftover' = IF leftover = "none" THEN "none" ELSE "gone"
  /\ Active' = FALSE
  /\ activated' = FALSE
  /\ ReleaseGrabs
  /\ covers' = FALSE /\ panels' = FALSE
  /\ EndHelper /\ authIdles' = <<>>
  /\ activeIdles' = IF Active THEN Append(activeIdles, FALSE) ELSE activeIdles
  /\ holds' = holds - 1

\* set_active(False) on a destroyed stage: the grabs are released, then despawn_stage
\* raises for want of a dialog.
DespawnRaises ==
  /\ ReleaseGrabs
  /\ UNCHANGED <<stage, leftover, Active, activated, covers, panels, authVars, activeIdles,
                 holds>>

\* Mutant of Deactivate: the application is released even without a stage.
DeactivateReleasing(done) ==
  \/ stage /\ ~Wrecked /\ DespawnStage /\ timers' = timers \ (done \cup StageTimers)
  \/ stage /\ Wrecked /\ DespawnRaises /\ timers' = timers \ done
  \/ /\ ~stage
     /\ holds' = holds - 1
     /\ timers' = timers \ done
     /\ UNCHANGED <<stage, leftover, Active, activated, grabVars, covers, panels, authVars,
                    activeIdles>>

\* Mutant of Deactivate: despawn_stage does not cancel the lock delay.
DeactivateKeepingDelay(done) ==
  \/ /\ stage /\ ~Wrecked
     /\ DespawnStage
     /\ timers' = timers \ (done \cup (StageTimers \ {"idle-lock-delay"}))
  \/ stage /\ Wrecked /\ DespawnRaises /\ timers' = timers \ done
  \/ ~stage /\ UNCHANGED stageOnlyVars /\ timers' = timers \ done

\* set_active(False), and the cancellation of the timers in done.
Deactivate(done) ==
  \/ stage /\ ~Wrecked /\ DespawnStage /\ timers' = timers \ (done \cup StageTimers)
  \/ stage /\ Wrecked /\ DespawnRaises /\ timers' = timers \ done
  \/ ~stage /\ UNCHANGED stageOnlyVars /\ timers' = timers \ done

\* Mutant of Unlock: a stage that is not Active is taken for no stage.
UnlockActiveOnly ==
  /\ IF Active THEN Deactivate({}) ELSE UNCHANGED stageVars
  /\ IF Wrecked
       THEN UNCHANGED <<Locked, fbPid, Awake>>
       ELSE UnlockAndUnguard /\ Awake' = FALSE
  /\ UNCHANGED <<refreshVars, grabIdles, bailOuts, emitted, callState>>

\* unlock().
Unlock ==
  /\ Deactivate({})
  /\ IF Wrecked
       THEN UNCHANGED <<Locked, fbPid, Awake>>
       ELSE UnlockAndUnguard /\ Awake' = FALSE
  /\ UNCHANGED <<refreshVars, grabIdles, bailOuts, emitted, callState>>

\* Mutant of CancelUnlocking: the pointer released for the dialog is not grabbed again.
CancelWithoutGrab ==
  /\ Awake' = FALSE
  /\ EndHelper
  /\ timers' = timers \ {"wake-timeout"}
  /\ UNCHANGED <<Active, Locked, stage, leftover, activated, refreshVars, fbPid,
                 grabVars, covers, panels, activeIdles, grabIdles, bailOuts, holds,
                 busVars>>

\* manager.cancel_unlocking(): grab_stage, then stage.cancel_unlocking.
CancelUnlocking ==
  /\ GrabStage
  /\ Awake' = FALSE
  /\ EndHelper
  /\ timers' = timers \ {"wake-timeout"}
  /\ UNCHANGED <<Active, Locked, stage, leftover, activated, refreshVars, fbPid, covers,
                 panels, activeIdles, grabIdles, bailOuts, holds, busVars>>

\* initialize_pam and raise_unlock_widget: the helper runs, the pointer is released for
\* the dialog, and the timeout starts afresh.
RaiseDialog(pending) ==
  /\ helper' = TRUE
  /\ Awake' = TRUE
  /\ mouse' = "none"
  /\ timers' = pending \cup {"wake-timeout"}

\* Mutant of WakeOrDeactivate: the dialog is raised whether or not the screen is locked.
WakeUnlocked(pending) == RaiseDialog(pending)

\* simulate_user_activity() on an active screen, from a set of pending timers.
WakeOrDeactivate(pending) ==
  \/ Locked /\ ~Wrecked /\ RaiseDialog(pending)
  \/ /\ Locked => PamMayFail /\ ~helper /\ ~Wrecked
     /\ timers' = pending \cup {"idle-deactivate"}
     /\ UNCHANGED <<helper, Awake, mouse>>

\* What no user event changes.
userUnchanged == <<Active, Locked, stage, leftover, activated, refreshVars, fbPid, keyboard,
                   covers, panels, authIdles, activeIdles, grabIdles, bailOuts, holds,
                   busVars>>

-----------------------------------------------------------------------------
(* Requests: the D-Bus methods, the session manager and the login manager. *)

Reply(c, r) == callState' = [callState EXCEPT ![c] = r]

\* manager.lock() on an active screen.
LockShown ==
  /\ Active
  /\ IF CanLock THEN LockAndGuard ELSE UNCHANGED <<Locked, fbPid>>
  /\ UNCHANGED <<Awake, stageVars, refreshVars, grabIdles, bailOuts, running, emitted>>

\* manager.lock() on an inactive screen.
LockHidden ==
  \E build \in Builds :
    /\ ShowStage(build)
    /\ timers' = (timers \cup BuildTimer(build)) \ {"idle-lock-delay"}
    /\ IF CanLock THEN LockAndGuard ELSE UNCHANGED <<Locked, fbPid>>

\* manager.lock() when the stage could not be constructed.  set_locked(True) then
\* raises in spawn_fallback_window, after Locked is set.
LockRaises ==
  /\ SpawnRaises
  /\ Locked' = (Locked \/ CanLock)

\* manager.lock() when the stage is constructed and on_spawn_stage_complete raises.
LockSpoiled ==
  \E build \in Builds :
    /\ SpawnSpoiled(build)
    /\ IF CanLock THEN LockAndGuard ELSE UNCHANGED <<Locked, fbPid>>

\* Mutant of DBusLock: on an active screen lock() answers False, and the call waits.
DBusLockWaits(c) ==
  /\ running
  /\ callState[c] = "new"
  /\ LockShown \/ LockHidden \/ LockRaises
  /\ Reply(c, "queued")

\* handle_lock.  The last case is a failed grab: lock() answers True all the same.
DBusLock(c) ==
  /\ running
  /\ callState[c] = "new"
  /\ \/ LockShown /\ Reply(c, "answered")
     \/ (LockHidden \/ LockSpoiled) /\ Reply(c, "queued")
     \/ ActivationRaises /\ Reply(c, "failed")
     \/ /\ LockRaises
        /\ Reply(c, IF CanLock /\ UseFallback /\ ~fbPid THEN "failed" ELSE "queued")
     \/ /\ ~Active
        /\ Reply(c, "answered")
        /\ UNCHANGED <<statusVars, stageVars, refreshVars, fbPid, grabIdles, bailOuts,
                       running, emitted>>

\* on_session_manager_lock: logind or ConsoleKit asks, and expects no answer.
SessionLock ==
  /\ running
  /\ LockShown \/ LockHidden \/ LockRaises \/ LockSpoiled \/ ActivationRaises
  /\ UNCHANGED callState

\* set_active(True).
Activate ==
  /\ running
  /\ \/ \E build \in Builds, policy \in LockPolicies :
          /\ ShowStage(build)
          /\ timers' = timers \cup BuildTimer(build) \cup DelayTimer(policy)
          /\ IF policy = "now" THEN LockAndGuard ELSE UNCHANGED <<Locked, fbPid>>
     \/ SpawnRaises /\ UNCHANGED Locked
     \/ \E build \in Builds : SpawnSpoiled(build) /\ UNCHANGED <<Locked, fbPid>>
     \/ ActivationRaises
  /\ UNCHANGED callState

\* handle_set_active(True), and on_session_idle_changed(True).
SetActive   == Activate
SessionIdle == Activate

\* handle_set_active(False), and on_session_manager_unlock.
SetInactive   == running /\ Unlock /\ UNCHANGED running
SessionUnlock == running /\ Unlock /\ UNCHANGED running

\* handle_quit: it does not get to the end if unlock() raises.
Quit == running /\ Unlock /\ running' = Wrecked

-----------------------------------------------------------------------------
(* refresh_stage: a new stage takes the place of the old one.  Destroying the old
   stage stops the timers the two share by name, "setup-delayed-components" of the
   new stage among them. *)

\* Mutant of ReplaceStage: destroying the old stage releases the application.
ReplaceStageReleasing(build) ==
  /\ stage /\ ~Wrecked
  /\ leftover' = "none"
  /\ NewStage(build)
  /\ checking' = FALSE /\ authIdles' = <<>>
  /\ refreshing' = FALSE
  /\ holds' = holds - 1
  /\ UNCHANGED <<stage, grabIdles, busVars>>

\* Mutant of ReplaceStage: results for the dialog of the old stage are acted upon.
ReplaceStageKeepingResults(build) ==
  /\ stage /\ ~Wrecked
  /\ leftover' = "none"
  /\ NewStage(build)
  /\ checking' = FALSE /\ UNCHANGED authIdles
  /\ refreshing' = FALSE
  /\ UNCHANGED <<stage, grabIdles, holds, busVars>>

\* What every refresh does, whether or not it gets to its end.
ReplaceStage(build) ==
  /\ stage /\ ~Wrecked
  /\ leftover' = "none"
  /\ NewStage(build)
  /\ checking' = FALSE /\ authIdles' = <<>>
  /\ refreshing' = FALSE
  /\ UNCHANGED <<stage, grabIdles, holds, busVars>>

\* stage_refreshed calls queue_refresh_stage without its argument: spawn_stage catches
\* the exception, releases the grabs and leaves the new stage shown but not Active.
RefreshRaises(build) ==
  /\ refreshAgain
  /\ ReplaceStage(build)
  /\ refreshAgain' = FALSE
  /\ Active' = FALSE /\ activated' = FALSE /\ Awake' = FALSE
  /\ ReleaseGrabs
  /\ helper' = FALSE
  /\ timers' = timers \ StageTimers
  /\ UNCHANGED <<Locked, fbPid, activeIdles>>

\* stage_refreshed simulates user activity, which an inactive screen ignores; then
\* on_spawn_stage_complete activates, and starts the lock delay, afresh.
RefreshCompletes(build, policy, wakes) ==
  /\ ~refreshAgain
  /\ ReplaceStage(build)
  /\ wakes => Active /\ Locked
  /\ (~wakes /\ Active /\ Locked) => PamMayFail
  /\ Awake' = wakes
  /\ helper' = wakes
  /\ mouse' = IF wakes THEN "none" ELSE "stage"
  /\ keyboard' = "stage"
  /\ timers' = (timers \ StageTimers) \cup DelayTimer(policy)
                 \cup (IF wakes THEN {"wake-timeout"} ELSE {})
                 \cup (IF Active /\ ~wakes THEN {"idle-deactivate"} ELSE {})
  /\ Active' = TRUE /\ activated' = TRUE
  /\ activeIdles' = Append(activeIdles, TRUE)
  /\ IF policy = "now" THEN LockAndGuard ELSE UNCHANGED <<Locked, fbPid>>
  /\ UNCHANGED refreshAgain

\* Constructing the new stage raises: spawn_stage catches it, and the old stage stays,
\* shown but not Active, with nothing to grab the input for it.
RefreshFails(begun) ==
  /\ SpawnMayRaise
  /\ stage /\ ~Wrecked
  /\ leftover' = "shown"
  /\ refreshing' = begun
  /\ Active' = FALSE /\ activated' = FALSE /\ Awake' = FALSE
  /\ ReleaseGrabs
  /\ EndHelper
  /\ timers' = timers \ {"wake-timeout", "idle-lock-delay"}
  /\ UNCHANGED <<Locked, stage, refreshAgain, fbPid, covers, panels, authIdles,
                 activeIdles, grabIdles, bailOuts, holds, busVars>>

\* refresh_stage, on a stage; begun is what self.refreshing is when it is called.
RefreshStage(begun) ==
  \/ RefreshFails(begun)
  \/ \E build \in Builds :
    \/ RefreshRaises(build)
    \/ \E policy \in LockPolicies, wakes \in BOOLEAN :
          RefreshCompletes(build, policy, wakes)

\* Mutant of RefreshIdle: finding a refresh under way ends it.
RefreshIdleForgets ==
  /\ running
  /\ refreshQueued
  /\ refreshQueued' = FALSE
  /\ \/ /\ refreshing \/ ~stage
        /\ refreshing' = ~refreshing
        /\ UNCHANGED <<statusVars, stageVars, refreshAgain, fbPid, grabIdles, bailOuts,
                       busVars>>
     \/ ~refreshing /\ RefreshStage(TRUE)

\* _update_full_stage_on_idle: a refresh already under way is asked to go again.  One
\* that finds no stage, or a destroyed one, ends with refreshing left set.
RefreshIdle ==
  /\ running
  /\ refreshQueued
  /\ refreshQueued' = FALSE
  /\ \/ /\ refreshing
        /\ refreshAgain' = TRUE
        /\ UNCHANGED <<statusVars, stageVars, refreshing, fbPid, grabIdles, bailOuts,
                       busVars>>
     \/ /\ ~refreshing /\ (~stage \/ Wrecked)
        /\ refreshing' = TRUE
        /\ UNCHANGED <<statusVars, stageVars, refreshAgain, fbPid, grabIdles, bailOuts,
                       busVars>>
     \/ ~refreshing /\ RefreshStage(TRUE)

\* on_session_manager_active: this seat's session is in front again.
SessionActive ==
  /\ running
  /\ Len(activeIdles) < MaxSignals
  /\ RefreshStage(refreshing)
  /\ UNCHANGED refreshQueued

\* The screen is resized, or its monitors change: the stage asks for a refresh.
ScreenChanged ==
  /\ running
  /\ stage /\ ~Wrecked
  /\ Len(activeIdles) < MaxSignals
  /\ covers' = FALSE
  /\ refreshQueued' = TRUE
  /\ UNCHANGED <<statusVars, stage, leftover, activated, refreshing, refreshAgain,
                 fbPid, grabVars, panels, authVars, timers, activeIdles, grabIdles,
                 bailOuts, holds, busVars>>

-----------------------------------------------------------------------------
(* The user: EventHandler and the dialog's button. *)

\* Motion, a button press, or a key without a meaning of its own; and the D-Bus
\* method SimulateUserActivity on a locked screen.
UserActivity ==
  /\ running
  /\ Active
  /\ WakeOrDeactivate(timers)
  /\ UNCHANGED <<userUnchanged, checking>>

\* Escape closes the dialog.
EscapeKey == running /\ Awake /\ CancelUnlocking /\ UNCHANGED authIdles

\* Return reaches the password entry first, which submits the password and inhibits
\* the timeout; the same key event then counts as user activity, which restarts it.
ReturnKey ==
  /\ running
  /\ Active /\ Locked
  /\ SubmitPassword
  /\ WakeOrDeactivate(timers \ {"wake-timeout"})
  /\ UNCHANGED userUnchanged

\* The unlock button submits too, with no key event to follow.
UnlockClicked ==
  /\ running
  /\ Awake
  /\ SubmitPassword
  /\ timers' = timers \ {"wake-timeout"}
  /\ UNCHANGED <<userUnchanged, Awake, mouse, helper>>

\* The server breaks a grab: the stage queues manager.grab_stage.
GrabBroken ==
  /\ running
  /\ "stage" \in {keyboard, mouse}
  /\ grabIdles < MaxIdles
  /\ keyboard' \in {keyboard, IF keyboard = "stage" THEN "lost" ELSE keyboard}
  /\ mouse' \in {mouse, IF mouse = "stage" THEN "lost" ELSE mouse}
  /\ <<keyboard', mouse'>> # <<keyboard, mouse>>
  /\ grabIdles' = grabIdles + (IF Wrecked THEN 0 ELSE 1)
  /\ UNCHANGED <<statusVars, stage, leftover, activated, refreshVars, fbPid, covers,
                 panels, authVars, timers, activeIdles, bailOuts, holds, busVars>>

-----------------------------------------------------------------------------
(* The PAM helper, as AuthClient hears of it. *)

\* message_from_child queues what the helper reports; success and cancellation also
\* end the helper.
HelperReports(result) ==
  /\ running
  /\ helper
  /\ Len(authIdles) < MaxAuth
  /\ authIdles' = Append(authIdles, result)
  /\ helper' = (result = "failure")
  /\ UNCHANGED <<statusVars, stage, leftover, activated, refreshVars, fbPid, grabVars,
                 covers, panels, checking, timers, activeIdles, grabIdles, bailOuts,
                 holds, busVars>>

\* on_proc_completed resets the client and tells nobody.
HelperDies ==
  /\ running
  /\ HelperMayDie
  /\ helper
  /\ EndHelper
  /\ UNCHANGED <<statusVars, stage, leftover, activated, refreshVars, fbPid, grabVars,
                 covers, panels, authIdles, timers, activeIdles, grabIdles, bailOuts,
                 holds, busVars>>

\* Mutant of AuthIdle: a failure does not resume the timeout.
AuthIdleInhibits ==
  /\ running
  /\ authIdles # <<>> /\ ~refreshQueued
  /\ \/ Head(authIdles) = "success" /\ Unlock /\ UNCHANGED running
     \/ /\ Head(authIdles) = "failure"
        /\ authIdles' = Tail(authIdles)
        /\ checking' = FALSE
        /\ UNCHANGED <<statusVars, stage, leftover, activated, refreshVars, fbPid,
                       grabVars, covers, panels, helper, timers, activeIdles, grabIdles,
                       bailOuts, holds, busVars>>
     \/ /\ Head(authIdles) = "cancel"
        /\ authIdles' = Tail(authIdles)
        /\ CancelUnlocking

\* UnlockDialog's handlers of the three results, and the stage's behind them.
AuthIdle ==
  /\ running
  /\ authIdles # <<>> /\ ~refreshQueued
  /\ \/ Head(authIdles) = "success" /\ Unlock /\ UNCHANGED running
     \/ /\ Head(authIdles) = "failure"
        /\ authIdles' = Tail(authIdles)
        /\ checking' = FALSE
        /\ timers' = timers \cup {"wake-timeout"}
        /\ UNCHANGED <<statusVars, stage, leftover, activated, refreshVars, fbPid,
                       grabVars, covers, panels, helper, activeIdles, grabIdles,
                       bailOuts, holds, busVars>>
     \/ /\ Head(authIdles) = "cancel"
        /\ authIdles' = Tail(authIdles)
        /\ CancelUnlocking

-----------------------------------------------------------------------------
(* Timers, and the idle callbacks.  Idles have a lower priority than the queued
   refresh, so none of them runs while it waits. *)

\* Mutant of WakeTimeout: the helper is ended and the dialog stays.
WakeTimeoutEndsHelper ==
  /\ running
  /\ "wake-timeout" \in timers
  /\ timers' = timers \ {"wake-timeout"}
  /\ EndHelper
  /\ UNCHANGED <<statusVars, stage, leftover, activated, refreshVars, fbPid, grabVars,
                 covers, panels, authIdles, activeIdles, grabIdles, bailOuts, holds,
                 busVars>>

\* on_wake_timeout.
WakeTimeout ==
  /\ running
  /\ "wake-timeout" \in timers
  /\ CancelUnlocking
  /\ UNCHANGED authIdles

\* on_lock_delay_timeout.
LockDelayTimeout ==
  /\ running
  /\ "idle-lock-delay" \in timers
  /\ LockAndGuard
  /\ timers' = timers \ {"idle-lock-delay"}
  /\ UNCHANGED <<Active, Awake, stage, leftover, activated, refreshVars, grabVars,
                 covers, panels, authVars, activeIdles, grabIdles, bailOuts, holds,
                 busVars>>

\* setup_delayed_components.
DelayedComponents ==
  /\ running
  /\ "setup-delayed-components" \in timers
  /\ panels' = TRUE
  /\ timers' = timers \ {"setup-delayed-components"}
  /\ UNCHANGED <<statusVars, stage, leftover, activated, refreshVars, fbPid, grabVars,
                 covers, authVars, activeIdles, grabIdles, bailOuts, holds, busVars>>

\* idle_deactivate: it looks at nothing but the stage.
IdleDeactivate ==
  /\ running
  /\ "idle-deactivate" \in timers /\ ~refreshQueued
  /\ Deactivate({"idle-deactivate"})
  /\ Awake' = (Awake /\ ~stage)
  /\ UNCHANGED <<Locked, fbPid, refreshVars, grabIdles, bailOuts, busVars>>

\* deactivate_after_timeout, after a total failure in setup_children.
BailOut ==
  /\ running
  /\ bailOuts > 0 /\ ~refreshQueued
  /\ bailOuts' = bailOuts - 1
  /\ Deactivate({})
  /\ Awake' = (Awake /\ ~stage)
  /\ UNCHANGED <<Locked, fbPid, refreshVars, grabIdles, busVars>>

\* grab_stage, queued by on_grab_broken_event.  A destroyed stage has a window only if it
\* has been shown again.
GrabIdle ==
  /\ running
  /\ grabIdles > 0 /\ ~refreshQueued
  /\ grabIdles' = grabIdles - 1
  /\ IF stage /\ (Wrecked => Active) THEN GrabStage ELSE UNCHANGED grabVars
  /\ UNCHANGED <<statusVars, stage, leftover, activated, refreshVars, fbPid, covers,
                 panels, authVars, timers, activeIdles, bailOuts, holds, busVars>>

\* Mutant of ActiveIdle: having answered a call it returns, and sends no signal.
ActiveIdleAnswersOnly ==
  /\ running
  /\ activeIdles # <<>> /\ ~refreshQueued
  /\ emitted' = IF \E c \in Calls : callState[c] = "queued"
                THEN emitted ELSE Head(activeIdles)
  /\ activeIdles' = Tail(activeIdles)
  /\ callState' = [c \in Calls |->
                     IF callState[c] = "queued" THEN "answered" ELSE callState[c]]
  /\ UNCHANGED <<statusVars, stage, leftover, activated, refreshVars, fbPid, grabVars,
                 covers, panels, authVars, timers, grabIdles, bailOuts, holds, running>>

\* on_active_changed_idle: every queued Lock() is answered, then ActiveChanged sent.
ActiveIdle ==
  /\ running
  /\ activeIdles # <<>> /\ ~refreshQueued
  /\ emitted' = Head(activeIdles)
  /\ activeIdles' = Tail(activeIdles)
  /\ callState' = [c \in Calls |->
                     IF callState[c] = "queued" THEN "answered" ELSE callState[c]]
  /\ UNCHANGED <<statusVars, stage, leftover, activated, refreshVars, fbPid, grabVars,
                 covers, panels, authVars, timers, grabIdles, bailOuts, holds, running>>

\* GApplication's inactivity timeout: 30 s after the last hold is released the
\* process ends.  The idles queued by then have long run.
InactivityExit ==
  /\ running
  /\ holds = 0
  /\ activeIdles = <<>> /\ authIdles = <<>> /\ grabIdles = 0 /\ bailOuts = 0
  /\ ~refreshQueued /\ "idle-deactivate" \notin timers
  /\ running' = FALSE
  /\ UNCHANGED <<statusVars, stageVars, refreshVars, fbPid, grabIdles, bailOuts,
                 emitted, callState>>

-----------------------------------------------------------------------------

Requests ==
  \/ \E c \in Calls : DBusLock(c)
  \/ SessionLock \/ SetActive \/ SessionIdle
  \/ SetInactive \/ SessionUnlock \/ Quit
  \/ SessionActive \/ ScreenChanged

User == UserActivity \/ EscapeKey \/ ReturnKey \/ UnlockClicked

Outside == GrabBroken \/ HelperDies \/ \E r \in AuthResults : HelperReports(r)

Timeouts == WakeTimeout \/ LockDelayTimeout \/ DelayedComponents \/ InactivityExit

Idles ==
  AuthIdle \/ IdleDeactivate \/ BailOut \/ GrabIdle \/ ActiveIdle \/ RefreshIdle

Next == Requests \/ User \/ Outside \/ Timeouts \/ Idles

Spec == Init /\ [][Next]_vars

\* The main loop dispatches every idle and every timer that stays pending, and PAM
\* comes to an end on every password.  Nothing obliges the user or a D-Bus client.
Fairness ==
  /\ WF_vars(AuthIdle)
  /\ WF_vars(IdleDeactivate)
  /\ WF_vars(BailOut)
  /\ WF_vars(GrabIdle)
  /\ WF_vars(ActiveIdle)
  /\ WF_vars(RefreshIdle)
  /\ WF_vars(WakeTimeout)
  /\ WF_vars(LockDelayTimeout)
  /\ WF_vars(DelayedComponents)
  /\ WF_vars(checking /\ \E r \in AuthResults : HelperReports(r))

-----------------------------------------------------------------------------
(* Properties. *)

\* The type of every variable.
TypeOK ==
  /\ Active \in BOOLEAN /\ Locked \in BOOLEAN /\ Awake \in BOOLEAN
  /\ stage \in BOOLEAN /\ leftover \in Leftovers /\ activated \in BOOLEAN
  /\ refreshQueued \in BOOLEAN /\ refreshing \in BOOLEAN /\ refreshAgain \in BOOLEAN
  /\ fbPid \in BOOLEAN
  /\ keyboard \in Grab /\ mouse \in Grab
  /\ covers \in BOOLEAN /\ panels \in BOOLEAN
  /\ helper \in BOOLEAN /\ checking \in BOOLEAN
  /\ timers \in SUBSET Timers
  /\ activeIdles \in Seq(BOOLEAN) /\ authIdles \in Seq(AuthResults)
  /\ grabIdles \in Nat /\ bailOuts \in Nat /\ holds \in Nat
  /\ running \in BOOLEAN /\ emitted \in BOOLEAN
  /\ callState \in [Calls -> CallStates]

\* What a D-Bus client will believe once every queued signal has been sent.
LastSignal ==
  IF activeIdles = <<>> THEN emitted ELSE activeIdles[Len(activeIdles)]

\* The unlock dialog is raised only over an active, locked screen, whatever order
\* activity, refreshes, timeouts and unlocks come in (manager.simulate_user_activity,
\* stage.cancel_unlocking, manager.unlock).
AwakeOnlyWhenLocked == Awake => Active /\ Locked /\ stage

\* No callback finds its stage gone: a timer of the stage, or a result of its helper,
\* is pending only while the stage exists, and the lock delay runs only on an active
\* screen (stage.destroy_stage, manager.cancel_timers, TimerTracker).
CallbacksFindTheirStage ==
  /\ timers \cap StageTimers # {} => stage
  /\ authIdles # <<>> => stage
  /\ "idle-lock-delay" \in timers => Active

\* GetActiveTime answers non-zero exactly while the screen is active: the time stamp
\* is set and cleared along with status.Active through refreshes and exceptions.
ActiveTimeTellsActive == activated <=> Active

\* The PAM helper never outlives the dialog that asks for the password: every way to
\* hide the dialog ends it, and none starts it behind a hidden dialog.
HelperOnlyWhileAwake == helper => Awake

\* The process cannot end by inactivity under a stage: hold() and release() pair up
\* across activation, refresh, exceptions and every kind of deactivation.
StageKeepsProcess == stage => holds > 0

\* An active screen holds the keyboard and, while asleep, the pointer, as far as the
\* grabber knows: no refresh, timeout or late callback drops them.  A destroyed stage that
\* is shown again loses them to the first attempt to leave it.
ActiveHoldsInput ==
  Active /\ ~Wrecked => keyboard # "none" /\ (Awake \/ mouse # "none")

\* The fallback window never outlives the lock it guards while the process runs.
FallbackOnlyWhileLocked == fbPid => Locked /\ UseFallback

\* No D-Bus client is left believing that an active screen is inactive: the last
\* signal sent or queued says so, however activations and deactivations interleave
\* with the idles that send the signals.
ActiveIsAnnounced == Active => LastSignal

\* A stage that does not cover the present screens is being refreshed, or waits behind
\* a refresh believed to be under way, unless it is one that has been destroyed.
UncoveredIsRefreshed == stage /\ ~Wrecked /\ ~covers => refreshQueued \/ refreshing

\* While the helper cannot die silently, a raised dialog is never without something
\* that will lower it: the timeout, a password being checked or a result on its way.
AwakeCanSleep ==
  ~HelperMayDie /\ Awake =>
    "wake-timeout" \in timers \/ (checking /\ helper) \/ authIdles # <<>>

\* The screen stops being active while locked only if it is unlocked by the same
\* step, by one of the callbacks that do not look at status.Locked, or by a refresh that
\* raises on its way (manager.py:217).
LockedScreenLeaves ==
  [][ Locked /\ Active /\ ~Active' =>
        \/ ~Locked'
        \/ "idle-deactivate" \in timers \/ bailOuts > 0 \/ refreshAgain
        \/ leftover' = "shown" ]_vars

\* Unlocking leaves nothing behind: no stage, no grab, no helper, no fallback window
\* and no timer of the stage, whatever state timeouts, re-grabs and refreshes left.
UnlockTakesAllDown ==
  [][ Locked /\ ~Locked' =>
        /\ ~stage' /\ ~Active' /\ ~Awake' /\ ~helper' /\ ~fbPid'
        /\ keyboard' = "none" /\ mouse' = "none"
        /\ timers' \cap StageTimers = {} ]_vars

\* The manager, its stages and the dialog amount to what LockScreen says of them: what is
\* covered, locked and asked changes together, only the answers of the helper that is
\* listened to count, none outlives its screen, and a locked session is uncovered only by
\* unlocking it, for a reason that stood, or by a refresh that fails (manager.py, stage.py,
\* unlock.py).
Promise ==
  INSTANCE LockScreen WITH
    covered <- Active,
    locked <- Locked,
    asking <- Awake,
    listening <- helper,
    answers <- authIdles,
    dismissed <- "idle-deactivate" \in timers,
    broken <- bailOuts > 0,
    stuck <- refreshing,
    again <- refreshAgain
KeepsPromise == Promise!Spec

\* Every Lock() call that waits is answered (service.py, lock_queue).
LockCallsAnswered ==
  \A c \in Calls : callState[c] = "queued" ~> callState[c] = "answered" \/ ~running

\* Once input ceases a raised dialog is lowered: by its timeout, which authentication
\* suspends and a failure resumes, or because the screen unlocks.
DialogIsLowered == Awake ~> ~Awake \/ ~running

\* With a lock delay in force, a screen that stays active becomes locked: the delay is
\* lost in no activation, cancellation or refresh that does not also deactivate
\* (manager.start_lock_delay, stop_lock_delay, stage_refreshed).
ActiveBecomesLocked == Active ~> Locked \/ ~Active \/ ~running

-----------------------------------------------------------------------------
(* What the documentation says and the code does not do: each of these is violated. *)

\* manager.py:177, "If we're Active but not Locked, simply deactivate": activity ends
\* the screensaver only while it is not locked.
LockedStaysCovered == [][Locked /\ Active /\ ~Active' => ~Locked']_vars

\* stage.py:165, "The screen changing size should be acted upon immediately, to ensure
\* coverage": until a changed screen is covered again, a refresh is on its way.
ChangeIsActedUpon == stage /\ ~covers => refreshQueued

\* manager.py:379, "all keyboard and mouse events are dispatched or eaten by us now":
\* while a stage is shown over a locked session, it holds the keyboard.
LockedStageHoldsKeyboard == stage /\ Locked => keyboard # "none"

\* manager.py:150, get_active "Return whether we're Active or not (showing)": a stage that
\* is shown is Active.
ActiveTellsShowing == stage => Active

\* stage.py:256, setup_children "Creates all of our overlay children": those of a stage
\* that are not there yet will be, when the timer it starts fires.
DelayedComponentsComing == stage /\ ~panels => "setup-delayed-components" \in timers

=============================================================================
