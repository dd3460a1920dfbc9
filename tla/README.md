# A TLA+ model of cinnamon-screensaver

The screensaver is a Python/GTK process, `cinnamon-screensaver`, with two helper
processes written in C: the PAM helper that checks passwords, and
`cs-backup-locker`, a window that covers the session should the screensaver die.
This directory holds TLA+ modules of it, configurations that check them with TLC,
and proofs checked by TLAPS.

## 1. The system

### Parts, their state and their operations

| Part | State | Operations |
|---|---|---|
| `manager.py` ScreensaverManager | `status.Active`, `Locked`, `Awake`; the stage and, during a refresh, the old one; `stage_refresh_id`, `refreshing`, `refresh_again`; `fb_pid`; the time of activation | `set_active`, `lock`, `unlock`, `simulate_user_activity`, `refresh_stage`, the lock delay |
| `stage.py` Stage | the window, the dialog and the panels; the timers `wake-timeout`, `setup-delayed-components` | construction, destruction, raising and lowering the dialog, requests for a refresh |
| `unlock.py` UnlockDialog, `pamhelper/authClient.py` AuthClient | whether a helper runs, whether a password is being checked, results queued for an idle | start, submit, result, cancel, death of the helper |
| `pamhelper/cinnamon-screensaver-pam-helper.c` | one password slot shared by two threads, a count of failures | a PAM conversation over stdin and stdout |
| `service.py` ScreensaverService | the queue of `Lock()` calls that wait | the D-Bus interface, the `ActiveChanged` signal |
| `cs-event-grabber.c` | which window holds the keyboard and the pointer | grab the root window, move to the stage, release |
| `util/eventHandler.py`, `util/keybindings.py` | none | turn input into calls to the manager |
| `util/trackers.py` | timers by name, signal connections | start, cancel, disconnect |
| `singletons.py`, `dbusdepot/*` | one proxy each | lock, unlock, active, idle from the login and session managers; power, players, layouts |
| `backup-locker/cs-backup-locker.c`, `cs-gdk-event-filter-x11.c` | the window it watches, whether it should grab | watch, activate, retry the grab, give way to a new stage |
| `cs-screen-x11.c`, `monitorView.py`, `focusNavigator.py`, `passwordEntry.py`, widgets | layout of the monitors, wallpapers, focus, keyboard layout | presentation |

### How they interact

Everything in the main process runs on one GLib main loop, so a handler is never
interrupted. The hard part is that handlers leave work for later and the later
work meets another state:

* idles: `ActiveChanged` and the answers to `Lock()` (`service.py:146`), results of
  the helper (`authClient.py:202`), `idle-deactivate` (`manager.py:199`), re-grabs
  (`stage.py:190`), the bail-out after a failed construction (`stage.py:297`);
* the refresh, which is queued with a higher priority than those idles
  (`manager.py:397`);
* timers shared by name among successive stages (`trackers.py:28`);
* a refresh constructs the new stage before it destroys the old one;
* failures that are swallowed (`manager.py:217`, `stage.py:264`, `authClient.py:131`).

`PROJECT.json` lists these as hazards, each at its line.

### What makes each part correct

* Manager: the dialog only over a locked, active screen; the three flags, the
  stage, the time stamp, the hold on the application and the fallback window move
  together through every path; what unlocks takes everything down; a locked screen
  is not uncovered but by unlocking.
* Stage: no timer or callback of a stage without the stage; a changed screen is
  covered again; the dialog is lowered in the end.
* Service: every `Lock()` is answered; clients are not left believing the wrong state.
* AuthClient: no helper without its dialog; output of one helper is not taken for
  another's.
* EventGrabber: both devices or none; a move loses nothing, ends, and does not lock up
  with another process's; an active screen holds the input.
* Backup locker: once the screensaver's window is gone and no new one is there, it
  grabs; while there is one, it never does.
* Password entry: unlocking gives back the layout of the session, and the icon tells
  the one in use.
* Media players, power and notifications: what is there is shown, in whatever order it
  was learnt.
* Layout: the dialog and the floating widgets do not cover each other.

## 2. Modules

| Module | Contents |
|---|---|
| `Screensaver` | the core: manager, life of the stage, service, input, timers and idles, and its properties |
| `LockScreen` | abstract: what the core amounts to for the user and the clients |
| `MCScreensaver` | the core, for TLC |
| `MCScreensaverLive` | the core with a bounded number of inputs, for liveness |
| `Screensaver_proofs` | the inductive invariant of the core, its theorems, and the refinement of `LockScreen` |
| `Auth` | the AuthClient of one dialog and its successive PAM helper processes |
| `Authenticator` | abstract: what authentication promises the dialog |
| `MCAuth` | authentication, for TLC |
| `Auth_proofs` | its inductive invariant, its theorems, and the refinement of `Authenticator` |
| `BackupLocker` | the fallback window's process, next to a screensaver, applications and an X server |
| `Fallback` | abstract: what the fallback promises a locked session |
| `BackupLocker_proofs` | its inductive invariant, its theorems, and the refinement of `Fallback` |
| `InputGrab` | abstract: what a grabber promises its caller |
| `EventGrabber` | several grabbers at one X server, request by request; shown to implement `InputGrab` |
| `EventGrabber_proofs` | its inductive invariant, the refinement, and that moves never wait in a circle |
| `Layouts` | the keyboard layout of successive password entries |
| `Layouts_proofs` | its inductive invariant, and when the layout is restored |
| `Players` | the media players found on the bus |
| `InfoPanel` | battery, notifications and the panel that shows them; extends `Players` |
| `InfoPanel_proofs` | its inductive invariant |
| `Overlay` | the layout of dialog and floating widgets |
| `Overlay_proofs` | its inductive invariant, and the arithmetic of positions |
| `MCParts` | `Layouts`, `Players`, `InfoPanel` and `Overlay` composed, for TLC |
| `Parts_proofs` | that a step moves one part, and the theorems about all of them |

`Screensaver` sees the fallback as a process identifier, the grabs as `none`, `stage` or
`lost`, the helper as a flag and the layout as nothing; `BackupLocker`, `EventGrabber`,
`Auth` and the parts open each of these up on their own, since their product would be
out of reach of TLC and they meet in few places: a stage is mapped or gone, the input is
held, the dialog is raised.

### `Screensaver`: correspondence with the code

One action is one callback of the main loop with everything it calls. `map` in
`PROJECT.json` names the lines of each definition; the main ones are:

| Action | Code |
|---|---|
| `DBusLock`, `SetActive`, `SetInactive`, `Quit` | `service.py` handlers |
| `SessionLock`, `SessionUnlock`, `SessionActive` | `singletons.py:128-141` |
| `SessionIdle` | `manager.on_session_idle_changed` |
| `ScreenChanged`, `RefreshIdle` | the stage's `needs-refresh`; `manager._update_full_stage_on_idle` |
| `UserActivity`, `ReturnKey`, `EscapeKey`, `UnlockClicked` | `eventHandler.py`, `keybindings.py`, `unlock.py` |
| `HelperReports`, `HelperDies`, `AuthIdle` | `authClient.py`, `unlock.py:180-199` |
| `WakeTimeout`, `LockDelayTimeout`, `DelayedComponents`, `IdleDeactivate` | the callbacks given to TimerTracker |
| `GrabBroken`, `GrabIdle`, `BailOut`, `ActiveIdle` | `stage.py:189`, `manager.grab_stage`, `stage.py:251`, `service.py:149` |
| `InactivityExit` | GApplication's inactivity timeout |

The smaller operators above the actions are the methods those handlers share
(`ShowStage`, `Deactivate`, `Unlock`, `CancelUnlocking`, `WakeOrDeactivate`,
`ReplaceStage` ...). An operator whose comment begins with *Mutant of* is a wrong
version of the definition that follows it; no specification uses it.

How the data is abstracted:

* the stage is there or not; `covers` says that it was built for the present layout
  of the screens, `panels` that `setup_delayed_components` has run for it;
* a timer is a name in `timers`, which is what TimerTracker makes of it: starting a
  name anew replaces it, cancelling works by name;
* a grab is `none`, `stage`, or `lost`: recorded by the grabber, broken by the server;
* queued `ActiveChanged` signals and helper results are sequences; re-grabs and
  bail-outs are counts, since they carry nothing. The relative order of idles from
  different queues is left open, which allows more orders than GLib produces;
* an idle of default-idle priority does not run while a refresh is queued;
* the settings that govern idle locking are read anew at every activation, as one of
  `off`, `now` and `later`; `utils.user_can_lock` and the command line options are constants.

Assumptions and omissions:

* `Gtk.Widget.show` realizes the stage synchronously, so the branch of
  `stage.activate` that waits for it (`stage.py:206`) is not taken;
* a total failure of `setup_children` is one of the monitor views; if it were
  the dialog's, `stage.cancel_unlocking` would itself raise (`stage.py:698`);
* constructing the stage may raise at any activation and in any refresh, while
  `SpawnMayRaise` is set. In a refresh the old stage stays on the screen (`leftover` is
  `shown`): ungrabbed and no longer `Active`, with `Locked` as it was. What follows from there is
  modelled too: the next activation destroys that stage for the old one and raises, and the
  manager goes on with a destroyed one (`wreck`), over which `unlock` raises; or it is
  despawned first, and then a destroyed `old_stage` is left (`gone`), which spoils the next
  activation. It is assumed of GTK that a `Gtk.Window` is true in Python, so that
  `if self.old_stage` asks for `None`; that a destroyed one has no
  `get_window()`, and is an empty window when it is shown again; and that the grabber forgets
  windows that are destroyed, which its weak pointers are for;
* a `Lock()` call whose handler raised is `failed`: the service never completes it;
* a stage left behind by `refresh_raises` or a failed refresh still hears that the screen changed,
  since its screen object lives on in the connection table;
* calls that wait are answered together by the next `ActiveChanged` idle;
* left out: floating widgets, layout, media keys, user switching, prompts and info
  messages of PAM, `--hold`, interactive debugging.

### `LockScreen`: what the core promises

`LockScreen` has what somebody before the screen or on the bus can tell: `covered`
(`Active`), `locked`, `asking` (`Awake`), whether a helper is listened to, the answers not
yet acted upon, and the reasons for which a locked session may be uncovered all the
same: `dismissed` (the timer `idle-deactivate` is pending), `broken` (a bail-out is queued), and
`stuck` with `again` (a refresh that never ended, and one that is due after it). Where constructing a
stage may raise there is a fourth: a refresh for which no stage could be had (`FailToRefresh`).
A session may then also be locked with nothing over it (`FailToShow`), and what a failed refresh
leaves behind may resist being left (`FailToLeave`). The stage, grabs,
timers, holds, signals, the fallback and the calls that wait are hidden; most handlers of the
core are stutters of it. It says that asking needs a covered, locked screen; that answers come
only from a helper that is listened to, are taken in order, and do not outlive the
screen they were meant for; that success unlocks and uncovers in one step; and that nothing but
an unlock, one of the three reasons or a failed refresh uncovers a locked session. The reasons are in
it because the code has them: without them it would be the documented promise, which
`idle_race` refutes. Without `SpawnMayRaise` the fourth is not there.

### `Auth`: correspondence with the code

The core sees one helper as a flag. `Auth` opens that up: the client and each helper
are processes that interleave, and a helper that was told to go may still write while
its successor starts.

| Part of the module | Code |
|---|---|
| `Start`, `StartFails`, `Cancel`, `Submit` | `authClient.py`: `initialize`, `cancel`, `message_to_child` |
| `MessageFromChild`, `ProcCompleted`, `Emit` | its callbacks and idles, and the dialog's answers to the signals |
| `Boot`, `BootFails`, `Exit` | `main` of the helper |
| `BeginAuth`, `Prompt`, `TakePassword`, `GiveUpPrompt`, `PamAccepts`, `PamRejects` | `auth_check_idle`, the PAM thread, and `auth_message_handler`, which waits in a loop of its own |
| `ReadStdin` | the thread that reads passwords into the single slot |
| `Sigterm`, `Shutdown` | `handle_sigterm`, `stdin_monitor_task_finished`, `shutdown` |

* a password is `right` or `wrong`; two lines that are read at once are one wrong one,
  and an interrupted conversation counts as a wrong one too;
* PAM may refuse a right password, and never accepts a wrong one;
* `pipe` says whether the read under way can be cancelled (the first can, the later
  ones are started without the cancellable), and whether the client has closed the pipe;
  writing to a closed pipe ends the helper, since Gio.Subprocess restores SIGPIPE;
* a cancelled wait and a cancelled read are dispatched later, as GLib does; the read
  that is under way when its pipe is closed only fails, and is left out;
* `shutdown` clears the pointer to the cancellable, after which `send_*` write again and
  a prompt can no longer be interrupted: `stdinCancel` is then `gone`;
* assumed: PAM asks for one password in each attempt; nothing else prompts;
* left out: prompts, busy states and info messages, but for the writing of them. In the
  code they are read like a result, so the first, cancellable read ends with the first prompt; in
  the model it lasts until the first result. The model thus has more of those reads, each of which
  may also end by being cancelled.

### `Authenticator`: what authentication promises

One dialog, helpers of which it talks to one at a time, and answers: those a helper has
written and nobody has read (`unread`, the pipe `stdout`), and those on their way to the dialog (`news`,
the idles). The threads, pipes, cancellables and signals of `Auth` are hidden. What a helper has
in hand, whether in its pipe, its slot or with PAM, is one value, the best of them (`holds`, mapped
to `Best`): a helper that has the right password may still say success whatever else it was
given, and one that never had it may not, but for a failed initialization. `hears` is the
client's cancellable: after a start that failed it is set with no current helper, and what is
left in the pipe of an earlier one then counts. The core leaves this out: its `helper` is
`FALSE` there and brings no answers.

### `BackupLocker`: correspondence with the code

| Part of the module | Code |
|---|---|
| `Start`, `SetupWindowMonitor` | `main`, `backup_window_new`, `setup_window_monitor` |
| `MonitorEnds`, `ScreensaverWindowGone` | `window_monitor_thread` waiting for `xprop -spy`, and its callback |
| `ActivateForNothing`, `ActivateGrabsRoot`, `MoveToWindow` | `activate_backup_window_cb`, which repeats as an idle until it has the root window |
| `WindowGrabBroken` | the handler of `grab-broken-event` |
| `Restack`, `IsNewStage`, `BackupWindowUngrab`, `SaverRaises` | the event filter, in the locker and in the stage |
| `CompositedChanged`, `CompositedFails`, `SigtermReceived` | `update_for_compositing`, `on_composited_changed`, `sigterm_received` |
| `StageMaps`, `OldStageGoes`, `Unlock`, `KillFallback`, `Crash` | the screensaver, as far as the locker can tell |

* a window's end, its xprop's end and the news of a new window travel separately, in any
  order; threads that watch earlier windows go on;
* an attempt to take the root window that fails leaves the idle in place: nothing changes;
* `move_to_window` blocks the main loop until it has the input: `moving`;
* `misled` records a window that was there when its xprop ended. The code does not know
  of it, but the properties have to exempt exactly that window;
* assumed: the X server does not use the identifier of a window again (the filter and the
  monitor compare identifiers, so a reused one would be taken for the old window); the
  session is composited at first; there is one locker;
* left out: a session that turns out not to be composited when the window is realized
  (`cs-backup-locker.c:211`), the info box and its text, the size of the screen, input methods' windows
  (`fcitx`), which the filter leaves above the stage.

### `Fallback`: what the backup locker promises

`Fallback` knows the windows of the screensaver that are there (`present`), the last one the
fallback was told of (`known`, the filter's record), those it took for gone by mistake
(`doubted`), whether it covers (`should_grab`), whether it is after the input (`tries`: the idle
is queued, `move_to_window` has begun, or a broken grab will be heard of), and who has the
input. Monitors, queued callbacks, X events and the stacking order are hidden. It covers only for
a known window that is gone or doubted; it takes the input only from nobody, and does not rest
while it covers and has not got it; told of another window it lets go.

### `EventGrabber` and `InputGrab`: correspondence with the code

One action is one request to the X server, with what the grabber notes of the answer.
Between requests other clients make theirs. `GrabsKeyboard`, `GrabsMouse` and their
refusals are the loops of `cs_event_grabber_grab_window`; `MoveToWindow`, `GrabServer`,
`MoveGets`, `MoveRefused` and `MoveFails` those of `move_keyboard` and `move_mouse`,
which grab the server, let go, grab again, and if that fails go back to the old
window; `Release`, `ReleaseMouse` and `WindowDestroyed` the rest.

`InputGrab` is the promise: `grab_window` gets both devices or none, a grab that is moved
is never another's meanwhile, `move_to_window` returns with both unless the server has
broken the grab, and a device is let go of only on request. In the mapping (`Promise`)
a device that is between two windows with the server grabbed is still its client's, and
a first half of a grab is nobody's yet.

* the grabber does not notice that the server broke a grab; `Broken` is the set of
  grabbers that believe in one, and the promise lets them return without it. That the
  manager then asks again is part of the core (`GrabIdle`), and asking does not help if
  the record still says that the keyboard is held (`cs-event-grabber.c:354`);
* the server breaks grabs between calls, and refuses requests for no reason it gives
  within `MaxRefusals`;
* left out: hiding the cursor, unsetting `xkb` options.

### The parts

* `Layouts`: one session with two layouts. Calls to Cinnamon are synchronous, its signals
  come later; `GetInputSources` is answered later still. An entry lives from its
  construction to its destruction, and stays connected to the client after that. Assumed: the
  source in use is an `xkb` one. The client keeps only those (`cinnamonClient.py:58`), so with
  another one active there is no current source, and the entry raises
  (`passwordEntry.py:206`, `223`, `228`); the model has only `xkb` sources.
* `Players`: the bus tells of names in order. A client needs three round trips, and its
  proxy follows the owner of the name once the watch on the name has been answered.
* `InfoPanel`: a proxy reads the present state of the battery. Each look at the
  devices is an idle of its own, since `queue_update_state` never notes that one is queued.
  The panel comes with a stage and goes with it; *show info panel* is on; the
  notification of a media player is left out.
* `Overlay`: two monitors side by side, a dialog as high as its monitor and as wide as one of
  `DialogSizes`. Regions are in twelfths of a pixel, for thirds and halves are taken of
  them; a position is cut to a whole pixel, as storing it does. Floaters move every 30
  seconds, long after the two that the late components take. The positions they choose
  are distinct, in whatever order they are drawn.

`MCParts` puts the four in one behaviour specification in which one of them moves,
since they share nothing but the players.

## 3. What is checked

| Run | Question | Result |
|---|---|---|
| `safety` | With every failure enabled, do flags, stage, grabs, timers, holds, fallback window and announced state stay consistent, and does the core implement `LockScreen`? | holds |
| `liveness` | Are waiting calls answered, raised dialogs lowered, delayed locks taken? | holds |
| `successors` | With every failure enabled, is exactly one helper talked to, heard and not told to go, is success reported only if earned, and do the processes implement `Authenticator`? | holds |
| `answers` | Is a submitted password answered, and does a helper that is told to go end? | holds |
| `takeover` | Does the fallback cover after a crash, and only then, whichever of its events comes first and though an xprop fails, and does it implement `Fallback`? | holds |
| `grabs` | Do requests to the X server amount to the promise of a grabber, and do its loops end? | holds |
| `parts` | Are layouts, players, power and notifications shown as they are, and do no two widgets overlap? | holds |
| `idle_race` | Does a locked screen stay covered until it is unlocked? | violated |
| `stuck_refresh` | Is every change of the screens acted upon? | violated |
| `refresh_raises` | Does a stage over a locked session hold the keyboard? | violated |
| `late_panels` | Do the late components of every stage arrive? | violated |
| `layouts` | Does unlocking give back the layout of the session? | violated |

Bounds. `safety` has one `Lock()` caller, one signal waiting when a further input
arrives (a handler may add one more), one helper result, one re-grab and one bail-out
queued, and one leaked hold; with these every pair of an idle and a handler meets in
both orders, and so do a refresh, an activation and an idle. The state space is
complete within them (1 005 546 states). `liveness` (51 689 states) switches the failures off,
allows two callers and two signals and results, and five inputs, which is enough to activate,
lock, wake, change the screen and submit, in every order. Nothing in the code orders
inputs, so fewer inputs than needed for a refresh on top of a race would miss it; the
violations found need between three and five.

`successors` has two helpers, since each property relates a helper to at most one
predecessor; two failures, so that a helper is read from more than once; and one
unread password. Its 3.6 million states are complete up to exchanging the helpers.
`answers` has one helper, three failures and two unread passwords, so that the slot is
overwritten and lines are joined; that a predecessor takes no answer away from its
successor is `CurrentIsHeard`, which holds for any number of them.

`takeover` has three windows, so that a refresh, a crash and a restart follow each other,
two unread events, so that an event of an application hides one of the stage, two windows
or grabs of applications, and one window whose xprop fails; about 590 000 states.
`grabs` has the two processes of the program, four tries (the loops then repeat, fail
and go through the retry of `focus_fuckus`), two refusals without a reason, one grab
broken and one grab by an application; 86 390 states. `parts` has three entries (two
refreshes, so that a late answer meets a successor), two players whose owners change three
times, two changes of the battery, two notifications and two stages; monitors of two
widths, one divisible by three and one not, dialogs below and above a third of them, and
floaters that fit, just fit and do not; about 397 000 states.

Fairness. The main loop dispatches every source that stays ready, which is weak
fairness of each idle and timer; PAM is assumed to end on every password it was given.
Nothing is assumed of users, clients or the hardware. A timer that is restarted by
input need not fire, so liveness is stated for finitely many inputs. In `Auth` each thread of a
helper that can run does, the operating system delivers SIGTERM, and PAM comes to
an end once it has an answer; a helper is not obliged to die, nor the user to type.
In `BackupLocker` the loop and the threads of the locker are weakly fair, a refresh and an
unlock come to their end, and menus are closed; nothing obliges anybody to crash or to
take the input. In `EventGrabber` a process whose request could be served again and again
is served (strong fairness, since the server is grabbed in between by another's loop) and
applications let go again. In `MCParts` a player that is on the bus is found, which
is weak fairness of the answers on the bus.

`CHECK_DEADLOCK FALSE` is used everywhere because the process ends, by `Quit()` or by
the inactivity timeout, and nothing happens afterwards.

### The violations

* `idle_race`: activate, move the mouse, call `Lock()` before the idle runs: the idle
  deactivates the locked screen. `Locked` stays set with no stage.
* `stuck_refresh`: the screen changes, the stage goes before the queued refresh runs;
  the refresh sets `refreshing` and returns. The next stage is never refreshed by
  a change of the screen.
* `refresh_raises`: from there a login manager's *active* does refresh, finds
  `refresh_again`, and calls `queue_refresh_stage()` without its argument.
* `late_panels`: any refresh; the old stage's destruction cancels the new stage's timer.
* `layouts`: a new entry is made, the refresh destroys the old one, the dialog is
  destroyed: the new entry took the lock screen's layout for the session's.

Two more disagreements need a stage that cannot be constructed, and have no run of their own:

* *A `Lock()` that is not answered.* If constructing the stage raises in `lock()`, `spawn_stage`
  swallows the exception (`manager.py:217`), `lock()` goes on to lock the session with nothing over it
  and returns `False`, and the call is parked. No `active-changed` was emitted, so nothing
  completes it until somebody activates the screensaver again, though `service.py:80` says
  that the call waits for the signal and is then completed. With `SpawnMayRaise = TRUE` in
  `Screensaver_liveness.cfg` TLC finds it (one input is enough), a violation of `LockCallsAnswered`, which
  therefore holds in `liveness` only with that failure off; `LockCallsHaveAnIdle` has the same hypothesis.
* *A refresh that fails.* The same branch in a refresh clears `Active` and releases the grabs
  while the old stage stays on the screen, locked or not: `get_active` does not tell what is
  showing (`manager.py:150`, `ActiveTellsShowing`; the run `refresh_raises` comes to such a state in
  another way). The next activation takes that stage for the old one, destroys it, and goes
  on with it. In the `safety` run this failure is on, and `LockScreen` says what remains true.

In `Auth` one oddity is allowed rather than refuted: `message_from_child` looks only at
whether there is a cancellable, so late output of a helper that was told to go is taken
for its successor's and may end it (`authClient.py:159`, `200`). The properties hold in
spite of it.

What does hold of a locked screen is in `LockScreen`, and `LockedScreenLeaves` states it by
itself: the screen stops being active only by an unlock, through one of three callbacks
that do not look at `Locked`, or by a refresh that cannot construct its stage. It and three invariants (`HelperOnlyWhileAwake`,
`NoHelperOnceUnlocked`, `GrabIsPursued`) are no longer checked by a run of their own: each is
proved of the module, and proved again to follow from the promise (`PromiseIsEnough`), which
the runs check; of `LockedScreenLeaves`, which names a variable of the core for the failed
refresh, that is done for cores without one (`~SpawnMayRaise`).

## 4. What is proved

`Screensaver_proofs` proves fourteen properties for all values of the constants (the
assumption is `ConstantsAssumption`, which only types them). They follow from one
inductive invariant `IInv`: the type invariant, the safety properties, and five facts
that none of them states:

* `ActiveHasStage`: an active screen has a stage. Without it a deactivation could
  find nothing to despawn and leave `Active` set.
* `GrabsNeedStage`: without a stage no grab is recorded, or unlocking would not be complete.
* `LeftoverInv`: what a failed refresh left is not active until an activation has destroyed it,
  and no dialog is raised on a destroyed stage. Without it the input of an active screen could be
  gone for another reason than a broken grab.
* `NoLockCallForgotten`: unless constructing a stage raises, a `Lock()` call that waits has an idle
  queued that answers it.
* `HelperAnswers`: a raised dialog whose helper has ended has a result queued, and the
  last one is no failure. Without it taking a result from the queue could leave a
  dialog with nothing that lowers it.

The properties need each other: that input stays grabbed across a deactivation
needs the hold count, that the lock delay finds its screen needs the time stamp and the
stage, and so on; hence one invariant. The proof has a lemma for each action, or for each
group that shares an effect (`DeactivateStep`, `ShowStep`, `RaiseStep`, `RefreshStep`,
`CancelStep`, `WakeStep`), and `Inductive` puts them together. The two action
properties follow from `IInv` and a case split on the actions.

`Auth_proofs` proves five invariants about any number of helpers and any limit on
failures, from `AuthAssumption`. Its invariant adds to the properties that a helper that
was not started has been told nothing and is not listened to (`NewIsUntouched`, or a
start could find itself already told), that a helper which still asks has attempts left
(`AttemptsLeft`), and that success which was written and not yet read was earned
(`WrittenEarned`, without which reading it could report what nobody earned). What has been
earned stays earned (`EarnedStays`), so it does not matter when a result is read.

`BackupLocker_proofs` proves the type invariant and three safety properties for any number of
windows, unread events, applications and failures of xprop, from `LockerAssumption`. They
need that identifiers are spent (`IdsAreSpent`: a window that is not made yet is neither
watched nor taken for gone, and the watched one is the one the filter knows), that a window
that is taken for gone is gone or had its xprop fail (`GoneIsGone`), and what the grab
rests on (`GrabIsMeant`: it is had only by a running locker that should have it and
hears, or will look, if it breaks).

The refinements. Each of `LockScreen`, `Authenticator`, `Fallback` and `InputGrab` is implemented
by its detailed module for all values of the constants: `KeepsThePromise` in the four proof
modules. The first state maps to a first state, and `PromiseStep` takes each action to a
step of the promise or a stutter, from the inductive invariant and a few facts more:

* `LockScreen` needs that a lock delay runs only for a user who can lock (`DelayNeedsLock`), or a
  delay that fires would lock a session that cannot be.
* `Authenticator` needs `AnswersInv`: after unlocking nothing is heard and nothing is on
  its way (`UnlockedIsOver`), a helper that was not told to go is not kept from writing
  (`UntoldWrites`, or the current helper could lose an answer), and one that is not ready
  has said nothing (`BootIsFresh`). Most steps inside a helper can only lose what it has in
  hand; `HoldsLess` says so once, and the proof is about the few that gain or answer.
* `Fallback` needs that the fallback covers exactly while it watches no window
  (`CoversUnwatched`), which ties what `should_grab` means to the window that went.

`PromiseIsEnough` is the other direction, in the three modules: from the promise alone, with no
reference to the code, follow the properties a user cares about. It shows that the abstract
specifications are not so weak that anything would implement them.

The causes. Four theorems say which steps are to blame in the five violated runs: assume
them away, and what the documentation says holds for all values of the constants.

* `RefreshFaultsAreTheCause`: as long as no refresh is dispatched after its stage is gone
  (`NoStrayRefresh`) and none fails to construct its stage (`NoFailedRefresh`), no refresh is
  ever under way between two callbacks and a stage that is shown is active (`RefreshEnds`), so
  every change of the screen has a refresh queued and a stage over a locked session holds the
  keyboard (`stuck_refresh`, `refresh_raises`). The exception at
  `manager.py:423` is not reached without one of the two.
* `LateCallbacksAndRefreshFaultsAreTheCause`: if besides no deactivation or bail-out is
  dispatched on a locked session, a locked screen stays covered until it is unlocked (`idle_race`).
* `RefreshIsTheCause`: without a refresh, completed or failed, the late components of every stage
  are there or coming, unless the stage is about to be given up (`late_panels`).
* `RefreshOrLatenessIsTheCause`, of `Layouts`: without a refresh, if every entry is made with the
  client knowing the user's layout, and no list of layouts comes in once there has been an
  entry, the layout of the session is restored (`layouts`). TLC finds a violation if any
  one of the three is dropped: the last since an entry that was destroyed still listens.

`EventGrabber_proofs` proves for any number of processes that the requests implement
`InputGrab` (`KeepsThePromise`) and that no two moves wait for each other
(`NeverDeadlocks`). The invariant says who can have grabbed the server (`ServerInv`), that
each grabber knows what it has (`OwnedIsKnown`, while the converse is what the server can
break), how far a call has come (`CallInv`), and the one that carries both results,
`PointerInv`: whoever has the pointer outside `grab_window` has the keyboard, believes so,
or has just let go of it to grab it again. Because the keyboard is always moved first, two
processes cannot each hold what the other waits for; with the mouse moved first
(the mutant `MouseFirst`) they can.

`Layouts_proofs`, `InfoPanel_proofs` and `Overlay_proofs` each hold an inductive invariant of
one part, and `Parts_proofs` puts them together: a step of `MCParts` is a step of each part
or leaves it alone (`PartsMove`), so the five invariants that the run `parts` checks hold for
all values of the constants. They rest on these:

* `LayoutsInv`: the last change that is still being signalled tells of the layout Cinnamon has, or
  the client knows it (`Synced`), and every entry that still listens, destroyed ones included, was told what the client
  believes (`EntriesTold`). It assumes that no layout is `None` (`LayoutsAssumption`).
* `PanelInv`: the client believes what the battery was when it last looked, or a look is queued
  (`Believes`), and the panel shows what follows from its beliefs (`Tells`).
* `OverlayInv`: no two floaters are in one place or will be (`Distinct`), the clock alone is on
  the left until the album art is set up (`ClockFirst`), and what was laid out awake is still
  beside the dialog (`PlacedBeside`). The rest is arithmetic: two of the thirds of an extent,
  cut to pixels, do not touch (`ThirdsApart`), nor do what is left on either side of a
  dialog (`EndsApart`), and the dialog itself (`DialogApart`). It assumes that a dialog fits
  into its monitor (`SizesAssumption`).
* `PlayersInv`: the types only, from a finite number of players (`PlayersAssumption`).

Only model-checked: the liveness properties (`LockCallsAnswered`, `DialogIsLowered`, `ActiveBecomesLocked`,
`PasswordIsAnswered`, `ToldHelperEnds`, `CrashIsCovered`, `StageIsServed`, `MoveEnds` and
`PlayersAreFound`), since ENABLED and fairness are out of the prover's reach;
and that the five documented statements fail without the hypotheses named above.

## 5. Not modelled, and the plan

What is left, in the order of its worth:

1. `TimerTracker`: sources and names, shown to implement the set of names that the core
   uses.
2. The control of a media player, whose handler for metadata stays connected to a player
   that was left (`playerControl.py`).
3. `WallpaperStack`: a second wallpaper within two seconds of the first.
4. How GDK's monitors become those of `cs-screen-x11.c`, and the choice between logind
   and ConsoleKit.

Read in the code and not modelled, because no module has what it needs: `kill(0)` if the
fallback's process identifier is 0 (`manager.py:301`); a battery that gets critical while
the screen is asleep is not shown, since a change of the percentage renews only the
tooltip and the flag, not what the panel shows (`powerWidget.py:65`); the Return key that submits a password is also activity and
restarts the wake timeout that `stage.py:550` means to suspend (`eventHandler.py:77`; the
core does so, and its properties hold nevertheless); a mouse that crosses a monitor
between two looks of `maybe_update_layout` (`stage.py:798`).

Not modelled: FocusNavigator, which keeps nothing but GTK's focus; the clock's text, the
on-screen keyboard, audio and volume, drawing and transitions; the D-Bus clients
that pass properties on; start-up and packaging.
