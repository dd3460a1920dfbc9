---------------------------- MODULE BackupLocker ----------------------------
(***************************************************************************)
(* cs-backup-locker: the process that covers the session should the        *)
(* screensaver's window go away.  It waits for the end of an xprop that    *)
(* spies on the window, and its event filter looks at what is mapped and   *)
(* raised for a window that replaces the one it knows.  The two paths are  *)
(* not ordered: that the old window is gone may arrive before or after     *)
(* the news of the new one.                                                *)
(*                                                                         *)
(* The screensaver is here as the locker sees it: windows that come and    *)
(* go, by a refresh, an unlock, or a crash; grabs on the input; and an     *)
(* event filter of its own, which raises its window over any other.        *)
(***************************************************************************)
EXTENDS Naturals, Sequences, FiniteSets

CONSTANTS
  Xids,            \* windows of the screensaver; an id is used for one window only
  First,           \* the window given to the locker with --xid
  None,            \* no window
  Other,           \* the window of an application
  VisualMayVanish, \* the screen may lose its RGBA visual
  MaxFailures,     \* bound: windows still there when their xprop ends, or does not start
  MaxEvents,       \* bound: X events the locker has not read when one more is sent
  MaxPopups        \* bound: windows and grabs of applications

ASSUME LockerAssumption ==
  /\ First \in Xids
  /\ None \notin Xids
  /\ Other \notin Xids
  /\ None # Other
  /\ VisualMayVanish \in BOOLEAN
  /\ MaxFailures \in Nat
  /\ MaxEvents \in Nat
  /\ MaxPopups \in Nat

VARIABLES
  (* the screensaver *)
  stage,          \* its newest window
  oldStage,       \* the one a refresh has not destroyed yet
  unused,         \* windows not created yet
  parent,         \* the process that started the locker runs
  popups,         \* windows and grabs applications have had
  (* the X server *)
  input,          \* who has grabbed keyboard and pointer
  stageOnTop,     \* nothing is stacked above the newest stage
  events,         \* X events the locker has not read: the window of each
  saverEvents,    \* the filter of the stage has an event of another window to read
  (* the locker *)
  locker,         \* the life of its process
  pretty_xid,     \* the window it watches
  filter_xid,     \* the window its event filter takes for the screensaver's
  should_grab,
  activateIdle,   \* activate_idle_id is not 0
  moving,         \* inside move_to_window, after it let go of the root window
  grabBroken,     \* a grab-broken-event waits to be dispatched
  connected,      \* window_grab_broken is connected to that event
  monitors,       \* windows on which a thread waits for xprop
  gone,           \* windows whose screensaver_window_gone is queued
  misled,         \* windows that were there when an xprop on them ended
  term            \* SIGTERM was sent and is not acted upon

saverVars   == <<stage, oldStage, unused, parent, popups>>
serverVars  == <<input, stageOnTop, events, saverEvents>>
grabVars    == <<should_grab, activateIdle, moving, grabBroken, connected>>
monitorVars == <<pretty_xid, monitors, gone, misled>>
lockerVars  == <<locker, filter_xid, grabVars, monitorVars, term>>
vars        == <<saverVars, serverVars, lockerVars>>

Windows == Xids \cup {Other}
Owners  == {"free", "saver", "locker", "app"}
Lives   == {"starting", "running", "dead"}

\* The windows of the screensaver that exist.
Alive == {stage, oldStage} \ {None}

\* manager.set_locked: the screensaver has its first window, grabs, and starts the locker.
Init ==
  /\ stage = First /\ oldStage = None /\ unused = Xids \ {First}
  /\ parent = TRUE /\ popups = 0
  /\ input = "saver" /\ stageOnTop = TRUE
  /\ events = <<>> /\ saverEvents = FALSE
  /\ locker = "starting"
  /\ pretty_xid = First /\ filter_xid = First
  /\ should_grab = FALSE /\ activateIdle = FALSE /\ moving = FALSE
  /\ grabBroken = FALSE /\ connected = FALSE
  /\ monitors = {} /\ gone = {} /\ misled = {}
  /\ term = FALSE

-----------------------------------------------------------------------------
(* The X server. *)

\* An event about window w, for those that have selected events of the root window:
\* the locker once it has realized its own window, the stage while there is one.
Room == locker = "running" => Len(events) < MaxEvents
TellLocker(w) == events' = IF locker = "running" THEN Append(events, w) ELSE events

\* The locker raises or maps its window: the stage's filter hears of it.
RaiseLocker ==
  /\ stageOnTop' = FALSE
  /\ saverEvents' = (stage # None)

\* Who had the input lets go of it: by itself, or because its window or process went.
LetGo(who) == input' = IF input = who THEN "free" ELSE input

-----------------------------------------------------------------------------
(* The screensaver and the applications. *)

\* A stage is mapped: by a refresh, which makes the new one before it destroys the old,
\* or by a screensaver that was started again after a crash.
StageMaps(w) ==
  /\ w \in unused
  /\ stage # None \/ ~parent
  /\ oldStage = None
  /\ Room
  /\ stage' = w
  /\ oldStage' = stage
  /\ unused' = unused \ {w}
  /\ stageOnTop' = TRUE
  /\ TellLocker(w)
  /\ UNCHANGED <<parent, popups, input, saverEvents, lockerVars>>

\* The rest of a refresh, which had let go of the input before.
OldStageGoes ==
  /\ oldStage # None
  /\ oldStage' = None
  /\ UNCHANGED <<stage, unused, parent, popups, serverVars, lockerVars>>

\* Unlocking, by the screensaver that started the locker.
Unlock ==
  /\ parent /\ stage # None /\ oldStage = None
  /\ stage' = None
  /\ LetGo("saver")
  /\ stageOnTop' = FALSE /\ saverEvents' = FALSE
  /\ UNCHANGED <<oldStage, unused, parent, popups, events, lockerVars>>

\* kill_fallback_window, the last thing of an unlock.
KillFallback ==
  /\ parent /\ stage = None /\ ~term /\ locker # "dead"
  /\ term' = TRUE
  /\ UNCHANGED <<saverVars, serverVars, locker, filter_xid, grabVars, monitorVars>>

\* The screensaver dies, whichever instance of it this is.
Crash ==
  /\ parent \/ stage # None
  /\ stage' = None /\ oldStage' = None
  /\ parent' = FALSE
  /\ LetGo("saver")
  /\ stageOnTop' = FALSE /\ saverEvents' = FALSE
  /\ UNCHANGED <<unused, popups, events, lockerVars>>

SaverGrabs ==
  /\ input = "free" /\ stage # None
  /\ input' = "saver"
  /\ UNCHANGED <<saverVars, stageOnTop, events, saverEvents, lockerVars>>

SaverReleases ==
  /\ input = "saver"
  /\ input' = "free"
  /\ UNCHANGED <<saverVars, stageOnTop, events, saverEvents, lockerVars>>

\* The filter of the stage: whatever another window did, raise this one.
SaverRaises ==
  /\ saverEvents
  /\ saverEvents' = FALSE
  /\ stageOnTop' = TRUE
  /\ IF stageOnTop THEN UNCHANGED events ELSE TellLocker(stage)
  /\ UNCHANGED <<saverVars, input, lockerVars>>

\* A window of an application is mapped above everything.
AppMaps ==
  /\ popups < MaxPopups /\ Room
  /\ popups' = popups + 1
  /\ stageOnTop' = FALSE
  /\ saverEvents' = (stage # None)
  /\ TellLocker(Other)
  /\ UNCHANGED <<stage, oldStage, unused, parent, input, lockerVars>>

\* An application grabs the input, for a menu say.
AppGrabs ==
  /\ popups < MaxPopups /\ input = "free"
  /\ popups' = popups + 1
  /\ input' = "app"
  /\ UNCHANGED <<stage, oldStage, unused, parent, stageOnTop, events, saverEvents,
                 lockerVars>>

AppReleases ==
  /\ input = "app"
  /\ input' = "free"
  /\ UNCHANGED <<saverVars, stageOnTop, events, saverEvents, lockerVars>>

\* The server ends the grab on the locker's window.
ServerBreaksGrab ==
  /\ input = "locker" /\ ~moving
  /\ input' = "free"
  /\ grabBroken' = TRUE
  /\ UNCHANGED <<saverVars, stageOnTop, events, saverEvents, locker, filter_xid,
                 should_grab, activateIdle, moving, connected, monitorVars, term>>

-----------------------------------------------------------------------------
(* The locker. *)

\* Its main loop dispatches: it does not while it is inside move_to_window.
Dispatching == locker = "running" /\ ~moving

\* Mutant of SetupWindowMonitor: one thread at a time.
SetupOneMonitor(w) ==
  /\ should_grab' = FALSE
  /\ pretty_xid' = w
  /\ monitors' = IF monitors = {} THEN {w} ELSE monitors

\* Mutant of SetupWindowMonitor: the window goes on comparing with the first one.
SetupUnrecorded(w) ==
  /\ should_grab' = FALSE
  /\ monitors' = monitors \cup {w}
  /\ UNCHANGED pretty_xid

\* setup_window_monitor: a thread for the new window, and none is told to stop.
SetupWindowMonitor(w) ==
  /\ should_grab' = FALSE
  /\ pretty_xid' = w
  /\ monitors' = monitors \cup {w}

\* main and backup_window_new.
Start ==
  /\ locker = "starting" /\ ~term
  /\ locker' = "running"
  /\ RaiseLocker
  /\ SetupWindowMonitor(pretty_xid)
  /\ UNCHANGED <<saverVars, input, events, filter_xid, activateIdle, moving, grabBroken,
                 connected, gone, misled, term>>

\* The process ends, and with it its grabs: quit, or SIGTERM before it is handled.
Exit ==
  /\ locker' = "dead"
  /\ LetGo("locker")
  /\ events' = <<>>
  /\ term' = FALSE
  /\ UNCHANGED <<saverVars, stageOnTop, saverEvents, filter_xid, grabVars, monitorVars>>

SigtermReceived == term /\ (locker = "starting" \/ Dispatching) /\ Exit

\* window_monitor_thread: xprop ends with the window, or before it; its status is not
\* looked at.
MonitorEnds(w) ==
  /\ locker = "running"
  /\ w \in monitors
  /\ w \in Alive => Cardinality(misled) < MaxFailures
  /\ monitors' = monitors \ {w}
  /\ gone' = gone \cup {w}
  /\ misled' = misled \cup ({w} \cap Alive)
  /\ UNCHANGED <<saverVars, serverVars, locker, filter_xid, grabVars, pretty_xid, term>>

\* Mutant of IsWatched: any window of the screensaver that goes counts.
AnyIsWatched(w) == TRUE

\* Whether the window that is gone is the one to cover for, or an earlier one.
IsWatched(w) == w = pretty_xid

\* screensaver_window_gone: of an earlier window it means nothing any more.
ScreensaverWindowGone(w) ==
  /\ Dispatching
  /\ w \in gone
  /\ gone' = gone \ {w}
  /\ IF IsWatched(w)
     THEN /\ should_grab' = TRUE
          /\ pretty_xid' = None
          /\ activateIdle' = TRUE
     ELSE UNCHANGED <<should_grab, pretty_xid, activateIdle>>
  /\ UNCHANGED <<saverVars, serverVars, locker, filter_xid, moving, grabBroken,
                 connected, monitors, misled, term>>

\* Mutant of ActivateForNothing: the idle goes too when the root window is not to be had.
ActivateGivesUp ==
  /\ Dispatching /\ activateIdle
  /\ ~should_grab \/ input \in {"saver", "app"}
  /\ activateIdle' = FALSE
  /\ UNCHANGED <<saverVars, serverVars, locker, filter_xid, should_grab, moving,
                 grabBroken, connected, monitorVars, term>>

\* activate_backup_window_cb has nothing to grab any more.
ActivateForNothing ==
  /\ Dispatching /\ activateIdle /\ ~should_grab
  /\ activateIdle' = FALSE
  /\ UNCHANGED <<saverVars, serverVars, locker, filter_xid, should_grab, moving,
                 grabBroken, connected, monitorVars, term>>

\* activate_backup_window_cb gets the root window, and goes on to move_to_window, which
\* lets go of that to grab the locker's own window.  Unless it gets the root window the
\* idle stays and tries again.
ActivateGrabsRoot ==
  /\ Dispatching /\ activateIdle /\ should_grab
  /\ input \in {"free", "locker"}
  /\ input' = "free"
  /\ moving' = TRUE
  /\ UNCHANGED <<saverVars, stageOnTop, events, saverEvents, locker, filter_xid,
                 should_grab, activateIdle, grabBroken, connected, monitorVars, term>>

\* move_to_window tries until it gets the input, and the callback comes to its end.
MoveToWindow ==
  /\ locker = "running" /\ moving
  /\ input = "free"
  /\ input' = "locker"
  /\ moving' = FALSE
  /\ connected' = TRUE
  /\ activateIdle' = FALSE
  /\ UNCHANGED <<saverVars, stageOnTop, events, saverEvents, locker, filter_xid,
                 should_grab, grabBroken, monitorVars, term>>

\* window_grab_broken, if it is connected.
WindowGrabBroken ==
  /\ Dispatching /\ grabBroken
  /\ grabBroken' = FALSE
  /\ connected' = FALSE
  /\ activateIdle' = (activateIdle \/ (connected /\ should_grab))
  /\ UNCHANGED <<saverVars, serverVars, locker, filter_xid, should_grab, moving,
                 monitorVars, term>>

\* Mutant of IsNewStage: whatever its name.
IsNewWindow(w) == w # filter_xid

\* The window has the name of the screensaver's, and is not the one that is known.
IsNewStage(w) == w # filter_xid /\ w \in Alive

\* Mutant of BackupWindowUngrab: the grabs stay.
UngrabForgotten == UNCHANGED input

\* backup_window_ungrab, but for should_grab, which setup_window_monitor clears again.
BackupWindowUngrab == LetGo("locker")

\* The filter reads an event and restacks.  It takes a window that is named for the
\* screensaver for a new one, lets go of everything and watches that; any window but the
\* one it knows makes it raise itself.  The name of a window that is gone cannot be read.
Restack ==
  /\ Dispatching
  /\ events # <<>>
  /\ events' = Tail(events)
  /\ LET w == Head(events)
     IN  /\ IF IsNewStage(w)
            THEN /\ filter_xid' = w
                 /\ BackupWindowUngrab
                 /\ SetupWindowMonitor(w)
            ELSE UNCHANGED <<filter_xid, input, should_grab, pretty_xid, monitors>>
         /\ IF w # filter_xid'
            THEN RaiseLocker
            ELSE UNCHANGED <<stageOnTop, saverEvents>>
  /\ UNCHANGED <<saverVars, locker, activateIdle, moving, grabBroken, connected, gone,
                 misled, term>>

\* update_for_compositing makes the window anew, which ends a grab on it.
CompositedChanged ==
  /\ Dispatching
  /\ Room
  /\ RaiseLocker
  /\ LetGo("locker")
  /\ activateIdle' = (activateIdle \/ should_grab)
  /\ grabBroken' \in {grabBroken, grabBroken \/ input = "locker"}
  /\ UNCHANGED <<saverVars, events, locker, filter_xid, should_grab, moving, connected,
                 monitorVars, term>>

\* on_composited_changed finds no visual to paint with.
CompositedFails == VisualMayVanish /\ Dispatching /\ Exit

-----------------------------------------------------------------------------
Saver ==
  \/ \E w \in Xids : StageMaps(w)
  \/ OldStageGoes \/ Unlock \/ KillFallback \/ Crash
  \/ SaverGrabs \/ SaverReleases \/ SaverRaises

Apps == AppMaps \/ AppGrabs \/ AppReleases \/ ServerBreaksGrab

Locker ==
  \/ Start \/ SigtermReceived \/ CompositedChanged \/ CompositedFails
  \/ \E w \in Xids : MonitorEnds(w) \/ ScreensaverWindowGone(w)
  \/ ActivateForNothing \/ ActivateGrabsRoot \/ MoveToWindow
  \/ WindowGrabBroken \/ Restack

Next == Saver \/ Apps \/ Locker

Spec == Init /\ [][Next]_vars

(* The locker's loop dispatches every source that is ready and its threads run; a    *)
(* refresh and an unlock come to their end; the filter of a stage reads its events;   *)
(* a menu of an application is closed some time.  Nothing obliges the screensaver to  *)
(* take or to leave the input, to refresh or to crash.                                *)
Fairness ==
  /\ WF_vars(Start) /\ WF_vars(SigtermReceived)
  /\ \A w \in Xids : WF_vars(MonitorEnds(w) /\ w \notin Alive)
  /\ \A w \in Xids : WF_vars(ScreensaverWindowGone(w))
  /\ WF_vars(ActivateForNothing) /\ WF_vars(ActivateGrabsRoot) /\ WF_vars(MoveToWindow)
  /\ WF_vars(WindowGrabBroken) /\ WF_vars(Restack)
  /\ WF_vars(OldStageGoes) /\ WF_vars(KillFallback)
  /\ WF_vars(SaverRaises) /\ WF_vars(AppReleases)

FairSpec == Spec /\ Fairness

-----------------------------------------------------------------------------
(* Properties. *)

\* Every variable has its type.
TypeOK ==
  /\ stage \in Xids \cup {None} /\ oldStage \in Xids \cup {None}
  /\ unused \in SUBSET Xids
  /\ parent \in BOOLEAN /\ popups \in Nat
  /\ input \in Owners /\ stageOnTop \in BOOLEAN
  /\ events \in Seq(Windows) /\ saverEvents \in BOOLEAN
  /\ locker \in Lives
  /\ pretty_xid \in Xids \cup {None} /\ filter_xid \in Xids
  /\ should_grab \in BOOLEAN /\ activateIdle \in BOOLEAN /\ moving \in BOOLEAN
  /\ grabBroken \in BOOLEAN /\ connected \in BOOLEAN
  /\ monitors \in SUBSET Xids /\ gone \in SUBSET Xids /\ misled \in SUBSET Xids
  /\ term \in BOOLEAN

\* The locker neither has the input nor means to have it while the last window it was
\* told of is there, whatever the order in which it learns of windows that come and go
\* (screensaver_window_gone, restack) -- unless the xprop on that very window failed.
KnownStageIsLeftAlone ==
  input = "locker" \/ should_grab => filter_xid \notin Alive \ misled

\* The end of the watched window cannot be missed: a thread waits for it, or has and its
\* callback is queued (setup_window_monitor, window_monitor_thread).
WatchedIsMonitored ==
  locker = "running" /\ pretty_xid # None => pretty_xid \in monitors \cup gone

\* A locker that should have the input has it, or an attempt is under way or will be
\* started by what is queued: no grab that failed or was broken is the last one
\* (activate_backup_window, window_grab_broken, update_for_compositing).
GrabIsPursued ==
  locker = "running" /\ should_grab =>
    \/ input = "locker"
    \/ activateIdle \/ moving
    \/ grabBroken /\ connected

\* The locker, its threads and its event filter amount to the promise of Fallback: when it
\* covers, whom it takes the input from, and what makes it give way
\* (activate_backup_window_cb, screensaver_window_gone, restack, update_for_compositing).
Promise ==
  INSTANCE Fallback WITH
    present <- Alive,
    fresh <- unused,
    known <- filter_xid,
    doubted <- misled,
    life <- locker,
    covers <- should_grab,
    tries <- activateIdle \/ moving \/ (grabBroken /\ connected),
    input <- input
KeepsPromise == Promise!Spec

\* A session whose screensaver is gone gets its input grabbed by the locker, unless there
\* is a screensaver again or the locker is told to go.
CrashIsCovered ==
  locker = "running" /\ Alive = {} ~>
    input = "locker" \/ Alive # {} \/ term \/ locker = "dead"

\* A stage does not lose the screen and the input to the locker for good, though the
\* locker may have taken the window before it for gone, rightly or not, and be raising
\* itself: only the failure of the xprop on that very stage lets the locker keep them.
StageIsServed ==
  stage # None ~> stage = None \/ stage \in misled \/ (stageOnTop /\ input # "locker")
=============================================================================
