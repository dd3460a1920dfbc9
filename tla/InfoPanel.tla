------------------------------ MODULE InfoPanel ------------------------------
(***************************************************************************)
(* The panel in the corner of the lock screen, with the battery and the    *)
(* number of notifications, and where it has both from: UPower's devices,  *)
(* looked at in idle callbacks that pile up, and a filter on the session   *)
(* bus that runs in a thread of its own; notifications of media players    *)
(* are left out.  The panel comes and goes with the stage.                 *)
(***************************************************************************)
EXTENDS Players

CONSTANTS
  MaxPower,         \* bound: changes of the battery
  MaxNotifications, \* bound: notifications sent
  MaxStages         \* bound: stages one after the other

\* The states of a battery that are told apart.
BatteryStates == {"charging", "discharging", "full"}

VARIABLES
  battery,       \* UPower's device: what it is at, and whether it runs low
  relevant_devices, devices_dirty, have_battery, plugged_in,  \* UPowerClient
  idles,         \* queued idle_update_cb
  panel,         \* InfoPanel and its widgets, or its absence
  Awake,
  received,      \* senders of notifications the filter has passed on
  powers, sent, stages

clientVars == <<relevant_devices, devices_dirty, have_battery, plugged_in, idles>>
limitVars  == <<powers, sent, stages>>
panelVars  == <<battery, clientVars, panel, Awake, received, limitVars>>

NoPanel  == [exists |-> FALSE]
NewPanel == [exists |-> TRUE, count |-> 0, critical |-> FALSE, show_power |-> FALSE, visible |-> FALSE]

\* The client has its proxy, and has queued the first look.
PanelInit ==
  /\ battery \in [present : BOOLEAN, state : BatteryStates, low : BOOLEAN]
  /\ relevant_devices = FALSE /\ devices_dirty = TRUE
  /\ have_battery = FALSE /\ plugged_in = FALSE
  /\ idles = 1
  /\ panel = NoPanel
  /\ Awake = FALSE
  /\ received = <<>>
  /\ powers = 0 /\ sent = 0 /\ stages = 0

-----------------------------------------------------------------------------
(* InfoPanel and PowerWidget. *)

\* full_and_on_ac_or_no_batteries, of a client that knows of a battery or not.
FullOrNone(known, plugged) == ~known \/ (plugged /\ battery.state = "full")

\* update_visibility.
UpdateVisibility(p, known, plugged, awake) ==
  LET power == ~FullOrNone(known, plugged)
  IN  IF ~p.exists THEN p
      ELSE [p EXCEPT !.show_power = power,
                     !.visible = \/ p.count > 0
                                 \/ power /\ (awake \/ p.critical)]

\* PowerWidget.on_power_state_changed: new icons, and the panel is told.
PowerStateChanged(p, known, plugged, awake) ==
  IF ~p.exists THEN p
  ELSE UpdateVisibility([p EXCEPT !.critical = known /\ battery.low], known, plugged, awake)

RefreshPowerState(p, awake) == PowerStateChanged(p, relevant_devices, plugged_in, awake)

-----------------------------------------------------------------------------
(* UPowerClient. *)

\* A device is added or removed; the client may still look at what one was when it went.
DeviceAddedOrRemoved ==
  /\ powers < MaxPower
  /\ \/ battery.present /\ battery' = [battery EXCEPT !.present = FALSE]
     \/ ~battery.present /\ battery' \in [present : {TRUE}, state : BatteryStates, low : BOOLEAN]
  /\ devices_dirty' = TRUE
  /\ idles' = idles + 1
  /\ powers' = powers + 1
  /\ UNCHANGED <<relevant_devices, have_battery, plugged_in, panel, Awake, received, sent, stages>>

\* Mutant of StateNotifies: not looked at.
StateIsIgnored == UNCHANGED idles

\* on_device_properties_changed: queue_update_state, which never cancels one it has queued.
StateNotifies == idles' = IF relevant_devices THEN idles + 1 ELSE idles

\* The state of the battery changes.
DeviceStateChanged ==
  /\ battery.present /\ powers < MaxPower
  /\ \E b \in BatteryStates \ {battery.state} : battery' = [battery EXCEPT !.state = b]
  /\ StateNotifies
  /\ powers' = powers + 1
  /\ UNCHANGED <<relevant_devices, devices_dirty, have_battery, plugged_in>>
  /\ UNCHANGED <<panel, Awake, received, sent, stages>>

\* Its percentage passes the critical level: on_percentage_changed, which updates the
\* tooltip and with it battery_critical, if it is low.
PercentageChanged ==
  /\ battery.present /\ powers < MaxPower
  /\ battery' = [battery EXCEPT !.low = ~@]
  /\ panel' = IF panel.exists /\ relevant_devices /\ battery'.low
              THEN [panel EXCEPT !.critical = TRUE] ELSE panel
  /\ powers' = powers + 1
  /\ UNCHANGED <<clientVars, Awake, received, sent, stages>>

\* idle_update_cb: rescan_devices, which queues another, and update_state, which tells of a
\* change of plugged_in or have_battery only.
IdleUpdate ==
  LET known   == IF devices_dirty THEN battery.present ELSE relevant_devices
      plugged == known /\ battery.state # "discharging"
  IN  /\ idles > 0
      /\ idles' = IF devices_dirty THEN idles ELSE idles - 1
      /\ devices_dirty' = FALSE
      /\ relevant_devices' = known
      /\ have_battery' = known /\ plugged_in' = plugged
      /\ panel' = IF <<known, plugged>> # <<have_battery, plugged_in>>
                  THEN PowerStateChanged(panel, known, plugged, Awake) ELSE panel
      /\ UNCHANGED <<battery, Awake, received, limitVars>>

-----------------------------------------------------------------------------
(* CsNotificationWatcher and NotificationWidget. *)

Senders == PlayerNames \cup {"", "app", "network"}

\* notification_filter_func, in the thread of the bus: neither transient nor a replacement.
Notified(sender, transient, replaces_existing) ==
  /\ sent < MaxNotifications
  /\ sent' = sent + 1
  /\ received' = IF transient \/ replaces_existing THEN received ELSE Append(received, sender)
  /\ UNCHANGED <<battery, clientVars, panel, Awake, powers, stages>>

\* idle_notify_received and on_notification_received.
NotificationReceived ==
  /\ received # <<>>
  /\ received' = Tail(received)
  /\ panel' = IF panel.exists /\ Head(received) \notin AllPlayerNames \cup {"network"}
              THEN UpdateVisibility([panel EXCEPT !.count = @ + 1], relevant_devices, plugged_in, Awake)
              ELSE panel
  /\ UNCHANGED <<battery, clientVars, Awake, limitVars>>

-----------------------------------------------------------------------------
(* The stage. *)

\* setup_status_bars, two seconds after the stage is there; it may be awake already.
SetupStatusBars ==
  /\ ~panel.exists /\ stages < MaxStages
  /\ panel' = RefreshPowerState(NewPanel, Awake)
  /\ stages' = stages + 1
  /\ UNCHANGED <<battery, clientVars, Awake, received, powers, sent>>

RaiseUnlockWidget ==
  /\ ~Awake
  /\ Awake' = TRUE
  /\ panel' = RefreshPowerState(panel, TRUE)
  /\ UNCHANGED <<battery, clientVars, received, limitVars>>

\* Mutant of Lowered: hidden for good.
LoweredHidden == IF panel.exists THEN [panel EXCEPT !.visible = FALSE] ELSE panel

\* The panel is hidden, then shown as it should be while asleep.
Lowered == RefreshPowerState(panel, FALSE)

CancelUnlocking ==
  /\ Awake
  /\ Awake' = FALSE
  /\ panel' = Lowered
  /\ UNCHANGED <<battery, clientVars, received, limitVars>>

\* The stage is destroyed or refreshed, its panel with it.
DestroyStage ==
  /\ panel.exists
  /\ panel' = NoPanel
  /\ Awake' = FALSE
  /\ UNCHANGED <<battery, clientVars, received, limitVars>>

PanelNext ==
  \/ DeviceAddedOrRemoved \/ DeviceStateChanged \/ PercentageChanged \/ IdleUpdate
  \/ \E s \in Senders, t, r \in BOOLEAN : Notified(s, t, r)
  \/ NotificationReceived
  \/ SetupStatusBars \/ RaiseUnlockWidget \/ CancelUnlocking \/ DestroyStage

-----------------------------------------------------------------------------
(* Properties. *)

PanelTypeOK ==
  /\ battery \in [present : BOOLEAN, state : BatteryStates, low : BOOLEAN]
  /\ relevant_devices \in BOOLEAN /\ devices_dirty \in BOOLEAN
  /\ have_battery \in BOOLEAN /\ plugged_in \in BOOLEAN /\ Awake \in BOOLEAN
  /\ idles \in Nat
  /\ panel = NoPanel \/ panel \in
       [exists : {TRUE}, count : Nat, critical : BOOLEAN, show_power : BOOLEAN, visible : BOOLEAN]
  /\ \A i \in DOMAIN received : received[i] \in Senders

\* A notification that has been counted can be seen, asleep or awake, until the stage goes.
CountedIsShown == panel.exists /\ panel.count > 0 => panel.visible

\* Whoever wakes the screen while it runs on battery is told so, when all looks at the
\* devices that are queued have been taken, in whatever order they came with the panel.
DischargeIsShown ==
  panel.exists /\ Awake /\ idles = 0 /\ battery.present /\ battery.state = "discharging"
    => panel.visible /\ panel.show_power
=============================================================================
