--------------------------- MODULE InfoPanel_proofs ---------------------------
(***************************************************************************)
(* What the panel shows is what there is, for any number of changes of the *)
(* battery, of notifications, of looks at the devices that are queued and  *)
(* of panels.                                                              *)
(***************************************************************************)
EXTENDS InfoPanel, SequenceTheorems, TLAPS

\* A panel, or its absence.
Panels ==
  {NoPanel} \cup [exists : {TRUE}, count : Nat, critical : BOOLEAN, show_power : BOOLEAN,
                  visible : BOOLEAN]

PanelTypes ==
  /\ battery \in [present : BOOLEAN, state : BatteryStates, low : BOOLEAN]
  /\ relevant_devices \in BOOLEAN /\ devices_dirty \in BOOLEAN
  /\ have_battery \in BOOLEAN /\ plugged_in \in BOOLEAN /\ Awake \in BOOLEAN
  /\ idles \in Nat
  /\ received \in Seq(Senders)

\* What the client believes: the list of devices is right unless it is to be read again,
\* and the state of the battery once no look at it is queued.
Believes ==
  /\ (have_battery <=> relevant_devices)
  /\ devices_dirty => idles > 0
  /\ ~devices_dirty => (relevant_devices <=> battery.present)
  /\ idles = 0 /\ relevant_devices => (plugged_in <=> battery.state # "discharging")

\* What the panel p tells of a battery, as the client knows it, and of notifications.
Tells(p, known, plugged, awake) ==
  /\ p \in Panels
  /\ p.exists /\ p.count > 0 => p.visible
  /\ p.exists /\ known /\ ~plugged => p.show_power /\ (awake => p.visible)

PanelInv == PanelTypes /\ Believes /\ Tells(panel, relevant_devices, plugged_in, Awake)

\* A panel has the fields of one if it is there.
LEMMA PanelFields ==
  ASSUME NEW p \in Panels
  PROVE  /\ p.exists \in BOOLEAN
         /\ ~p.exists => p = NoPanel
         /\ p.exists => p \in [exists : {TRUE}, count : Nat, critical : BOOLEAN,
                               show_power : BOOLEAN, visible : BOOLEAN]
<1>1. CASE p = NoPanel
  BY <1>1 DEF NoPanel
<1>2. CASE p \in [exists : {TRUE}, count : Nat, critical : BOOLEAN, show_power : BOOLEAN,
                  visible : BOOLEAN]
  BY <1>2
<1> QED BY <1>1, <1>2 DEF Panels

\* Updating its visibility makes the panel tell what the client knows.
LEMMA VisibilityTells ==
  ASSUME NEW p \in Panels, NEW k \in BOOLEAN, NEW g \in BOOLEAN, NEW a \in BOOLEAN
  PROVE  /\ Tells(UpdateVisibility(p, k, g, a), k, g, a)
         /\ UpdateVisibility(p, k, g, a).exists = p.exists
<1>1. CASE ~p.exists
  BY <1>1, PanelFields DEF UpdateVisibility, Tells, NoPanel
<1>2. CASE p.exists
  <2>1. p \in [exists : {TRUE}, count : Nat, critical : BOOLEAN,
               show_power : BOOLEAN, visible : BOOLEAN]
    BY <1>2, PanelFields
  <2> DEFINE power == ~FullOrNone(k, g)
             seen  == p.count > 0 \/ (power /\ (a \/ p.critical))
             q     == [p EXCEPT !.show_power = power, !.visible = seen]
  <2>2. power \in BOOLEAN /\ (k /\ ~g => power)
    BY DEF FullOrNone
  <2>3. seen \in BOOLEAN /\ (p.count > 0 => seen) /\ (power /\ a => seen)
    OBVIOUS
  <2>4. UpdateVisibility(p, k, g, a) = q
    BY <1>2 DEF UpdateVisibility
  <2>5. /\ q \in [exists : {TRUE}, count : Nat, critical : BOOLEAN,
                  show_power : BOOLEAN, visible : BOOLEAN]
        /\ q.exists = p.exists /\ q.count = p.count /\ q.show_power = power /\ q.visible = seen
    <3> HIDE DEF power, seen
    <3> QED BY <2>1, <2>2, <2>3
  <2> HIDE DEF power, seen, q
  <2> QED BY <2>2, <2>3, <2>4, <2>5 DEF Tells, Panels
<1> QED BY <1>1, <1>2, PanelFields

\* The same of the power state, of which the panel is told.
LEMMA PowerTells ==
  ASSUME PanelTypes,
         NEW p \in Panels, NEW k \in BOOLEAN, NEW g \in BOOLEAN, NEW a \in BOOLEAN
  PROVE  /\ Tells(PowerStateChanged(p, k, g, a), k, g, a)
         /\ PowerStateChanged(p, k, g, a).exists = p.exists
<1>1. CASE ~p.exists
  BY <1>1, PanelFields DEF PowerStateChanged, Tells, NoPanel
<1>2. CASE p.exists
  <2> DEFINE low == k /\ battery.low
             q   == [p EXCEPT !.critical = low]
  <2>1. low \in BOOLEAN
    BY DEF PanelTypes
  <2>2. q \in Panels /\ q.exists = p.exists
    <3> HIDE DEF low
    <3> QED BY <1>2, <2>1, PanelFields DEF Panels
  <2>3. PowerStateChanged(p, k, g, a) = UpdateVisibility(q, k, g, a)
    BY <1>2 DEF PowerStateChanged
  <2> HIDE DEF low, q
  <2> QED BY <2>2, <2>3, VisibilityTells
<1> QED BY <1>1, <1>2, PanelFields

\* Every step of the panel and of what it has its news from.
LEMMA PanelStep == PanelInv /\ [PanelNext]_panelVars => PanelInv'
<1> SUFFICES ASSUME PanelInv, [PanelNext]_panelVars PROVE PanelInv'
  OBVIOUS
<1> USE DEF PanelInv, clientVars, limitVars, panelVars
<1>1. CASE DeviceAddedOrRemoved
  <2>1. battery' \in [present : BOOLEAN, state : BatteryStates, low : BOOLEAN]
    BY <1>1 DEF DeviceAddedOrRemoved, PanelTypes
  <2>2. PanelTypes'
    BY <1>1, <2>1 DEF DeviceAddedOrRemoved, PanelTypes
  <2>3. Believes'
    BY <1>1 DEF DeviceAddedOrRemoved, PanelTypes, Believes
  <2> QED BY <1>1, <2>2, <2>3 DEF DeviceAddedOrRemoved, Tells, Panels, NoPanel
<1>2. CASE DeviceStateChanged
  <2>1. PanelTypes' /\ Believes'
    BY <1>2 DEF DeviceStateChanged, StateNotifies, PanelTypes, Believes
  <2> QED BY <1>2, <2>1 DEF DeviceStateChanged, Tells, Panels, NoPanel
<1>3. CASE PercentageChanged
  <2>1. PanelTypes' /\ Believes'
    BY <1>3 DEF PercentageChanged, PanelTypes, Believes
  <2>2. CASE panel' = panel
    BY <1>3, <2>1, <2>2 DEF PercentageChanged, Tells, Panels, NoPanel
  <2>3. CASE panel.exists /\ panel' = [panel EXCEPT !.critical = TRUE]
    BY <1>3, <2>1, <2>3, PanelFields DEF PercentageChanged, Tells, Panels
  <2> QED BY <1>3, <2>2, <2>3 DEF PercentageChanged
<1>4. CASE IdleUpdate
  <2> DEFINE known   == IF devices_dirty THEN battery.present ELSE relevant_devices
             plugged == known /\ battery.state # "discharging"
  <2>1. known \in BOOLEAN /\ plugged \in BOOLEAN /\ known = battery.present
    BY DEF PanelTypes, Believes
  <2>2. /\ relevant_devices' = known /\ plugged_in' = plugged /\ have_battery' = known
        /\ devices_dirty' = FALSE /\ UNCHANGED <<battery, Awake, received>>
    BY <1>4 DEF IdleUpdate
  <2>3. PanelTypes' /\ Believes'
    <3>1. idles' \in Nat
      BY <1>4 DEF IdleUpdate, PanelTypes
    <3>2. PanelTypes'
      <4> HIDE DEF known, plugged
      <4> QED BY <2>1, <2>2, <3>1 DEF PanelTypes
    <3>3. Believes'
      BY <2>1, <2>2 DEF Believes
    <3> QED BY <3>2, <3>3
  <2>4. CASE <<known, plugged>> # <<have_battery, plugged_in>>
    <3>1. panel' = PowerStateChanged(panel, known, plugged, Awake)
      BY <1>4, <2>4 DEF IdleUpdate
    <3> HIDE DEF known, plugged
    <3>2. Tells(panel', known, plugged, Awake)
      BY <3>1, <2>1, PowerTells DEF Tells, PanelTypes
    <3> QED BY <2>2, <2>3, <3>2 DEF Tells
  <2>5. CASE <<known, plugged>> = <<have_battery, plugged_in>>
    <3>1. panel' = panel
      BY <1>4, <2>5 DEF IdleUpdate
    <3> HIDE DEF known, plugged
    <3>2. known = have_battery /\ plugged = plugged_in
      BY <2>5
    <3>3. relevant_devices' <=> relevant_devices
      BY <2>2, <3>2 DEF Believes
    <3> QED BY <2>2, <2>3, <3>1, <3>2, <3>3 DEF Tells
  <2> QED BY <2>4, <2>5
<1>5. ASSUME NEW s \in Senders, NEW t \in BOOLEAN, NEW r \in BOOLEAN, Notified(s, t, r)
      PROVE  PanelInv'
  <2>1. PanelTypes' /\ Believes'
    BY <1>5, AppendProperties DEF Notified, PanelTypes, Believes
  <2> QED BY <1>5, <2>1 DEF Notified, Tells, Panels, NoPanel
<1>6. CASE NotificationReceived
  <2>1. PanelTypes' /\ Believes'
    BY <1>6, HeadTailProperties DEF NotificationReceived, PanelTypes, Believes
  <2>2. CASE panel' = panel
    BY <1>6, <2>1, <2>2 DEF NotificationReceived, Tells, Panels, NoPanel
  <2>3. CASE panel.exists /\ panel' = UpdateVisibility([panel EXCEPT !.count = @ + 1],
                                                        relevant_devices, plugged_in, Awake)
    <3>1. [panel EXCEPT !.count = @ + 1] \in Panels
      <4>1. panel \in [exists : {TRUE}, count : Nat, critical : BOOLEAN,
                       show_power : BOOLEAN, visible : BOOLEAN]
        BY <2>3, PanelFields DEF Tells
      <4>2. panel.count + 1 \in Nat
        BY <4>1
      <4> QED BY <4>1, <4>2 DEF Panels
    <3>2. Tells(panel', relevant_devices, plugged_in, Awake)
      BY <2>3, <3>1, VisibilityTells DEF PanelTypes
    <3> QED BY <1>6, <2>1, <3>2 DEF NotificationReceived, Tells, Panels, NoPanel
  <2> QED BY <1>6, <2>2, <2>3 DEF NotificationReceived
<1>7. CASE SetupStatusBars
  <2>1. PanelTypes' /\ Believes'
    BY <1>7 DEF SetupStatusBars, PanelTypes, Believes
  <2>2. NewPanel \in Panels
    BY DEF NewPanel, Panels
  <2>3. Tells(panel', relevant_devices, plugged_in, Awake)
    BY <1>7, <2>2, PowerTells DEF SetupStatusBars, RefreshPowerState, PanelTypes
  <2> QED BY <1>7, <2>1, <2>3 DEF SetupStatusBars, Tells, Panels, NoPanel
<1>8. CASE RaiseUnlockWidget
  <2>1. PanelTypes' /\ Believes'
    BY <1>8 DEF RaiseUnlockWidget, PanelTypes, Believes
  <2>2. Tells(panel', relevant_devices, plugged_in, TRUE)
    BY <1>8, PowerTells DEF RaiseUnlockWidget, RefreshPowerState, PanelTypes, Tells
  <2> QED BY <1>8, <2>1, <2>2 DEF RaiseUnlockWidget, Tells, Panels, NoPanel
<1>9. CASE CancelUnlocking
  <2>1. PanelTypes' /\ Believes'
    BY <1>9 DEF CancelUnlocking, PanelTypes, Believes
  <2>2. Tells(panel', relevant_devices, plugged_in, FALSE)
    BY <1>9, PowerTells DEF CancelUnlocking, Lowered, RefreshPowerState, PanelTypes, Tells
  <2> QED BY <1>9, <2>1, <2>2 DEF CancelUnlocking, Tells, Panels, NoPanel
<1>10. CASE DestroyStage
  <2>1. PanelTypes' /\ Believes'
    BY <1>10 DEF DestroyStage, PanelTypes, Believes
  <2> QED BY <1>10, <2>1 DEF DestroyStage, Tells, Panels, NoPanel
<1>11. CASE UNCHANGED panelVars
  BY <1>11 DEF PanelTypes, Believes, Tells, Panels, NoPanel
<1> QED BY <1>1, <1>2, <1>3, <1>4, <1>5, <1>6, <1>7, <1>8, <1>9, <1>10, <1>11 DEF PanelNext

\* Its first state.
LEMMA PanelFirst == PanelInit => PanelInv
<1> SUFFICES ASSUME PanelInit PROVE PanelInv
  OBVIOUS
<1>1. PanelTypes
  BY EmptySeq DEF PanelInit, PanelTypes
<1>2. Believes
  BY DEF PanelInit, Believes
<1>3. Tells(panel, relevant_devices, plugged_in, Awake)
  BY DEF PanelInit, Tells, Panels, NoPanel
<1> QED BY <1>1, <1>2, <1>3 DEF PanelInv

\* What the panel tells includes what is claimed of it.
LEMMA PanelClaims == PanelInv => PanelTypeOK /\ CountedIsShown /\ DischargeIsShown
<1> SUFFICES ASSUME PanelInv PROVE PanelTypeOK /\ CountedIsShown /\ DischargeIsShown
  OBVIOUS
<1>1. PanelTypeOK
  <2>1. \A i \in DOMAIN received : received[i] \in Senders
    BY ElementOfSeq, LenProperties DEF PanelInv, PanelTypes
  <2>2. panel = NoPanel \/ panel \in [exists : {TRUE}, count : Nat, critical : BOOLEAN,
                                      show_power : BOOLEAN, visible : BOOLEAN]
    BY DEF PanelInv, Tells, Panels
  <2> QED BY <2>1, <2>2 DEF PanelInv, PanelTypes, PanelTypeOK
<1>2. CountedIsShown
  BY DEF PanelInv, Tells, CountedIsShown
<1>3. DischargeIsShown
  <2> SUFFICES ASSUME panel.exists, Awake, idles = 0, battery.present,
                      battery.state = "discharging"
               PROVE  panel.visible /\ panel.show_power
    BY DEF DischargeIsShown
  <2>1. relevant_devices /\ ~plugged_in
    BY DEF PanelInv, PanelTypes, Believes
  <2> QED BY <2>1 DEF PanelInv, Tells
<1> QED BY <1>1, <1>2, <1>3

=============================================================================
