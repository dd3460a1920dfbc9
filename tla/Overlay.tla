------------------------------- MODULE Overlay -------------------------------
(***************************************************************************)
(* Where the widgets of the lock screen are: the unlock dialog in the      *)
(* middle of the monitor the mouse is in, and the floaters, the clock and  *)
(* the album art.  Asleep they float between the ninths of all monitors;   *)
(* awake they are beside the dialog.  The overlay lays its visible         *)
(* children out one by one, and each of them looks where the mouse is.     *)
(* Sizes are in pixels; a position is computed with fractions, and cut off *)
(* when it is stored.  Regions are in twelfths of a pixel here.            *)
(***************************************************************************)
EXTENDS Integers, FiniteSets

CONSTANTS
  Widths,      \* of a monitor
  Heights,     \* of both
  DialogSizes, \* what the dialog wants to have, across
  FloaterSizes \* what the floaters want to have, across and down

\* A dialog fits into its monitor.
ASSUME SizesAssumption ==
  /\ Widths \subseteq Nat \ {0} /\ Heights \subseteq Nat \ {0}
  /\ FloaterSizes \subseteq Nat /\ DialogSizes \subseteq Nat
  /\ \A w \in Widths, d \in DialogSizes : d <= w

Monitors   == {0, 1}
Alignments == {"start", "center", "end"}
Floaters   == {"clock", "albumart"}
Hidden     == -1

VARIABLES
  monitors,             \* the rectangles of the monitors, which are side by side
  allow_floating,       \* the setting
  mouse,                \* the monitor the mouse is in
  last_focus_monitor,   \* -1 at first
  awake,                \* the dialog is raised
  floaters,             \* those that have been set up, and where each is and will be
  floatTimer, floaters_need_update,
  layout,               \* the overlay has to be laid out
  placed                \* what was last laid out: which floaters, the monitor of the dialog
                        \* if it was visible, and whether that was awake

overlayVars == <<monitors, allow_floating, mouse, last_focus_monitor, awake, floaters,
                 floatTimer, floaters_need_update, layout, placed>>

PositionInfo == [monitor : Monitors, halign : Alignments, valign : Alignments]

\* awake_position: the clock is left of the dialog, the album art right of it.
AwakePosition(f, m) ==
  [monitor |-> m, halign |-> IF f = "clock" THEN "start" ELSE "end", valign |-> "center"]

OverlayInit ==
  /\ \E w \in [Monitors -> Widths], h \in Heights :
       monitors = [m \in Monitors |-> [x |-> IF m = 0 THEN 0 ELSE w[0], width |-> w[m], height |-> h]]
  /\ allow_floating \in BOOLEAN
  /\ mouse \in Monitors
  /\ last_focus_monitor = -1
  /\ awake = FALSE
  /\ floaters = <<>>
  /\ floatTimer = FALSE /\ floaters_need_update = FALSE
  /\ layout = FALSE
  /\ placed = [floaters |-> {}, dialog |-> Hidden, awake |-> FALSE]

-----------------------------------------------------------------------------
(* position_overlay_child. *)

Third(extent) == 4 * extent

\* Mutant of RegionWidth: a third in any case.
WideDialogIgnored(width, dialog) == Third(width)

\* What a dialog of more than a third of the monitor leaves on either side of it.
RegionWidth(width, dialog) ==
  IF placed.awake /\ 3 * dialog > width THEN 6 * (width - dialog) ELSE Third(width)

Fitted(size, region) == IF 12 * size <= region THEN size ELSE region \div 12

\* Centred in the region at the beginning or the end of an extent, or in all of it.
Start(origin, extent, region, size, align) ==
  CASE align = "start"  -> origin + (region - 12 * size) \div 24
    [] align = "center" -> origin + (extent - size) \div 2
    [] align = "end"    -> (24 * (origin + extent - size) - (region - 12 * size)) \div 24

FloaterRect(position, size, dialog) ==
  LET m == monitors[position.monitor]
      w == Fitted(size, RegionWidth(m.width, dialog))
      h == Fitted(size, Third(m.height))
  IN  [width |-> w, height |-> h,
       x |-> Start(m.x, m.width, RegionWidth(m.width, dialog), w, position.halign),
       y |-> Start(0, m.height, Third(m.height), h, position.valign)]

\* The dialog is taken to be as high as its monitor.
DialogRect(at, size) ==
  LET m == monitors[at]
  IN  [width |-> size, height |-> m.height, x |-> m.x + (m.width - size) \div 2, y |-> 0]

\* Mutant of Drawn: each of them from all positions.
DrawnWithRepetition(F) == [F -> PositionInfo]

\* The positions the floaters may draw, no two the same one.
Drawn(F) == {p \in [F -> PositionInfo] : \A f, g \in F : f # g => p[f] # p[g]}

\* Where the floaters go next, if they have to move; awake it makes no difference.
NextPositions ==
  LET F == DOMAIN floaters
  IN  IF allow_floating /\ floaters_need_update /\ ~awake THEN Drawn(F)
      ELSE {[f \in F |-> floaters[f].next]}

\* A floater at p, and where it looked the mouse was at m: apply_next_position and
\* set_awake_position.
Applied(f, p, m) ==
  IF awake THEN [next |-> AwakePosition(f, m), current |-> AwakePosition(f, m)]
  ELSE [next |-> p, current |-> IF allow_floating THEN p ELSE floaters[f].current]

\* Where each of them sees the mouse, which may cross from monitor to monitor meanwhile;
\* they look for it only when awake.
Seen(F) == IF awake THEN [F -> Monitors] ELSE {[f \in F |-> mouse]}

\* The overlay is laid out.
Layout ==
  LET F == DOMAIN floaters
  IN  /\ layout
      /\ layout' = FALSE
      /\ \E next \in NextPositions, seen \in Seen(F), at \in Monitors :
           /\ ~awake => at = mouse
           /\ floaters' = [f \in F |-> Applied(f, next[f], seen[f])]
           /\ placed' = [floaters |-> F, dialog |-> IF awake THEN at ELSE Hidden, awake |-> awake]
      /\ floaters_need_update' = (floaters_need_update /\ ~(allow_floating /\ F # {}))
      /\ UNCHANGED <<monitors, allow_floating, mouse, last_focus_monitor, awake, floatTimer>>

-----------------------------------------------------------------------------
(* The stage. *)

\* A floater is set up at its awake position on the monitor of the mouse, and shown.
SetupFloater(f) ==
  LET p == AwakePosition(f, mouse)
  IN  floaters' = [g \in DOMAIN floaters \cup {f} |->
                     IF g = f THEN [next |-> p, current |-> p] ELSE floaters[g]]

SetupClock ==
  /\ "clock" \notin DOMAIN floaters /\ "albumart" \notin DOMAIN floaters
  /\ SetupFloater("clock")
  /\ layout' = TRUE
  /\ UNCHANGED <<monitors, allow_floating, mouse, last_focus_monitor, awake, floatTimer>>
  /\ UNCHANGED <<floaters_need_update, placed>>

\* setup_delayed_components, which starts to float even if it has become awake before.
SetupDelayedComponents ==
  /\ "albumart" \notin DOMAIN floaters
  /\ SetupFloater("albumart")
  /\ floatTimer' = allow_floating
  /\ layout' = TRUE
  /\ UNCHANGED <<monitors, allow_floating, mouse, last_focus_monitor, awake>>
  /\ UNCHANGED <<floaters_need_update, placed>>

\* The interval of the timer is longer than the delay of the delayed components.
UpdateFloaters ==
  /\ floatTimer /\ "albumart" \in DOMAIN floaters
  /\ floaters_need_update' = TRUE
  /\ layout' = TRUE
  /\ UNCHANGED <<monitors, allow_floating, mouse, last_focus_monitor, awake, floaters>>
  /\ UNCHANGED <<floatTimer, placed>>

\* raise_unlock_widget: the pointer goes to the primary monitor.
Raise ==
  /\ ~awake
  /\ awake' = TRUE
  /\ mouse' = 0
  /\ floatTimer' = FALSE /\ floaters_need_update' = FALSE
  /\ layout' = TRUE
  /\ UNCHANGED <<monitors, allow_floating, last_focus_monitor, floaters, placed>>

\* cancel_unlocking: the dialog goes at once, and floating starts.
Cancel ==
  /\ awake
  /\ awake' = FALSE
  /\ placed' = [placed EXCEPT !.dialog = Hidden]
  /\ floatTimer' = (floatTimer \/ allow_floating)
  /\ layout' = TRUE
  /\ UNCHANGED <<monitors, allow_floating, mouse, last_focus_monitor, floaters>>
  /\ UNCHANGED floaters_need_update

MouseMoves ==
  /\ mouse' \in Monitors \ {mouse}
  /\ UNCHANGED <<monitors, allow_floating, last_focus_monitor, awake, floaters>>
  /\ UNCHANGED <<floatTimer, floaters_need_update, layout, placed>>

\* maybe_update_layout, on an event of the user.
MaybeUpdateLayout ==
  /\ last_focus_monitor # mouse
  /\ last_focus_monitor' = mouse
  /\ layout' = (layout \/ last_focus_monitor # -1)
  /\ UNCHANGED <<monitors, allow_floating, mouse, awake, floaters>>
  /\ UNCHANGED <<floatTimer, floaters_need_update, placed>>

\* A label or an image becomes larger or smaller.
Resized ==
  /\ DOMAIN floaters # {} /\ ~layout
  /\ layout' = TRUE
  /\ UNCHANGED <<monitors, allow_floating, mouse, last_focus_monitor, awake, floaters>>
  /\ UNCHANGED <<floatTimer, floaters_need_update, placed>>

OverlayNext ==
  \/ Layout \/ SetupClock \/ SetupDelayedComponents \/ UpdateFloaters
  \/ Raise \/ Cancel \/ MouseMoves \/ MaybeUpdateLayout \/ Resized

-----------------------------------------------------------------------------
(* Properties. *)

\* Every variable has its type.
OverlayTypeOK ==
  /\ allow_floating \in BOOLEAN /\ awake \in BOOLEAN
  /\ mouse \in Monitors /\ last_focus_monitor \in Monitors \cup {-1}
  /\ placed \in [floaters : SUBSET Floaters, dialog : Monitors \cup {Hidden}, awake : BOOLEAN]
  /\ floatTimer \in BOOLEAN /\ floaters_need_update \in BOOLEAN /\ layout \in BOOLEAN
  /\ DOMAIN floaters \subseteq Floaters
  /\ \A f \in DOMAIN floaters : floaters[f] \in [next : PositionInfo, current : PositionInfo]

Apart(a, b) ==
  \/ a.x + a.width <= b.x \/ b.x + b.width <= a.x
  \/ a.y + a.height <= b.y \/ b.y + b.height <= a.y

Inside(r, m) ==
  /\ r.x >= m.x /\ r.x + r.width <= m.x + m.width
  /\ r.y >= 0 /\ r.y + r.height <= m.height

\* No floater covers the other one or the dialog, and each is on one monitor, to the last
\* pixel, wherever the mouse goes and whatever the widgets want: while they float, beside
\* a dialog of any width, and when they float on after it.
NothingOverlaps ==
  \A d \in DialogSizes, size \in [placed.floaters -> FloaterSizes] :
    LET rect == [f \in placed.floaters |-> FloaterRect(floaters[f].current, size[f], d)]
    IN  /\ \A f \in placed.floaters :
             /\ Inside(rect[f], monitors[floaters[f].current.monitor])
             /\ placed.dialog # Hidden => Apart(rect[f], DialogRect(placed.dialog, d))
        /\ \A f, g \in placed.floaters : f # g => Apart(rect[f], rect[g])
=============================================================================
