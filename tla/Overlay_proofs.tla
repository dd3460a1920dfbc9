---------------------------- MODULE Overlay_proofs ----------------------------
(***************************************************************************)
(* No widget of the overlay covers another one, for monitors, dialogs and  *)
(* floaters of any size.                                                   *)
(***************************************************************************)
EXTENDS Overlay, TLAPS

-----------------------------------------------------------------------------
(* One dimension. *)

\* A quotient by 24.
LEMMA Div24 ==
  ASSUME NEW n \in Int
  PROVE  n \div 24 \in Int /\ 24 * (n \div 24) <= n /\ n < 24 * (n \div 24) + 24
  OBVIOUS

\* A quotient by 12.
LEMMA Div12 ==
  ASSUME NEW n \in Int
  PROVE  n \div 12 \in Int /\ 12 * (n \div 12) <= n /\ n < 12 * (n \div 12) + 12
  OBVIOUS

\* A quotient by 2.
LEMMA Div2 ==
  ASSUME NEW n \in Int
  PROVE  n \div 2 \in Int /\ 2 * (n \div 2) <= n /\ n < 2 * (n \div 2) + 2
  OBVIOUS

\* What is fitted into a region of r twelfths fits.
LEMMA FittedFits ==
  ASSUME NEW r \in Nat, NEW s \in Nat
  PROVE  Fitted(s, r) \in Nat /\ 12 * Fitted(s, r) <= r
<1>1. r \div 12 \in Int /\ 12 * (r \div 12) <= r /\ r < 12 * (r \div 12) + 12
  BY Div12
<1> QED BY <1>1 DEF Fitted

\* Something of size w is at s along an extent e that begins at o, in a region of r
\* twelfths at its beginning or its end: inside the region, but for a part of a pixel at
\* the end.
Places(o, e, r, w, s, align) ==
  /\ s \in Int /\ o <= s /\ s + w <= o + e
  /\ align = "start" => 12 * (s + w - o) <= r
  /\ align = "end" => 24 * (o + e) - 12 * w - r < 24 * s + 24
  /\ align = "center" => e - w - 1 <= 2 * (s - o) /\ 2 * (s + w - o) <= e + w

\* That is where Start puts it.
LEMMA StartPlaces ==
  ASSUME NEW o \in Int, NEW e \in Nat, NEW r \in Nat, r <= 6 * e,
         NEW w \in Nat, 12 * w <= r, NEW align \in Alignments,
         NEW s, s = Start(o, e, r, w, align)
  PROVE  Places(o, e, r, w, s, align)
<1>1. CASE align = "start"
  <2> DEFINE q == (r - 12 * w) \div 24
  <2>1. q \in Int /\ 24 * q <= r - 12 * w /\ r - 12 * w < 24 * q + 24
    BY Div24
  <2>2. s = o + q
    BY <1>1 DEF Start
  <2> HIDE DEF q
  <2> QED BY <1>1, <2>1, <2>2 DEF Places
<1>2. CASE align = "center"
  <2> DEFINE q == (e - w) \div 2
  <2>1. q \in Int /\ 2 * q <= e - w /\ e - w < 2 * q + 2
    BY Div2
  <2>2. s = o + q
    BY <1>2 DEF Start
  <2> HIDE DEF q
  <2> QED BY <1>2, <2>1, <2>2 DEF Places
<1>3. CASE align = "end"
  <2> DEFINE x == 24 * (o + e - w) - (r - 12 * w)
             q == x \div 24
  <2>1. x \in Int
    OBVIOUS
  <2>2. q \in Int /\ 24 * q <= x /\ x < 24 * q + 24
    BY <2>1, Div24
  <2>3. s = q
    BY <1>3 DEF Start
  <2> HIDE DEF q
  <2> QED BY <1>3, <2>2, <2>3 DEF Places
<1> QED BY <1>1, <1>2, <1>3 DEF Alignments

\* Different thirds of an extent do not touch, however they are cut to pixels.
LEMMA ThirdsApart ==
  ASSUME NEW o \in Int, NEW e \in Nat, NEW r, r = 4 * e, NEW v \in Nat, NEW w \in Nat,
         12 * v <= r, 12 * w <= r, NEW a \in Alignments, NEW b \in Alignments, a # b,
         NEW s, Places(o, e, r, v, s, a), NEW t, Places(o, e, r, w, t, b)
  PROVE  s + v <= t \/ t + w <= s
<1>1. CASE a = "start"
  BY <1>1 DEF Alignments, Places
<1>2. CASE b = "start"
  BY <1>2 DEF Alignments, Places
<1>3. CASE a = "center" /\ b = "end"
  BY <1>3 DEF Places
<1>4. CASE a = "end" /\ b = "center"
  BY <1>4 DEF Places
<1> QED BY <1>1, <1>2, <1>3, <1>4 DEF Alignments

\* Nor do the beginning and the end of an extent.
LEMMA EndsApart ==
  ASSUME NEW o \in Int, NEW e \in Nat, NEW r \in Nat, r <= 6 * e, NEW v \in Nat, NEW w \in Nat,
         12 * w <= r, NEW s, Places(o, e, r, v, s, "start"), NEW t, Places(o, e, r, w, t, "end")
  PROVE  s + v <= t
BY DEF Places

-----------------------------------------------------------------------------
(* Rectangles. *)

\* The monitors are side by side.
MonitorsAdjoin ==
  /\ \A m \in Monitors :
       monitors[m].x \in Int /\ monitors[m].width \in Widths /\ monitors[m].height \in Heights
  /\ monitors[0].x + monitors[0].width = monitors[1].x

\* Beside a dialog there are up to the halves of its monitor.
LEMMA Regions ==
  ASSUME NEW e \in Widths, NEW d \in DialogSizes
  PROVE  /\ e \in Nat /\ d \in Nat /\ d <= e
         /\ RegionWidth(e, d) \in Nat /\ RegionWidth(e, d) <= 6 * e
         /\ ~placed.awake => RegionWidth(e, d) = 4 * e
         /\ placed.awake => RegionWidth(e, d) <= 6 * (e - d)
<1>1. e \in Nat /\ d \in Nat /\ d <= e
  BY SizesAssumption
<1> QED BY <1>1 DEF RegionWidth, Third

\* A rectangle has coordinates.
Rectangular(r) == r.x \in Int /\ r.y \in Int /\ r.width \in Nat /\ r.height \in Nat

\* Where a floater is, across and down.
LEMMA FloaterPlaces ==
  ASSUME MonitorsAdjoin, NEW p \in PositionInfo, NEW s \in FloaterSizes, NEW d \in DialogSizes,
         NEW m, m = monitors[p.monitor], NEW r, r = FloaterRect(p, s, d)
  PROVE  /\ m.x \in Int /\ m.width \in Widths /\ m.width \in Nat /\ m.height \in Nat
         /\ Rectangular(r) /\ 12 * r.width <= RegionWidth(m.width, d)
         /\ 12 * r.height <= 4 * m.height
         /\ Places(m.x, m.width, RegionWidth(m.width, d), r.width, r.x, p.halign)
         /\ Places(0, m.height, 4 * m.height, r.height, r.y, p.valign)
         /\ Inside(r, m)
<1> DEFINE rw == RegionWidth(m.width, d)
           rh == 4 * m.height
           w  == Fitted(s, rw)
           h  == Fitted(s, rh)
           x  == Start(m.x, m.width, rw, w, p.halign)
           y  == Start(0, m.height, rh, h, p.valign)
<1>1. p.monitor \in Monitors /\ p.halign \in Alignments /\ p.valign \in Alignments
  BY DEF PositionInfo
<1>2. m.x \in Int /\ m.width \in Widths /\ m.height \in Nat /\ m.width \in Nat /\ s \in Nat
  BY <1>1, SizesAssumption DEF MonitorsAdjoin
<1>3. rw \in Nat /\ rw <= 6 * m.width
  BY <1>2, Regions
<1>4. r.width = w /\ r.height = h /\ r.x = x /\ r.y = y
  BY DEF FloaterRect, Third
<1>5. rh \in Nat /\ rh <= 6 * m.height
  BY <1>2
<1> SUFFICES /\ Rectangular(r) /\ 12 * r.width <= rw /\ 12 * r.height <= rh
             /\ Places(m.x, m.width, rw, r.width, r.x, p.halign)
             /\ Places(0, m.height, rh, r.height, r.y, p.valign)
             /\ Inside(r, m)
  BY <1>2
<1> HIDE DEF rw, rh
<1>6. w \in Nat /\ 12 * w <= rw
  BY <1>2, <1>3, FittedFits
<1>7. h \in Nat /\ 12 * h <= rh
  BY <1>2, <1>5, FittedFits
<1> HIDE DEF w, h
<1>8. Places(m.x, m.width, rw, w, x, p.halign)
  BY <1>1, <1>2, <1>3, <1>6, StartPlaces
<1>9. Places(0, m.height, rh, h, y, p.valign)
  BY <1>1, <1>2, <1>5, <1>7, StartPlaces
<1> HIDE DEF x, y
<1>10. x \in Int /\ m.x <= x /\ x + w <= m.x + m.width
       /\ y \in Int /\ 0 <= y /\ y + h <= m.height
  BY <1>2, <1>6, <1>7, <1>8, <1>9 DEF Places
<1>11. Inside(r, m) /\ Rectangular(r)
  BY <1>2, <1>4, <1>6, <1>7, <1>10 DEF Inside, Rectangular
<1> QED BY <1>4, <1>6, <1>7, <1>8, <1>9, <1>11

\* What is inside different monitors is apart.
LEMMA MonitorsApart ==
  ASSUME MonitorsAdjoin, NEW m \in Monitors, NEW n \in Monitors, m # n, NEW a, NEW b,
         a.x \in Int, b.x \in Int, a.width \in Int, b.width \in Int,
         monitors[m].x <= a.x, a.x + a.width <= monitors[m].x + monitors[m].width,
         monitors[n].x <= b.x, b.x + b.width <= monitors[n].x + monitors[n].width
  PROVE  Apart(a, b)
<1>1. /\ monitors[0].x \in Int /\ monitors[0].width \in Widths
      /\ monitors[1].x \in Int /\ monitors[1].width \in Widths
      /\ monitors[0].x + monitors[0].width = monitors[1].x
  BY DEF MonitorsAdjoin, Monitors
<1>2. monitors[0].width \in Int /\ monitors[1].width \in Int
  <2>1. \A w \in Widths : w \in Int
    BY SizesAssumption
  <2> QED BY <1>1, <2>1
<1>3. CASE m = 0 /\ n = 1
  BY <1>1, <1>2, <1>3 DEF Apart
<1>4. CASE m = 1 /\ n = 0
  BY <1>1, <1>2, <1>4 DEF Apart
<1> QED BY <1>3, <1>4 DEF Monitors

\* Floaters in different places are apart, in ninths of monitors or beside a dialog.
LEMMA FloatersApart ==
  ASSUME MonitorsAdjoin, NEW p \in PositionInfo, NEW q \in PositionInfo, p # q,
         NEW s \in FloaterSizes, NEW t \in FloaterSizes, NEW d \in DialogSizes,
         placed.awake => \/ p.halign = "start" /\ q.halign = "end"
                         \/ p.halign = "end" /\ q.halign = "start",
         NEW a, a = FloaterRect(p, s, d), NEW b, b = FloaterRect(q, t, d)
  PROVE  Apart(a, b)
<1>1. /\ p.monitor \in Monitors /\ p.halign \in Alignments /\ p.valign \in Alignments
      /\ q.monitor \in Monitors /\ q.halign \in Alignments /\ q.valign \in Alignments
  BY DEF PositionInfo
<1>2. PICK m : m = monitors[p.monitor]
  OBVIOUS
<1>3. PICK rw : rw = RegionWidth(m.width, d)
  OBVIOUS
<1>4. /\ m.x \in Int /\ m.width \in Widths /\ m.width \in Nat /\ m.height \in Nat
      /\ Rectangular(a) /\ 12 * a.width <= rw /\ 12 * a.height <= 4 * m.height
      /\ Places(m.x, m.width, rw, a.width, a.x, p.halign)
      /\ Places(0, m.height, 4 * m.height, a.height, a.y, p.valign)
      /\ Inside(a, m)
  BY <1>2, <1>3, FloaterPlaces
<1>5. CASE p.monitor # q.monitor
  <2>1. PICK n : n = monitors[q.monitor]
    OBVIOUS
  <2>2. Rectangular(b) /\ Inside(b, n)
    BY <2>1, FloaterPlaces
  <2> QED BY <1>1, <1>2, <1>4, <1>5, <2>1, <2>2, MonitorsApart DEF Inside, Rectangular
<1>6. CASE p.monitor = q.monitor
  <2>1. /\ Rectangular(b) /\ 12 * b.width <= rw /\ 12 * b.height <= 4 * m.height
        /\ Places(m.x, m.width, rw, b.width, b.x, q.halign)
        /\ Places(0, m.height, 4 * m.height, b.height, b.y, q.valign)
    BY <1>2, <1>3, <1>6, FloaterPlaces
  <2>2. rw \in Nat /\ rw <= 6 * m.width /\ (~placed.awake => rw = 4 * m.width)
    BY <1>3, <1>4, Regions
  <2>3. a.width \in Nat /\ b.width \in Nat /\ a.height \in Nat /\ b.height \in Nat
    BY <1>4, <2>1 DEF Rectangular
  <2>4. CASE p.halign = "start" /\ q.halign = "end"
    <3>1. a.x + a.width <= b.x
      <4>1. /\ Places(m.x, m.width, rw, a.width, a.x, "start")
            /\ Places(m.x, m.width, rw, b.width, b.x, "end")
        BY <1>4, <2>1, <2>4
      <4> QED BY <1>4, <2>1, <2>2, <2>3, <4>1, EndsApart
    <3> QED BY <3>1 DEF Apart
  <2>5. CASE p.halign = "end" /\ q.halign = "start"
    <3>1. b.x + b.width <= a.x
      <4>1. /\ Places(m.x, m.width, rw, b.width, b.x, "start")
            /\ Places(m.x, m.width, rw, a.width, a.x, "end")
        BY <1>4, <2>1, <2>5
      <4> QED BY <1>4, <2>1, <2>2, <2>3, <4>1, EndsApart
    <3> QED BY <3>1 DEF Apart
  <2>6. CASE ~placed.awake /\ p.halign # q.halign
    <3>1. a.x + a.width <= b.x \/ b.x + b.width <= a.x
      BY <1>1, <1>4, <2>1, <2>2, <2>3, <2>6, ThirdsApart
    <3> QED BY <3>1 DEF Apart
  <2>7. CASE p.halign = q.halign
    <3>1. p.valign # q.valign
      BY <1>6, <2>7 DEF PositionInfo
    <3>2. a.y + a.height <= b.y \/ b.y + b.height <= a.y
      <4>1. PICK rh : rh = 4 * m.height
        OBVIOUS
      <4>2. PICK o \in Int : o = 0
        OBVIOUS
      <4>3. /\ Places(o, m.height, rh, a.height, a.y, p.valign)
            /\ Places(o, m.height, rh, b.height, b.y, q.valign)
            /\ 12 * a.height <= rh /\ 12 * b.height <= rh
        BY <1>4, <2>1, <4>1, <4>2
      <4> QED BY <1>1, <1>4, <2>3, <3>1, <4>1, <4>3, ThirdsApart
    <3> QED BY <3>2 DEF Apart
  <2> QED BY <2>4, <2>5, <2>6, <2>7
<1> QED BY <1>5, <1>6

\* A floater beside the dialog is apart from it.
LEMMA DialogApart ==
  ASSUME MonitorsAdjoin, NEW p \in PositionInfo, NEW s \in FloaterSizes, NEW d \in DialogSizes,
         NEW at \in Monitors, placed.awake, p.halign \in {"start", "end"},
         NEW a, a = FloaterRect(p, s, d), NEW b, b = DialogRect(at, d)
  PROVE  Apart(a, b)
<1>1. p.monitor \in Monitors
  BY DEF PositionInfo
<1>2. PICK n : n = monitors[at]
  OBVIOUS
<1>3. n.x \in Int /\ n.width \in Widths /\ n.width \in Nat /\ d \in Nat /\ d <= n.width
  BY <1>2, SizesAssumption DEF MonitorsAdjoin
<1>4. PICK q : q = (n.width - d) \div 2
  OBVIOUS
<1>5. q \in Int /\ 2 * q <= n.width - d /\ n.width - d < 2 * q + 2
  BY <1>3, <1>4, Div2
<1>6. b.x = n.x + q /\ b.width = d
  BY <1>2, <1>4 DEF DialogRect
<1>7. b.x \in Int /\ n.x <= b.x /\ b.x + b.width <= n.x + n.width
  BY <1>3, <1>5, <1>6
<1>8. CASE p.monitor # at
  <2>1. PICK m : m = monitors[p.monitor]
    OBVIOUS
  <2>2. Rectangular(a) /\ Inside(a, m)
    BY <2>1, FloaterPlaces
  <2> QED BY <1>1, <1>2, <1>3, <1>6, <1>7, <1>8, <2>1, <2>2, MonitorsApart DEF Inside, Rectangular
<1>9. CASE p.monitor = at
  <2>1. PICK rw : rw = RegionWidth(n.width, d)
    OBVIOUS
  <2>2. Rectangular(a) /\ 12 * a.width <= rw /\ Places(n.x, n.width, rw, a.width, a.x, p.halign)
    BY <1>2, <1>9, <2>1, FloaterPlaces
  <2>3. rw \in Nat /\ rw <= 6 * (n.width - d)
    BY <1>3, <2>1, Regions
  <2>4. a.x \in Int /\ a.width \in Nat
    BY <2>2 DEF Rectangular
  <2>5. CASE p.halign = "start"
    <3>1. 12 * (a.x + a.width - n.x) <= rw
      BY <2>2, <2>5 DEF Places
    <3>2. a.x + a.width <= b.x
      BY <1>3, <1>5, <1>6, <2>3, <2>4, <3>1
    <3> QED BY <3>2 DEF Apart
  <2>6. CASE p.halign = "end"
    <3>1. 24 * (n.x + n.width) - 12 * a.width - rw < 24 * a.x + 24
      BY <2>2, <2>6 DEF Places
    <3>2. b.x + b.width <= a.x
      BY <1>3, <1>5, <1>6, <2>2, <2>3, <2>4, <3>1
    <3> QED BY <3>2 DEF Apart
  <2> QED BY <2>5, <2>6
<1> QED BY <1>8, <1>9

-----------------------------------------------------------------------------
(* The states. *)

\* No two floaters are in one place, nor will be.
Distinct ==
  \A f, g \in DOMAIN floaters :
    f # g => /\ floaters[f].next # floaters[g].next
             /\ floaters[f].current # floaters[g].current

\* Until the album art is set up, the clock is left of where the dialog would be.
ClockFirst ==
  "albumart" \notin DOMAIN floaters =>
    /\ ~floaters_need_update
    /\ \A f \in DOMAIN floaters :
         floaters[f].next.halign = "start" /\ floaters[f].current.halign = "start"

\* Those that were laid out awake are still beside the dialog.
PlacedBeside ==
  /\ placed.floaters \subseteq DOMAIN floaters
  /\ placed.dialog # Hidden => placed.awake
  /\ placed.awake => \A f \in placed.floaters :
                       floaters[f].current.halign = IF f = "clock" THEN "start" ELSE "end"

OverlayInv == OverlayTypeOK /\ MonitorsAdjoin /\ Distinct /\ ClockFirst /\ PlacedBeside

\* What an awake position is.
LEMMA AwakePositions ==
  ASSUME NEW f \in Floaters, NEW m \in Monitors
  PROVE  /\ AwakePosition(f, m) \in PositionInfo
         /\ AwakePosition(f, m).halign = IF f = "clock" THEN "start" ELSE "end"
BY DEF AwakePosition, PositionInfo, Alignments

\* The positions that floaters go to are of their type and not the same one.
LEMMA NextAreDistinct ==
  ASSUME OverlayInv, NEW next \in NextPositions
  PROVE  /\ \A f \in DOMAIN floaters : next[f] \in PositionInfo
         /\ \A f, g \in DOMAIN floaters : f # g => next[f] # next[g]
         /\ "albumart" \notin DOMAIN floaters =>
              \A f \in DOMAIN floaters : next[f].halign = "start"
<1>1. CASE allow_floating /\ floaters_need_update /\ ~awake
  <2>1. next \in Drawn(DOMAIN floaters)
    BY <1>1 DEF NextPositions
  <2>2. "albumart" \in DOMAIN floaters
    BY <1>1 DEF OverlayInv, ClockFirst
  <2> QED BY <2>1, <2>2 DEF Drawn
<1>2. CASE ~(allow_floating /\ floaters_need_update /\ ~awake)
  <2>1. next = [f \in DOMAIN floaters |-> floaters[f].next]
    BY <1>2 DEF NextPositions
  <2>2. \A f \in DOMAIN floaters : next[f] = floaters[f].next
    BY <2>1
  <2>3. \A f \in DOMAIN floaters : floaters[f].next \in PositionInfo
    BY DEF OverlayInv, OverlayTypeOK
  <2>4. \A f, g \in DOMAIN floaters : f # g => floaters[f].next # floaters[g].next
    BY DEF OverlayInv, Distinct
  <2>5. "albumart" \notin DOMAIN floaters =>
          \A f \in DOMAIN floaters : floaters[f].next.halign = "start"
    BY DEF OverlayInv, ClockFirst
  <2> QED BY <2>2, <2>3, <2>4, <2>5
<1> QED BY <1>1, <1>2

\* The overlay is laid out anew.
LEMMA LayoutStep == OverlayInv /\ Layout => OverlayInv'
<1> SUFFICES ASSUME OverlayInv, Layout PROVE OverlayInv'
  OBVIOUS
<1> DEFINE F == DOMAIN floaters
<1>1. PICK next \in NextPositions, seen \in Seen(F), at \in Monitors :
        /\ floaters' = [f \in F |-> Applied(f, next[f], seen[f])]
        /\ placed' = [floaters |-> F, dialog |-> IF awake THEN at ELSE Hidden, awake |-> awake]
  BY DEF Layout
<1>2. DOMAIN floaters' = F /\ \A f \in F : floaters'[f] = Applied(f, next[f], seen[f])
  BY <1>1
<1>3. \A f \in F : f \in Floaters
  BY DEF OverlayInv, OverlayTypeOK
<1>4. mouse \in Monitors
  BY DEF OverlayInv, OverlayTypeOK
<1>5. \A f \in F : seen[f] \in Monitors
  BY <1>1, <1>4 DEF Seen
<1>6. /\ \A f \in F : next[f] \in PositionInfo
      /\ \A f, g \in F : f # g => next[f] # next[g]
      /\ "albumart" \notin F => \A f \in F : next[f].halign = "start"
  BY <1>1, NextAreDistinct
<1>7. /\ \A f \in F : floaters[f].next \in PositionInfo /\ floaters[f].current \in PositionInfo
      /\ \A f, g \in F : f # g => floaters[f].current # floaters[g].current
      /\ "albumart" \notin F => \A f \in F : floaters[f].current.halign = "start"
  BY DEF OverlayInv, OverlayTypeOK, Distinct, ClockFirst
<1>8. UNCHANGED <<monitors, allow_floating, mouse, last_focus_monitor, awake, floatTimer>>
      /\ layout' = FALSE
      /\ floaters_need_update' = (floaters_need_update /\ ~(allow_floating /\ F # {}))
  BY DEF Layout
<1>9. CASE awake
  <2>1. \A f \in F : /\ floaters'[f] = [next |-> AwakePosition(f, seen[f]),
                                        current |-> AwakePosition(f, seen[f])]
                     /\ AwakePosition(f, seen[f]) \in PositionInfo
                     /\ AwakePosition(f, seen[f]).halign = IF f = "clock" THEN "start" ELSE "end"
    BY <1>2, <1>3, <1>5, <1>9, AwakePositions DEF Applied
  <2>2. \A f \in F : /\ floaters'[f] \in [next : PositionInfo, current : PositionInfo]
                     /\ floaters'[f].next.halign = IF f = "clock" THEN "start" ELSE "end"
                     /\ floaters'[f].current.halign = IF f = "clock" THEN "start" ELSE "end"
    <3> TAKE f \in F
    <3>1. PICK q \in PositionInfo : q = AwakePosition(f, seen[f])
      BY <2>1
    <3>2. /\ floaters'[f] = [next |-> q, current |-> q]
          /\ q.halign = IF f = "clock" THEN "start" ELSE "end"
      BY <2>1, <3>1
    <3>3. floaters'[f].next = q /\ floaters'[f].current = q
      BY <3>2
    <3>4. floaters'[f] \in [next : PositionInfo, current : PositionInfo]
      BY <3>2
    <3> QED BY <3>2, <3>3, <3>4
  <2>3. \A f, g \in F : f # g => /\ floaters'[f].next # floaters'[g].next
                                 /\ floaters'[f].current # floaters'[g].current
    BY <1>3, <2>2 DEF Floaters
  <2>4. OverlayTypeOK'
    BY <1>1, <1>2, <1>8, <1>9, <2>2 DEF OverlayInv, OverlayTypeOK, Monitors, Hidden
  <2>5. MonitorsAdjoin'
    BY <1>8 DEF OverlayInv, MonitorsAdjoin
  <2>6. Distinct'
    BY <1>2, <2>3 DEF Distinct
  <2>7. ClockFirst'
    BY <1>2, <1>3, <1>8, <2>2 DEF OverlayInv, ClockFirst, Floaters
  <2>8. PlacedBeside'
    BY <1>1, <1>2, <1>9, <2>2 DEF PlacedBeside
  <2> QED BY <2>4, <2>5, <2>6, <2>7, <2>8 DEF OverlayInv
<1>10. CASE ~awake
  <2>1. \A f \in F : floaters'[f] = [next |-> next[f],
                                     current |-> IF allow_floating THEN next[f]
                                                 ELSE floaters[f].current]
    BY <1>2, <1>10 DEF Applied
  <2>2. \A f \in F : /\ floaters'[f] \in [next : PositionInfo, current : PositionInfo]
                     /\ floaters'[f].next = next[f]
                     /\ floaters'[f].current = IF allow_floating THEN next[f]
                                               ELSE floaters[f].current
    <3> TAKE f \in F
    <3>1. PICK q \in PositionInfo : q = next[f]
      BY <1>6
    <3>2. PICK c \in PositionInfo : c = IF allow_floating THEN next[f] ELSE floaters[f].current
      BY <1>6, <1>7
    <3>3. floaters'[f] = [next |-> q, current |-> c]
      BY <2>1, <3>1, <3>2
    <3>4. floaters'[f].next = q /\ floaters'[f].current = c
      BY <3>3
    <3>5. floaters'[f] \in [next : PositionInfo, current : PositionInfo]
      BY <3>3
    <3> QED BY <3>1, <3>2, <3>4, <3>5
  <2>3. \A f, g \in F : f # g => /\ floaters'[f].next # floaters'[g].next
                                 /\ floaters'[f].current # floaters'[g].current
    BY <1>6, <1>7, <2>2
  <2>4. OverlayTypeOK'
    BY <1>1, <1>2, <1>8, <1>10, <2>2 DEF OverlayInv, OverlayTypeOK, Monitors, Hidden
  <2>5. MonitorsAdjoin'
    BY <1>8 DEF OverlayInv, MonitorsAdjoin
  <2>6. Distinct'
    BY <1>2, <2>3 DEF Distinct
  <2>7. ClockFirst'
    <3>1. "albumart" \notin F => ~floaters_need_update
      BY DEF OverlayInv, ClockFirst
    <3>2. "albumart" \notin F => \A f \in F : /\ floaters'[f].next.halign = "start"
                                              /\ floaters'[f].current.halign = "start"
      BY <1>6, <1>7, <2>2
    <3> QED BY <1>2, <1>8, <3>1, <3>2 DEF ClockFirst
  <2>8. PlacedBeside'
    BY <1>1, <1>2, <1>10 DEF PlacedBeside
  <2> QED BY <2>4, <2>5, <2>6, <2>7, <2>8 DEF OverlayInv
<1> QED BY <1>9, <1>10

\* A floater is set up beside the dialog, with the clock first.
LEMMA SetupStep ==
  ASSUME OverlayInv, NEW f \in Floaters, f \notin DOMAIN floaters, SetupFloater(f),
         f = "clock" => "albumart" \notin DOMAIN floaters,
         UNCHANGED <<monitors, allow_floating, mouse, last_focus_monitor, awake,
                     floaters_need_update, placed>>,
         floatTimer' \in BOOLEAN, layout' \in BOOLEAN
  PROVE  OverlayInv'
<1> DEFINE p == AwakePosition(f, mouse)
<1>1. mouse \in Monitors
  BY DEF OverlayInv, OverlayTypeOK
<1>2. p \in PositionInfo /\ p.halign = IF f = "clock" THEN "start" ELSE "end"
  BY <1>1, AwakePositions
<1>3. /\ DOMAIN floaters' = DOMAIN floaters \cup {f}
      /\ floaters'[f] = [next |-> p, current |-> p]
      /\ \A g \in DOMAIN floaters : g # f /\ floaters'[g] = floaters[g]
  BY DEF SetupFloater
<1> HIDE DEF p
<1>4. OverlayTypeOK'
  BY <1>2, <1>3 DEF OverlayInv, OverlayTypeOK
<1>5. MonitorsAdjoin'
  BY DEF OverlayInv, MonitorsAdjoin
<1>6. \A g \in DOMAIN floaters : floaters[g].next # p /\ floaters[g].current # p
  <2>1. CASE f = "clock"
    <3>1. DOMAIN floaters = {}
      BY <2>1 DEF OverlayInv, OverlayTypeOK, Floaters
    <3> QED BY <3>1
  <2>2. CASE f = "albumart"
    BY <1>2, <2>2 DEF OverlayInv, ClockFirst
  <2> QED BY <2>1, <2>2 DEF Floaters
<1>7. Distinct'
  <2> SUFFICES ASSUME NEW g \in DOMAIN floaters', NEW h \in DOMAIN floaters', g # h
               PROVE  /\ floaters'[g].next # floaters'[h].next
                      /\ floaters'[g].current # floaters'[h].current
    BY DEF Distinct
  <2>1. CASE g = f
    BY <1>3, <1>6, <2>1
  <2>2. CASE h = f
    BY <1>3, <1>6, <2>2
  <2>3. CASE g # f /\ h # f
    BY <1>3, <2>3 DEF OverlayInv, Distinct
  <2> QED BY <2>1, <2>2, <2>3
<1>8. ClockFirst'
  BY <1>2, <1>3 DEF OverlayInv, ClockFirst, Floaters
<1>9. PlacedBeside'
  BY <1>3 DEF OverlayInv, PlacedBeside
<1> QED BY <1>4, <1>5, <1>7, <1>8, <1>9 DEF OverlayInv

\* Every step of the overlay keeps them.
LEMMA OverlayStep == OverlayInv /\ [OverlayNext]_overlayVars => OverlayInv'
<1> SUFFICES ASSUME OverlayInv, [OverlayNext]_overlayVars PROVE OverlayInv'
  OBVIOUS
<1> USE DEF OverlayInv, OverlayTypeOK, MonitorsAdjoin, Distinct, ClockFirst, PlacedBeside
<1>1. CASE Layout
  BY <1>1, LayoutStep
<1>2. CASE SetupClock
  BY <1>2, SetupStep DEF SetupClock, Floaters
<1>3. CASE SetupDelayedComponents
  BY <1>3, SetupStep DEF SetupDelayedComponents, Floaters
<1>4. CASE UpdateFloaters
  BY <1>4 DEF UpdateFloaters
<1>5. CASE Raise
  <2>1. OverlayTypeOK'
    BY <1>5 DEF Raise, Monitors
  <2>2. MonitorsAdjoin' /\ Distinct' /\ ClockFirst' /\ PlacedBeside'
    BY <1>5 DEF Raise
  <2> QED BY <2>1, <2>2
<1>6. CASE Cancel
  <2>1. /\ placed' \in [floaters : SUBSET Floaters, dialog : {Hidden}, awake : BOOLEAN]
        /\ placed'.dialog = Hidden /\ placed'.floaters = placed.floaters
        /\ placed'.awake = placed.awake
    BY <1>6 DEF Cancel
  <2>2. OverlayTypeOK'
    BY <1>6, <2>1 DEF Cancel
  <2>3. MonitorsAdjoin' /\ Distinct' /\ ClockFirst'
    BY <1>6 DEF Cancel
  <2>4. PlacedBeside'
    BY <1>6, <2>1 DEF Cancel
  <2> QED BY <2>2, <2>3, <2>4
<1>7. CASE MouseMoves
  BY <1>7 DEF MouseMoves
<1>8. CASE MaybeUpdateLayout
  BY <1>8 DEF MaybeUpdateLayout
<1>9. CASE Resized
  BY <1>9 DEF Resized
<1>10. CASE UNCHANGED overlayVars
  BY <1>10 DEF overlayVars
<1> QED BY <1>1, <1>2, <1>3, <1>4, <1>5, <1>6, <1>7, <1>8, <1>9, <1>10 DEF OverlayNext

\* Its first states.
LEMMA OverlayFirst == OverlayInit => OverlayInv
<1> SUFFICES ASSUME OverlayInit PROVE OverlayInv
  OBVIOUS
<1>1. PICK w \in [Monitors -> Widths], h \in Heights :
        monitors = [m \in Monitors |-> [x |-> IF m = 0 THEN 0 ELSE w[0], width |-> w[m], height |-> h]]
  BY DEF OverlayInit
<1>2. w[0] \in Widths /\ w[1] \in Widths /\ w[0] \in Int
  <2>1. w[0] \in Widths /\ w[1] \in Widths
    BY DEF Monitors
  <2>2. \A x \in Widths : x \in Int
    BY SizesAssumption
  <2> QED BY <2>1, <2>2
<1>3. /\ monitors[0] = [x |-> 0, width |-> w[0], height |-> h]
      /\ monitors[1] = [x |-> w[0], width |-> w[1], height |-> h]
  BY <1>1 DEF Monitors
<1>4. MonitorsAdjoin
  BY <1>2, <1>3 DEF MonitorsAdjoin, Monitors
<1>5. DOMAIN floaters = {}
  BY DEF OverlayInit
<1>6. OverlayTypeOK
  BY <1>5 DEF OverlayInit, OverlayTypeOK, Monitors, Hidden
<1>7. Distinct /\ ClockFirst /\ PlacedBeside
  BY <1>5 DEF OverlayInit, Distinct, ClockFirst, PlacedBeside
<1> QED BY <1>4, <1>6, <1>7 DEF OverlayInv

\* Widgets in those places do not overlap.
LEMMA OverlayClaims == OverlayInv => OverlayTypeOK /\ NothingOverlaps
<1> SUFFICES ASSUME OverlayInv PROVE NothingOverlaps
  BY DEF OverlayInv
<1> SUFFICES ASSUME NEW d \in DialogSizes, NEW size \in [placed.floaters -> FloaterSizes]
             PROVE  LET rect == [f \in placed.floaters |->
                                   FloaterRect(floaters[f].current, size[f], d)]
                    IN  /\ \A f \in placed.floaters :
                             /\ Inside(rect[f], monitors[floaters[f].current.monitor])
                             /\ placed.dialog # Hidden =>
                                  Apart(rect[f], DialogRect(placed.dialog, d))
                        /\ \A f, g \in placed.floaters : f # g => Apart(rect[f], rect[g])
  BY DEF NothingOverlaps
<1> DEFINE rect == [f \in placed.floaters |-> FloaterRect(floaters[f].current, size[f], d)]
<1>1. \A f \in placed.floaters :
        /\ f \in DOMAIN floaters /\ f \in Floaters
        /\ floaters[f].current \in PositionInfo /\ size[f] \in FloaterSizes
        /\ rect[f] = FloaterRect(floaters[f].current, size[f], d)
        /\ placed.awake => floaters[f].current.halign = IF f = "clock" THEN "start" ELSE "end"
  BY DEF OverlayInv, OverlayTypeOK, PlacedBeside
<1>2. MonitorsAdjoin
  BY DEF OverlayInv
<1> HIDE DEF rect
<1>3. \A f \in placed.floaters : Inside(rect[f], monitors[floaters[f].current.monitor])
  BY <1>1, <1>2, FloaterPlaces
<1>4. ASSUME NEW f \in placed.floaters, placed.dialog # Hidden
      PROVE  Apart(rect[f], DialogRect(placed.dialog, d))
  <2>1. placed.awake /\ placed.dialog \in Monitors
    BY <1>4 DEF OverlayInv, OverlayTypeOK, PlacedBeside
  <2>2. floaters[f].current.halign \in {"start", "end"}
    BY <1>1, <2>1
  <2> QED BY <1>1, <1>2, <2>1, <2>2, DialogApart
<1>5. ASSUME NEW f \in placed.floaters, NEW g \in placed.floaters, f # g
      PROVE  Apart(rect[f], rect[g])
  <2>1. floaters[f].current # floaters[g].current
    BY <1>1, <1>5 DEF OverlayInv, Distinct
  <2>2. placed.awake =>
          \/ floaters[f].current.halign = "start" /\ floaters[g].current.halign = "end"
          \/ floaters[f].current.halign = "end" /\ floaters[g].current.halign = "start"
    BY <1>1, <1>5 DEF Floaters
  <2> QED BY <1>1, <1>2, <2>1, <2>2, FloatersApart
<1> QED BY <1>3, <1>4, <1>5 DEF rect

=============================================================================
