---------------------------- MODULE Layouts_proofs ----------------------------
(***************************************************************************)
(* The icon of a password entry tells the layout in use, for any number of *)
(* entries, of those that were destroyed and still listen, and of changes  *)
(* that Cinnamon has not told of yet.                                      *)
(***************************************************************************)
EXTENDS Layouts, SequenceTheorems, TLAPS

Signals   == [kind : {"changed", "sources", "edited"}, layout : Indices]
Cinnamons == [layout : Indices, signals : Seq(Signals)]

\* The last signal that tells of a layout tells of the one that Cinnamon c has; if there is
\* none, the client, with a for the active layout, has been told.
Synced(c, a) ==
  \/ \E i \in 1 .. Len(c.signals) :
       /\ c.signals[i].kind # "edited" /\ c.signals[i].layout = c.layout
       /\ \A j \in 1 .. Len(c.signals) : j > i => c.signals[j].kind = "edited"
  \/ /\ \A i \in 1 .. Len(c.signals) : c.signals[i].kind = "edited"
     /\ a # None => a = c.layout

\* Each entry that listens, destroyed or not, has what the client has been told.
EntriesTold ==
  /\ active = None => \A e \in Entries : lockscreen_layout_source[e] = None
  /\ active # None => \A e \in Connected : /\ lockscreen_layout_source[e] = active
                                           /\ system_layout_source[e] \in Indices

LayoutTypes ==
  /\ cinnamon \in Cinnamons
  /\ asked \in BOOLEAN
  /\ active \in Indices \cup {None} /\ kb_group \in Indices \cup {None}
  /\ life \in [Entries -> {"new", "alive", "gone"}]
  /\ system_layout_source \in [Entries -> Indices \cup {None}]
  /\ lockscreen_layout_source \in [Entries -> Indices \cup {None}]
  /\ chosen \in Indices

LayoutsInv == LayoutTypes /\ Synced(cinnamon, active) /\ EntriesTold

-----------------------------------------------------------------------------
(* Cinnamon's signals. *)

\* Telling of the present layout leaves the client to be told of it.
LEMMA ToldSynced ==
  ASSUME NEW c \in Cinnamons, NEW a, NEW kind \in {"changed", "sources", "edited"},
         NEW l \in Indices,
         kind = "edited" => l = c.layout /\ Synced(c, a)
  PROVE  LET d == Told([c EXCEPT !.layout = l], kind, l)
         IN  d \in Cinnamons /\ Synced(d, a)
<1> DEFINE s == [kind |-> kind, layout |-> l]
           t == Append(c.signals, s)
           d == Told([c EXCEPT !.layout = l], kind, l)
<1> SUFFICES d \in Cinnamons /\ Synced(d, a)
  OBVIOUS
<1>1. c.signals \in Seq(Signals) /\ s \in Signals
  BY DEF Cinnamons, Signals
<1>2. /\ t \in Seq(Signals) /\ Len(t) = Len(c.signals) + 1 /\ t[Len(t)] = s
      /\ \A i \in 1 .. Len(c.signals) : t[i] = c.signals[i]
      /\ Len(c.signals) \in Nat
  BY <1>1, AppendProperties, LenProperties
<1>3. d.layout = l /\ d.signals = t /\ d \in Cinnamons
  BY <1>2 DEF Told, Cinnamons
<1> HIDE DEF d, t
<1>4. CASE kind # "edited"
  BY <1>2, <1>3, <1>4 DEF Synced
<1>5. CASE kind = "edited"
  <2>1. l = c.layout /\ Synced(c, a) /\ s.kind = "edited"
    BY <1>5
  <2> HIDE DEF s
  <2>2. CASE \E i \in 1 .. Len(c.signals) :
               /\ c.signals[i].kind # "edited" /\ c.signals[i].layout = c.layout
               /\ \A j \in 1 .. Len(c.signals) : j > i => c.signals[j].kind = "edited"
    <3>1. PICK i \in 1 .. Len(c.signals) :
            /\ c.signals[i].kind # "edited" /\ c.signals[i].layout = c.layout
            /\ \A j \in 1 .. Len(c.signals) : j > i => c.signals[j].kind = "edited"
      BY <2>2
    <3>2. i \in 1 .. Len(t) /\ t[i].kind # "edited" /\ t[i].layout = l
      BY <1>2, <2>1, <3>1
    <3>3. \A j \in 1 .. Len(t) : j > i => t[j].kind = "edited"
      <4> SUFFICES ASSUME NEW j \in 1 .. Len(t), j > i PROVE t[j].kind = "edited"
        OBVIOUS
      <4>1. CASE j = Len(t)
        BY <1>2, <2>1, <4>1
      <4>2. CASE j # Len(t)
        <5>1. j \in 1 .. Len(c.signals)
          BY <1>2, <4>2
        <5> QED BY <1>2, <3>1, <5>1
      <4> QED BY <4>1, <4>2
    <3> QED BY <1>3, <3>2, <3>3 DEF Synced
  <2>3. CASE /\ \A i \in 1 .. Len(c.signals) : c.signals[i].kind = "edited"
             /\ a # None => a = c.layout
    <3>1. \A i \in 1 .. Len(t) : t[i].kind = "edited"
      <4> SUFFICES ASSUME NEW j \in 1 .. Len(t) PROVE t[j].kind = "edited"
        OBVIOUS
      <4>1. CASE j = Len(t)
        BY <1>2, <2>1, <4>1
      <4>2. CASE j # Len(t)
        <5>1. j \in 1 .. Len(c.signals)
          BY <1>2, <4>2
        <5> QED BY <1>2, <2>3, <5>1
      <4> QED BY <4>1, <4>2
    <3> QED BY <1>3, <2>1, <2>3, <3>1 DEF Synced
  <2> QED BY <2>1, <2>2, <2>3 DEF Synced
<1> QED BY <1>3, <1>4, <1>5

\* Switching the layout tells of it.
LEMMA ActivateSynced ==
  ASSUME NEW c \in Cinnamons, NEW a, NEW l \in Indices, Synced(c, a)
  PROVE  /\ Activate(c, l) \in Cinnamons /\ Synced(Activate(c, l), a)
         /\ \A g \in Indices : /\ ActivateSaved(c, l, g) \in Cinnamons
                               /\ Synced(ActivateSaved(c, l, g), a)
<1>1. Activate(c, l) \in Cinnamons /\ Synced(Activate(c, l), a)
  BY ToldSynced DEF Activate
<1> QED BY <1>1 DEF ActivateSaved

\* A client that has heard a signal has a new active layout, or does without one yet.
LEMMA HeardSynced ==
  ASSUME NEW c \in Cinnamons, NEW a, NEW b, Synced(c, a), c.signals # <<>>,
         Head(c.signals).kind = "edited" => b = a,
         Head(c.signals).kind # "edited" => b \in {None, Head(c.signals).layout}
  PROVE  /\ [c EXCEPT !.signals = Tail(@)] \in Cinnamons
         /\ Synced([c EXCEPT !.signals = Tail(@)], b)
         /\ Head(c.signals) \in Signals
<1> DEFINE s == c.signals
           t == Tail(s)
           d == [c EXCEPT !.signals = t]
<1> SUFFICES d \in Cinnamons /\ Synced(d, b) /\ Head(s) \in Signals
  OBVIOUS
<1>1. s \in Seq(Signals) /\ s # <<>>
  BY DEF Cinnamons
<1>2. /\ t \in Seq(Signals) /\ Len(t) = Len(s) - 1 /\ Head(s) \in Signals
      /\ \A i \in 1 .. Len(t) : t[i] = s[i + 1]
      /\ Len(s) \in Nat \ {0} /\ Head(s) = s[1]
  BY <1>1, HeadTailProperties, EmptySeq, LenProperties
<1>3. d \in Cinnamons /\ d.layout = c.layout /\ d.signals = t
  BY <1>2 DEF Cinnamons
<1> HIDE DEF d, t
<1>4. CASE \E i \in 1 .. Len(s) :
             /\ s[i].kind # "edited" /\ s[i].layout = c.layout
             /\ \A j \in 1 .. Len(s) : j > i => s[j].kind = "edited"
  <2>1. PICK i \in 1 .. Len(s) :
          /\ s[i].kind # "edited" /\ s[i].layout = c.layout
          /\ \A j \in 1 .. Len(s) : j > i => s[j].kind = "edited"
    BY <1>4
  <2> HIDE DEF s
  <2>2. CASE i = 1
    <3>1. \A j \in 1 .. Len(t) : t[j].kind = "edited"
      BY <1>2, <2>1, <2>2
    <3>2. b # None => b = c.layout
      BY <1>2, <2>1, <2>2 DEF s
    <3> QED BY <1>2, <1>3, <3>1, <3>2 DEF Synced
  <2>3. CASE i # 1
    <3>1. i - 1 \in 1 .. Len(t) /\ t[i - 1] = s[i]
      BY <1>2, <2>3
    <3>2. \A j \in 1 .. Len(t) : j > i - 1 => t[j].kind = "edited"
      BY <1>2, <2>1
    <3> QED BY <1>2, <1>3, <2>1, <3>1, <3>2 DEF Synced
  <2> QED BY <2>2, <2>3
<1>5. CASE /\ \A i \in 1 .. Len(s) : s[i].kind = "edited"
           /\ a # None => a = c.layout
  <2>1. b = a
    BY <1>2, <1>5
  <2> HIDE DEF s
  <2>2. \A j \in 1 .. Len(t) : t[j].kind = "edited"
    BY <1>2, <1>5
  <2> QED BY <1>2, <1>3, <1>5, <2>1, <2>2 DEF Synced
<1> QED BY <1>4, <1>5 DEF Synced

-----------------------------------------------------------------------------
(* The entries. *)

\* What it does to entries to learn of the sources: they have the active one, and Cinnamon
\* is switched to the saved one.
LEMMA SourcesLearnt ==
  ASSUME LayoutTypes, NEW c \in Cinnamons, NEW a, Synced(c, a),
         NEW E \in SUBSET Entries, NEW l \in Indices \cup {None},
         OnLayoutSourcesChanged(c, E, l)
  PROVE  /\ cinnamon' \in Cinnamons /\ Synced(cinnamon', a)
         /\ kb_group' \in Indices \cup {None}
         /\ system_layout_source' \in [Entries -> Indices \cup {None}]
         /\ lockscreen_layout_source' \in [Entries -> Indices \cup {None}]
         /\ \A e \in E : system_layout_source'[e] = l /\ lockscreen_layout_source'[e] = l
         /\ \A e \in Entries \ E : /\ system_layout_source'[e] = system_layout_source[e]
                                   /\ lockscreen_layout_source'[e] = lockscreen_layout_source[e]
<1>1. /\ system_layout_source' \in [Entries -> Indices \cup {None}]
      /\ lockscreen_layout_source' \in [Entries -> Indices \cup {None}]
      /\ \A e \in E : system_layout_source'[e] = l /\ lockscreen_layout_source'[e] = l
      /\ \A e \in Entries \ E : /\ system_layout_source'[e] = system_layout_source[e]
                                /\ lockscreen_layout_source'[e] = lockscreen_layout_source[e]
  BY DEF OnLayoutSourcesChanged, LayoutTypes
<1>2. CASE E = {} \/ l = None
  BY <1>1, <1>2 DEF OnLayoutSourcesChanged, LayoutTypes
<1>3. CASE ~(E = {} \/ l = None)
  <2>1. l \in Indices
    BY <1>3
  <2>2. /\ kb_group' = IF kb_group = None THEN l ELSE kb_group
        /\ cinnamon' = ActivateSaved(c, kb_group', l)
    BY <1>3 DEF OnLayoutSourcesChanged
  <2>3. kb_group' \in Indices
    BY <2>1, <2>2 DEF LayoutTypes
  <2> QED BY <1>1, <2>1, <2>2, <2>3, ActivateSynced
<1> QED BY <1>2, <1>3

\* What is heard has its type.
LEMMA HeardTypes ==
  ASSUME LayoutTypes, cinnamon.signals # <<>>, NEW a, NEW b, Synced(cinnamon, a),
         Signal.kind = "edited" => b = a,
         Signal.kind # "edited" => b \in {None, Signal.layout}
  PROVE  Heard \in Cinnamons /\ Synced(Heard, b) /\ Signal.layout \in Indices
<1>1. Heard \in Cinnamons /\ Synced(Heard, b) /\ Signal \in Signals
  BY HeardSynced DEF LayoutTypes, Heard, Signal
<1> QED BY <1>1 DEF Signals

\* Every step of Cinnamon, its client and the entries.
LEMMA LayoutsStep == LayoutsInv /\ [Next]_layoutVars => LayoutsInv'
<1> SUFFICES ASSUME LayoutsInv, [Next]_layoutVars PROVE LayoutsInv'
  OBVIOUS
<1> USE LayoutsAssumption DEF entryVars, boundVars, layoutVars
<1>0. LayoutTypes /\ Synced(cinnamon, active) /\ EntriesTold /\ None \notin Indices
      /\ cinnamon \in Cinnamons /\ cinnamon.layout \in Indices
  BY DEF LayoutsInv, LayoutTypes, Indices, Cinnamons
<1>1. CASE CinnamonAnswers
  <2>1. [cinnamon EXCEPT !.layout = cinnamon.layout] = cinnamon
    BY <1>0 DEF Cinnamons
  <2>2. cinnamon' \in Cinnamons /\ Synced(cinnamon', active)
    BY <1>0, <1>1, <2>1, ToldSynced DEF CinnamonAnswers
  <2> QED BY <1>0, <1>1, <2>2 DEF CinnamonAnswers, LayoutsInv, LayoutTypes, EntriesTold, Connected
<1>2. CASE UserSwitches
  <2>1. PICK l \in Indices : cinnamon' = Activate(cinnamon, l) /\ chosen' = l
    BY <1>2 DEF UserSwitches
  <2>2. cinnamon' \in Cinnamons /\ Synced(cinnamon', active)
    BY <1>0, <2>1, ActivateSynced
  <2> QED BY <1>0, <1>2, <2>1, <2>2 DEF UserSwitches, LayoutsInv, LayoutTypes, EntriesTold, Connected
<1>3. CASE UserEdits
  <2>1. [cinnamon EXCEPT !.layout = cinnamon.layout] = cinnamon
    BY <1>0 DEF Cinnamons
  <2>2. cinnamon' \in Cinnamons /\ Synced(cinnamon', active)
    BY <1>0, <1>3, <2>1, ToldSynced DEF UserEdits
  <2> QED BY <1>0, <1>3, <2>2 DEF UserEdits, LayoutsInv, LayoutTypes, EntriesTold, Connected
<1>4. CASE CurrentInputSourceChanged
  <2>1. cinnamon.signals # <<>> /\ Signal.kind = "changed" /\ cinnamon' = Heard
    BY <1>4 DEF CurrentInputSourceChanged, Hears
  <2>2. CASE active = None
    <3>1. Heard \in Cinnamons /\ Synced(Heard, None)
      BY <1>0, <2>1, HeardTypes
    <3> QED BY <1>0, <1>4, <2>1, <2>2, <3>1
            DEF CurrentInputSourceChanged, LayoutsInv, LayoutTypes, EntriesTold, Connected
  <2>3. CASE active # None
    <3>1. Heard \in Cinnamons /\ Synced(Heard, Signal.layout) /\ Signal.layout \in Indices
      BY <1>0, <2>1, HeardTypes
    <3>2. active' = Signal.layout /\ OnCurrentLayoutChanged(Signal.layout)
          /\ UNCHANGED <<asked, kb_group, life, system_layout_source, chosen>>
      BY <1>4, <2>3 DEF CurrentInputSourceChanged
    <3>3. lockscreen_layout_source' \in [Entries -> Indices \cup {None}]
          /\ \A e \in Connected : lockscreen_layout_source'[e] = active'
      BY <1>0, <3>1, <3>2 DEF OnCurrentLayoutChanged, LayoutTypes, Connected
    <3>4. LayoutTypes' /\ Connected' = Connected
      BY <1>0, <2>1, <3>1, <3>2, <3>3 DEF LayoutTypes, Connected
    <3> QED BY <1>0, <2>1, <2>3, <3>1, <3>2, <3>3, <3>4 DEF LayoutsInv, EntriesTold
  <2> QED BY <2>2, <2>3
<1>5. CASE InputSourcesChanged
  <2>1. cinnamon.signals # <<>> /\ Signal.kind = "edited" /\ cinnamon' = Heard
    BY <1>5 DEF InputSourcesChanged, Hears
  <2>2. Heard \in Cinnamons /\ Synced(Heard, active)
    BY <1>0, <2>1, HeardTypes
  <2> QED BY <1>0, <1>5, <2>1, <2>2
          DEF InputSourcesChanged, LayoutsInv, LayoutTypes, EntriesTold, Connected
<1>6. CASE GetInputSourcesCallback
  <2>1. cinnamon.signals # <<>> /\ Signal.kind = "sources"
    BY <1>6 DEF GetInputSourcesCallback, Hears
  <2>2. Heard \in Cinnamons /\ Synced(Heard, Signal.layout) /\ Signal.layout \in Indices
    BY <1>0, <2>1, HeardTypes
  <2>3. active' = Signal.layout /\ OnLayoutSourcesChanged(Heard, Connected, Signal.layout)
        /\ UNCHANGED <<asked, life, chosen>> /\ Connected \in SUBSET Entries
    BY <1>6 DEF GetInputSourcesCallback, Connected
  <2>4. /\ cinnamon' \in Cinnamons /\ Synced(cinnamon', active')
        /\ kb_group' \in Indices \cup {None}
        /\ system_layout_source' \in [Entries -> Indices \cup {None}]
        /\ lockscreen_layout_source' \in [Entries -> Indices \cup {None}]
        /\ \A e \in Connected : system_layout_source'[e] = active'
                                /\ lockscreen_layout_source'[e] = active'
    BY <1>0, <2>2, <2>3, SourcesLearnt
  <2>5. LayoutTypes' /\ Connected' = Connected /\ active' \in Indices
    BY <1>0, <2>2, <2>3, <2>4 DEF LayoutTypes, Connected
  <2> QED BY <1>0, <2>4, <2>5 DEF LayoutsInv, EntriesTold
<1>7. ASSUME NEW e \in Entries, NewEntry(e) PROVE LayoutsInv'
  <2>1. /\ OnLayoutSourcesChanged(cinnamon, {e}, active) /\ life' = [life EXCEPT ![e] = "alive"]
        /\ UNCHANGED <<asked, active, chosen>>
    BY <1>7 DEF NewEntry
  <2>2. /\ cinnamon' \in Cinnamons /\ Synced(cinnamon', active)
        /\ kb_group' \in Indices \cup {None}
        /\ system_layout_source' \in [Entries -> Indices \cup {None}]
        /\ lockscreen_layout_source' \in [Entries -> Indices \cup {None}]
        /\ system_layout_source'[e] = active /\ lockscreen_layout_source'[e] = active
        /\ \A f \in Entries \ {e} : /\ system_layout_source'[f] = system_layout_source[f]
                                    /\ lockscreen_layout_source'[f] = lockscreen_layout_source[f]
    <3>1. active \in Indices \cup {None} /\ {e} \in SUBSET Entries /\ e \in {e}
      BY <1>0 DEF LayoutTypes
    <3>2. /\ cinnamon' \in Cinnamons /\ Synced(cinnamon', active)
          /\ kb_group' \in Indices \cup {None}
          /\ system_layout_source' \in [Entries -> Indices \cup {None}]
          /\ lockscreen_layout_source' \in [Entries -> Indices \cup {None}]
          /\ \A x \in {e} : /\ system_layout_source'[x] = active
                            /\ lockscreen_layout_source'[x] = active
          /\ \A f \in Entries \ {e} :
               /\ system_layout_source'[f] = system_layout_source[f]
               /\ lockscreen_layout_source'[f] = lockscreen_layout_source[f]
      <4> DEFINE E == {e}
      <4>1. LayoutTypes /\ Synced(cinnamon, active) /\ cinnamon \in Cinnamons
            /\ E \in SUBSET Entries /\ active \in Indices \cup {None}
            /\ OnLayoutSourcesChanged(cinnamon, E, active)
        BY <1>0, <2>1, <3>1
      <4> HIDE DEF E
      <4>2. /\ cinnamon' \in Cinnamons /\ Synced(cinnamon', active)
            /\ kb_group' \in Indices \cup {None}
            /\ system_layout_source' \in [Entries -> Indices \cup {None}]
            /\ lockscreen_layout_source' \in [Entries -> Indices \cup {None}]
            /\ \A x \in E : /\ system_layout_source'[x] = active
                            /\ lockscreen_layout_source'[x] = active
            /\ \A f \in Entries \ E :
                 /\ system_layout_source'[f] = system_layout_source[f]
                 /\ lockscreen_layout_source'[f] = lockscreen_layout_source[f]
        BY <4>1, SourcesLearnt
      <4> QED BY <4>2 DEF E
    <3> QED BY <3>2
  <2>3. LayoutTypes'
    BY <1>0, <2>1, <2>2 DEF LayoutTypes
  <2>4. Connected' = Connected \cup {e}
    BY <1>0, <2>1 DEF Connected, LayoutTypes
  <2>5. EntriesTold'
    <3>1. CASE active = None
      BY <1>0, <2>1, <2>2, <3>1 DEF EntriesTold
    <3>2. CASE active # None
      <4>1. active \in Indices /\ Connected \in SUBSET Entries
        BY <1>0, <3>2 DEF LayoutTypes, Connected
      <4> QED BY <1>0, <2>1, <2>2, <2>4, <3>2, <4>1 DEF EntriesTold
    <3> QED BY <3>1, <3>2
  <2> QED BY <2>1, <2>2, <2>3, <2>5 DEF LayoutsInv
<1>8. ASSUME NEW e \in Entries, NextLayout(e) PROVE LayoutsInv'
  <2>1. NextIndex(active) \in Indices
    BY <1>0, <1>8 DEF NextLayout, NextIndex, Indices, LayoutTypes
  <2>2. cinnamon' \in Cinnamons /\ Synced(cinnamon', active)
    BY <1>0, <1>8, <2>1, ActivateSynced DEF NextLayout
  <2> QED BY <1>0, <1>8, <2>2 DEF NextLayout, LayoutsInv, LayoutTypes, EntriesTold, Connected
<1>9. ASSUME NEW e \in Entries, DestroyEntry(e) PROVE LayoutsInv'
  <2>1. /\ life' = [life EXCEPT ![e] = "gone"] /\ life[e] = "alive"
        /\ UNCHANGED <<asked, active, system_layout_source, lockscreen_layout_source, chosen>>
    BY <1>9 DEF DestroyEntry, Alive
  <2>2. Connected' = Connected /\ e \in Connected
    BY <1>0, <2>1 DEF Connected, LayoutTypes
  <2>3. cinnamon' \in Cinnamons /\ Synced(cinnamon', active) /\ kb_group' \in Indices \cup {None}
    <3>1. CASE lockscreen_layout_source[e] = None
      BY <1>0, <1>9, <3>1 DEF DestroyEntry, LayoutTypes
    <3>2. CASE lockscreen_layout_source[e] # None
      <4>1. system_layout_source[e] \in Indices /\ lockscreen_layout_source[e] \in Indices
        BY <1>0, <2>2, <3>2 DEF EntriesTold, LayoutTypes
      <4>2. /\ kb_group' = lockscreen_layout_source[e]
            /\ cinnamon' = Activate(cinnamon, system_layout_source[e])
        BY <1>9, <3>2 DEF DestroyEntry
      <4> QED BY <1>0, <4>1, <4>2, ActivateSynced
    <3> QED BY <3>1, <3>2
  <2>4. LayoutTypes'
    BY <1>0, <2>1, <2>3 DEF LayoutTypes
  <2> QED BY <1>0, <2>1, <2>2, <2>3, <2>4 DEF LayoutsInv, EntriesTold
<1>10. ASSUME NEW old \in Entries, NEW new \in Entries, Refresh(old, new) PROVE LayoutsInv'
  <2>1. /\ life[old] = "alive" /\ life[new] = "new"
        /\ life' = [life EXCEPT ![old] = "gone", ![new] = "alive"]
        /\ system_layout_source' = [system_layout_source EXCEPT ![new] = active]
        /\ lockscreen_layout_source' = [lockscreen_layout_source EXCEPT ![new] = active]
        /\ UNCHANGED <<asked, active, chosen>>
    BY <1>10 DEF Refresh, Alive
  <2>2. Connected' = Connected \cup {new} /\ old \in Connected /\ old # new
    BY <1>0, <2>1 DEF Connected, LayoutTypes
  <2>3. cinnamon' \in Cinnamons /\ Synced(cinnamon', active) /\ kb_group' \in Indices \cup {None}
    <3>1. CASE active = None
      BY <1>0, <1>10, <3>1 DEF Refresh, LayoutTypes
    <3>2. CASE active # None
      <4>1. active \in Indices /\ system_layout_source[old] \in Indices
        BY <1>0, <2>2, <3>2 DEF EntriesTold, LayoutTypes
      <4> DEFINE group == IF kb_group = None THEN active ELSE kb_group
                 c     == ActivateSaved(cinnamon, group, active)
      <4>2. group \in Indices
        BY <1>0, <4>1 DEF LayoutTypes
      <4>3. /\ kb_group' = lockscreen_layout_source[old]
            /\ cinnamon' = Activate(c, system_layout_source[old])
        BY <1>10, <3>2 DEF Refresh
      <4> HIDE DEF group
      <4>4. c \in Cinnamons /\ Synced(c, active)
        BY <1>0, <4>1, <4>2, ActivateSynced
      <4> HIDE DEF c
      <4>5. cinnamon' \in Cinnamons /\ Synced(cinnamon', active)
        BY <4>1, <4>3, <4>4, ActivateSynced
      <4>6. lockscreen_layout_source[old] \in Indices \cup {None}
        BY <1>0 DEF LayoutTypes
      <4> QED BY <4>3, <4>5, <4>6
    <3> QED BY <3>1, <3>2
  <2>4. LayoutTypes'
    BY <1>0, <2>1, <2>3 DEF LayoutTypes
  <2>5. /\ lockscreen_layout_source'[new] = active /\ system_layout_source'[new] = active
        /\ \A e \in Entries \ {new} :
             /\ lockscreen_layout_source'[e] = lockscreen_layout_source[e]
             /\ system_layout_source'[e] = system_layout_source[e]
    BY <1>0, <2>1 DEF LayoutTypes
  <2>6. EntriesTold'
    <3>1. CASE active = None
      BY <1>0, <2>1, <2>5, <3>1 DEF EntriesTold
    <3>2. CASE active # None
      <4>1. active \in Indices
        BY <1>0, <3>2 DEF LayoutTypes
      <4>2. Connected \in SUBSET Entries
        BY DEF Connected
      <4> QED BY <1>0, <2>1, <2>2, <2>5, <3>2, <4>1, <4>2 DEF EntriesTold
    <3> QED BY <3>1, <3>2
  <2> QED BY <2>1, <2>3, <2>4, <2>6 DEF LayoutsInv
<1>11. CASE UNCHANGED layoutVars
  BY <1>0, <1>11 DEF LayoutsInv, LayoutTypes, EntriesTold, Connected
<1> QED BY <1>1, <1>2, <1>3, <1>4, <1>5, <1>6, <1>7, <1>8, <1>9, <1>10, <1>11 DEF Next

\* Its first state.
LEMMA LayoutsFirst == Init => LayoutsInv
<1> SUFFICES ASSUME Init PROVE LayoutsInv
  OBVIOUS
<1>1. cinnamon \in Cinnamons /\ cinnamon.signals = <<>> /\ chosen \in Indices
  BY EmptySeq DEF Init, Cinnamons
<1>2. LayoutTypes
  BY <1>1 DEF Init, LayoutTypes
<1>3. Synced(cinnamon, active)
  BY <1>1, LenProperties DEF Init, Synced
<1>4. EntriesTold
  BY DEF Init, EntriesTold
<1> QED BY <1>2, <1>3, <1>4 DEF LayoutsInv

\* What the entries have been told includes what is claimed of them.
LEMMA LayoutsClaims == LayoutsInv => TypeOK /\ IconTellsLayout
<1> SUFFICES ASSUME LayoutsInv PROVE TypeOK /\ IconTellsLayout
  OBVIOUS
<1>1. TypeOK
  <2>1. \A i \in DOMAIN cinnamon.signals : cinnamon.signals[i] \in Signals
    BY ElementOfSeq, LenProperties DEF LayoutsInv, LayoutTypes, Cinnamons
  <2> QED BY <2>1 DEF LayoutsInv, LayoutTypes, Cinnamons, Signals, TypeOK
<1>2. IconTellsLayout
  <2> SUFFICES ASSUME NEW e \in Alive, cinnamon.signals = <<>>, active # None
               PROVE  lockscreen_layout_source[e] = cinnamon.layout
    BY DEF IconTellsLayout
  <2>1. active = cinnamon.layout
    BY LenProperties DEF LayoutsInv, Synced
  <2>2. e \in Connected
    BY DEF Alive, Connected
  <2> QED BY <2>1, <2>2 DEF LayoutsInv, EntriesTold
<1> QED BY <1>1, <1>2

-----------------------------------------------------------------------------
(* What alone keeps the layout of the session from being restored. *)

\* No stage is refreshed.
NoRefresh == [][\A old, new \in Entries : ~Refresh(old, new)]_layoutVars

\* No answer that tells the layouts comes once there has been an entry.
NoLateAnswer == [][GetInputSourcesCallback => Connected = {}]_layoutVars

\* Every entry is made with the client knowing the layout the user has chosen.
EntriesMadeKnowing == [][\A e \in Entries : NewEntry(e) => active = chosen]_layoutVars

\* An uncovered session has the user's layout, and an entry remembers it.
ChosenIsKept ==
  /\ Alive = {} => cinnamon.layout = chosen
  /\ Connected # {} => active # None
  /\ \A e \in Alive : system_layout_source[e] = chosen

\* Under the three hypotheses no step loses the layout the user has chosen, and the one
\* that destroys the last entry goes back to it.
LEMMA ChosenIsKeptStep ==
  /\ LayoutsInv /\ ChosenIsKept
  /\ [Next]_layoutVars
  /\ [\A old, new \in Entries : ~Refresh(old, new)]_layoutVars
  /\ [GetInputSourcesCallback => Connected = {}]_layoutVars
  /\ [\A e \in Entries : NewEntry(e) => active = chosen]_layoutVars
  => ChosenIsKept' /\ [Alive # {} /\ Alive' = {} => cinnamon'.layout = chosen]_layoutVars
<1> SUFFICES ASSUME LayoutsInv, ChosenIsKept, [Next]_layoutVars,
                    [\A old, new \in Entries : ~Refresh(old, new)]_layoutVars,
                    [GetInputSourcesCallback => Connected = {}]_layoutVars,
                    [\A e \in Entries : NewEntry(e) => active = chosen]_layoutVars
             PROVE  ChosenIsKept' /\ (Alive # {} /\ Alive' = {} => cinnamon'.layout = chosen)
  OBVIOUS
<1> USE LayoutsAssumption DEF ChosenIsKept, Alive, Connected
<1>1. LayoutTypes /\ EntriesTold /\ cinnamon.layout \in Indices /\ None \notin Indices
  BY DEF LayoutsInv, LayoutTypes, Cinnamons, Indices
<1>2. ASSUME NEW c \in Cinnamons, NEW kind, NEW l \in Indices
      PROVE  /\ Told(c, kind, l).layout = c.layout
             /\ Activate(c, l).layout = l
             /\ [c EXCEPT !.signals = Tail(@)].layout = c.layout
  BY <1>2 DEF Cinnamons, Told, Activate
<1>3. cinnamon \in Cinnamons /\ Heard.layout = cinnamon.layout
  BY <1>1, <1>2 DEF LayoutTypes, Heard
<1>4. CASE CinnamonAnswers \/ UserEdits
  BY <1>1, <1>2, <1>3, <1>4 DEF CinnamonAnswers, UserEdits, entryVars
<1>5. CASE UserSwitches
  BY <1>1, <1>2, <1>3, <1>5 DEF UserSwitches, entryVars
<1>6. CASE CurrentInputSourceChanged
  <2>1. active' = None <=> active = None
    <3>1. CASE active = None
      BY <1>6, <3>1 DEF CurrentInputSourceChanged
    <3>2. CASE active # None
      <4>1. cinnamon.signals \in Seq(Signals) /\ cinnamon.signals # <<>>
        BY <1>3, <1>6 DEF CurrentInputSourceChanged, Hears, Cinnamons
      <4>2. Signal.layout \in Indices
        <5>1. Head(cinnamon.signals) \in Signals
          BY <4>1, HeadTailProperties
        <5> QED BY <5>1 DEF Signal, Signals
      <4> QED BY <1>1, <1>6, <3>2, <4>2 DEF CurrentInputSourceChanged
    <3> QED BY <3>1, <3>2
  <2> QED BY <1>3, <1>6, <2>1 DEF CurrentInputSourceChanged
<1>7. CASE InputSourcesChanged
  BY <1>3, <1>7 DEF InputSourcesChanged, entryVars
<1>8. CASE GetInputSourcesCallback
  <2>1. Connected = {} \/ UNCHANGED layoutVars
    BY <1>8
  <2> QED
    BY <1>3, <1>8, <2>1 DEF GetInputSourcesCallback, OnLayoutSourcesChanged, layoutVars,
         entryVars
<1>9. ASSUME NEW e \in Entries, NewEntry(e)
      PROVE  ChosenIsKept' /\ (Alive # {} /\ Alive' = {} => cinnamon'.layout = chosen)
  <2>1. e \in Alive' /\ \A x \in Entries \ {e} : x \notin Alive'
    BY <1>1, <1>9 DEF NewEntry, LayoutTypes
  <2>2. active = chosen \/ UNCHANGED layoutVars
    BY <1>9
  <2>3. system_layout_source'[e] = active /\ UNCHANGED <<active, chosen>>
    BY <1>1, <1>9 DEF NewEntry, OnLayoutSourcesChanged, LayoutTypes
  <2> QED BY <1>1, <2>1, <2>2, <2>3 DEF layoutVars, entryVars, LayoutTypes
<1>10. ASSUME NEW e \in Entries, NextLayout(e)
       PROVE  ChosenIsKept' /\ (Alive # {} /\ Alive' = {} => cinnamon'.layout = chosen)
  BY <1>10 DEF NextLayout, entryVars
<1>11. ASSUME NEW e \in Entries, DestroyEntry(e)
       PROVE  ChosenIsKept' /\ (Alive # {} /\ Alive' = {} => cinnamon'.layout = chosen)
  <2>1. e \in Connected /\ lockscreen_layout_source[e] # None
    BY <1>1, <1>11 DEF DestroyEntry, EntriesTold
  <2>2. cinnamon'.layout = chosen
    BY <1>1, <1>2, <1>3, <1>11, <2>1 DEF DestroyEntry, LayoutTypes
  <2>3. UNCHANGED <<active, system_layout_source, chosen>>
    BY <1>11 DEF DestroyEntry
  <2>4. Alive' \subseteq Alive /\ Connected' \subseteq Connected
    BY <1>1, <1>11, <2>1 DEF DestroyEntry, LayoutTypes
  <2> QED BY <2>2, <2>3, <2>4
<1>12. CASE UNCHANGED layoutVars
  BY <1>12 DEF layoutVars, entryVars
<1> QED
  BY <1>4, <1>5, <1>6, <1>7, <1>8, <1>9, <1>10, <1>11, <1>12 DEF Next

\* A refresh, a late answer, and an entry made before the client has heard of the user's
\* choice are all that keeps an unlock from restoring the layout of the session.
THEOREM RefreshOrLatenessIsTheCause ==
  Spec /\ NoRefresh /\ NoLateAnswer /\ EntriesMadeKnowing => UnlockRestoresLayout
<1>1. Init => ChosenIsKept
  BY DEF Init, ChosenIsKept, Alive, Connected
<1> QED
  BY <1>1, LayoutsFirst, LayoutsStep, ChosenIsKeptStep, PTL
     DEF Spec, NoRefresh, NoLateAnswer, EntriesMadeKnowing, UnlockRestoresLayout

=============================================================================
