------------------------------- MODULE Layouts -------------------------------
(***************************************************************************)
(* The keyboard layout of the password entry.  The entry switches to the   *)
(* layout that was last used to unlock, and when it is destroyed switches  *)
(* back to the one it found.  Cinnamon has the layout: it is told by calls *)
(* that wait for it, and tells of changes by signals that come later.      *)
(***************************************************************************)
EXTENDS Naturals, Sequences

CONSTANTS
  Entries,      \* password entries, one for each stage
  None,         \* nothing: -1 for an index, no source
  MaxSwitches,  \* bound: the user chooses another layout in the session
  MaxClicks,    \* bound: or on the lock screen
  MaxEdits      \* bound: the list of layouts is edited

ASSUME LayoutsAssumption == None \notin {0, 1}

\* The indices of the layouts of a session that has several.
Indices == 0 .. 1

VARIABLES
  cinnamon,      \* the layout in use, and what Cinnamon has still to tell
  asked,         \* GetInputSources has not been answered
  active,        \* the source marked active, once there are sources
  kb_group,      \* the setting: the layout to unlock with
  life,          \* of each entry
  system_layout_source, lockscreen_layout_source,
  chosen,        \* the layout the user has chosen for the session
  switches, clicks, edits

entryVars  == <<life, system_layout_source, lockscreen_layout_source>>
boundVars  == <<switches, clicks, edits>>
layoutVars == <<cinnamon, asked, active, kb_group, entryVars, chosen, boundVars>>

Init ==
  /\ \E l \in Indices : cinnamon = [layout |-> l, signals |-> <<>>] /\ chosen = l
  /\ asked = TRUE
  /\ active = None
  /\ kb_group \in Indices \cup {None}
  /\ life = [e \in Entries |-> "new"]
  /\ system_layout_source = [e \in Entries |-> None]
  /\ lockscreen_layout_source = [e \in Entries |-> None]
  /\ switches = 0 /\ clicks = 0 /\ edits = 0

\* Cinnamon tells of something.
Told(c, kind, l) == [c EXCEPT !.signals = Append(@, [kind |-> kind, layout |-> l])]

\* activate_layout_index: Cinnamon has changed the layout when the call returns.
Activate(c, l) ==
  IF c.layout = l THEN c ELSE Told([c EXCEPT !.layout = l], "changed", l)

\* set_lockscreen_keyboard_layout: to the saved layout, or not if it was last heard to be l.
ActivateSaved(c, group, l) == IF group = l THEN c ELSE Activate(c, group)

\* Mutant of NextIndex: does not wrap around.
PastTheLast(i) == i + 1

NextIndex(i) == (i + 1) % 2

\* The handlers of an entry stay connected when it is destroyed.
Connected == {e \in Entries : life[e] # "new"}
Alive     == {e \in Entries : life[e] = "alive"}

-----------------------------------------------------------------------------
(* Cinnamon. *)

CinnamonAnswers ==
  /\ asked
  /\ cinnamon' = Told(cinnamon, "sources", cinnamon.layout)
  /\ asked' = FALSE
  /\ UNCHANGED <<active, kb_group, entryVars, chosen, boundVars>>

\* The user switches the layout while the session is not covered.
UserSwitches ==
  /\ Alive = {} /\ switches < MaxSwitches
  /\ \E l \in Indices \ {cinnamon.layout} : cinnamon' = Activate(cinnamon, l) /\ chosen' = l
  /\ switches' = switches + 1
  /\ UNCHANGED <<asked, active, kb_group, entryVars, clicks, edits>>

UserEdits ==
  /\ Alive = {} /\ edits < MaxEdits
  /\ cinnamon' = Told(cinnamon, "edited", cinnamon.layout)
  /\ edits' = edits + 1
  /\ UNCHANGED <<asked, active, kb_group, entryVars, chosen, switches, clicks>>

-----------------------------------------------------------------------------
(* What Cinnamon tells, in order. *)

Signal == Head(cinnamon.signals)
Heard  == [cinnamon EXCEPT !.signals = Tail(@)]
Hears(kind) == cinnamon.signals # <<>> /\ Signal.kind = kind

\* Mutant of OnCurrentLayoutChanged: to disconnect the handler of one is to disconnect all.
NoneHears(l) ==
  lockscreen_layout_source' = [e \in Entries |->
    IF e \in Connected /\ "gone" \notin {life[x] : x \in Entries}
    THEN l ELSE lockscreen_layout_source[e]]

OnCurrentLayoutChanged(l) ==
  lockscreen_layout_source' = [e \in Entries |->
    IF e \in Connected THEN l ELSE lockscreen_layout_source[e]]

CurrentInputSourceChanged ==
  /\ Hears("changed")
  /\ cinnamon' = Heard
  /\ IF active = None
     THEN UNCHANGED <<active, lockscreen_layout_source>>
     ELSE active' = Signal.layout /\ OnCurrentLayoutChanged(Signal.layout)
  /\ UNCHANGED <<asked, kb_group, life, system_layout_source, chosen, boundVars>>

InputSourcesChanged ==
  /\ Hears("edited")
  /\ cinnamon' = Heard
  /\ asked' = TRUE
  /\ UNCHANGED <<active, kb_group, entryVars, chosen, boundVars>>

\* on_layout_sources_changed of the entries in E, with l the active source: note it, and
\* go to the layout that was saved, or save this one.
OnLayoutSourcesChanged(c, E, l) ==
  /\ system_layout_source' = [e \in Entries |-> IF e \in E THEN l ELSE system_layout_source[e]]
  /\ lockscreen_layout_source' =
       [e \in Entries |-> IF e \in E THEN l ELSE lockscreen_layout_source[e]]
  /\ IF E = {} \/ l = None
     THEN cinnamon' = c /\ UNCHANGED kb_group
     ELSE /\ kb_group' = IF kb_group = None THEN l ELSE kb_group
          /\ cinnamon' = ActivateSaved(c, kb_group', l)

GetInputSourcesCallback ==
  /\ Hears("sources")
  /\ active' = Signal.layout
  /\ OnLayoutSourcesChanged(Heard, Connected, Signal.layout)
  /\ UNCHANGED <<asked, life, chosen, boundVars>>

-----------------------------------------------------------------------------
(* The entries. *)

\* A stage is built, and its password entry.
NewEntry(e) ==
  /\ life[e] = "new" /\ Alive = {}
  /\ life' = [life EXCEPT ![e] = "alive"]
  /\ OnLayoutSourcesChanged(cinnamon, {e}, active)
  /\ UNCHANGED <<asked, active, chosen, boundVars>>

\* on_icon_pressed: the next one after the one that was active when last heard of.
NextLayout(e) ==
  /\ e \in Alive /\ active # None /\ clicks < MaxClicks
  /\ cinnamon' = Activate(cinnamon, NextIndex(active))
  /\ clicks' = clicks + 1
  /\ UNCHANGED <<asked, active, kb_group, entryVars, chosen, switches, edits>>

\* restore_original_layout; it raises if the entry has no source.
DestroyEntry(e) ==
  /\ e \in Alive
  /\ life' = [life EXCEPT ![e] = "gone"]
  /\ IF lockscreen_layout_source[e] = None
     THEN UNCHANGED <<kb_group, cinnamon>>
     ELSE /\ kb_group' = lockscreen_layout_source[e]
          /\ cinnamon' = Activate(cinnamon, system_layout_source[e])
  /\ UNCHANGED <<asked, active, system_layout_source, lockscreen_layout_source>>
  /\ UNCHANGED <<chosen, boundVars>>

\* The stage is refreshed: the entry of the new one is there before that of the old one goes.
Refresh(old, new) ==
  LET l     == active
      group == IF kb_group = None THEN l ELSE kb_group
  IN  /\ old \in Alive /\ life[new] = "new"
      /\ life' = [life EXCEPT ![old] = "gone", ![new] = "alive"]
      /\ system_layout_source' = [system_layout_source EXCEPT ![new] = l]
      /\ lockscreen_layout_source' = [lockscreen_layout_source EXCEPT ![new] = l]
      /\ IF l = None
         THEN UNCHANGED <<kb_group, cinnamon>>
         ELSE /\ kb_group' = lockscreen_layout_source[old]
              /\ cinnamon' = Activate(ActivateSaved(cinnamon, group, l), system_layout_source[old])
      /\ UNCHANGED <<asked, active, chosen, boundVars>>

Next ==
  \/ CinnamonAnswers \/ UserSwitches \/ UserEdits
  \/ CurrentInputSourceChanged \/ InputSourcesChanged \/ GetInputSourcesCallback
  \/ \E e \in Entries : NewEntry(e) \/ NextLayout(e) \/ DestroyEntry(e)
  \/ \E old, new \in Entries : Refresh(old, new)

Spec == Init /\ [][Next]_layoutVars

-----------------------------------------------------------------------------
(* Properties. *)

\* Every variable has its type.
TypeOK ==
  /\ cinnamon.layout \in Indices
  /\ \A i \in DOMAIN cinnamon.signals :
       cinnamon.signals[i] \in [kind : {"changed", "sources", "edited"}, layout : Indices]
  /\ asked \in BOOLEAN
  /\ active \in Indices \cup {None} /\ kb_group \in Indices \cup {None}
  /\ life \in [Entries -> {"new", "alive", "gone"}]
  /\ system_layout_source \in [Entries -> Indices \cup {None}]
  /\ lockscreen_layout_source \in [Entries -> Indices \cup {None}]
  /\ chosen \in Indices

\* Once Cinnamon has told all, the entry shows the layout its password is typed with,
\* whatever entries before it or their destruction have switched to meanwhile.
IconTellsLayout ==
  \A e \in Alive :
    cinnamon.signals = <<>> /\ active # None => lockscreen_layout_source[e] = cinnamon.layout

\* The last entry to go restores the layout "that was active before the screensaver was
\* activated".
UnlockRestoresLayout ==
  [][Alive # {} /\ Alive' = {} => cinnamon'.layout = chosen]_layoutVars
=============================================================================
