------------------------- MODULE BackupLocker_proofs -------------------------
(***************************************************************************)
(* The safety properties of BackupLocker hold for any number of windows,   *)
(* of unread events and of what applications do.                           *)
(***************************************************************************)
EXTENDS BackupLocker, SequenceTheorems, TLAPS

\* What is known of windows: none that is there, known, spied on or taken for gone is
\* yet to be created, and the watched one is the one the event filter knows.
IdsAreSpent ==
  /\ Alive \cap unused = {}
  /\ (monitors \cup gone) \cap unused = {}
  /\ filter_xid \notin unused
  /\ pretty_xid # None => pretty_xid = filter_xid

\* The locker is started with a window to watch, and the filter of a stage ends with it.
StartsWatching ==
  /\ locker = "starting" => pretty_xid # None
  /\ saverEvents => stage # None

\* A window is taken for gone only when it is, or when its xprop failed.
GoneIsGone == gone \cap Alive \subseteq misled

\* What the grab on the input rests on.
GrabIsMeant ==
  /\ moving => locker = "running" /\ should_grab
  /\ input = "locker" => locker = "running" /\ should_grab /\ (connected \/ activateIdle)

IInv == TypeOK /\ StartsWatching /\ IdsAreSpent /\ GoneIsGone /\ GrabIsMeant
             /\ KnownStageIsLeftAlone /\ WatchedIsMonitored /\ GrabIsPursued

-----------------------------------------------------------------------------
(* Types, and the life of windows. *)

\* Every action keeps the types.
LEMMA TypeStep == TypeOK /\ StartsWatching /\ [Next]_vars => (TypeOK /\ StartsWatching)'
<1> SUFFICES ASSUME TypeOK, StartsWatching, [Next]_vars PROVE (TypeOK /\ StartsWatching)'
  OBVIOUS
<1> USE LockerAssumption DEF TypeOK, StartsWatching, Owners, Lives,
          saverVars, serverVars, lockerVars, grabVars, monitorVars
<1>1. ASSUME NEW w \in Xids, StageMaps(w) PROVE (TypeOK /\ StartsWatching)'
  BY <1>1, AppendProperties, EmptySeq, HeadTailProperties DEF StageMaps, Room, TellLocker, Windows
<1>2. ASSUME NEW w \in Xids, MonitorEnds(w) PROVE (TypeOK /\ StartsWatching)'
  BY <1>2 DEF MonitorEnds
<1>3. ASSUME NEW w \in Xids, ScreensaverWindowGone(w) PROVE (TypeOK /\ StartsWatching)'
  BY <1>3, ZenonT(60) DEF ScreensaverWindowGone, Dispatching, IsWatched
<1>4. CASE OldStageGoes
  BY <1>4 DEF OldStageGoes
<1>5. CASE Unlock
  BY <1>5 DEF Unlock, LetGo
<1>6. CASE KillFallback
  BY <1>6 DEF KillFallback
<1>7. CASE Crash
  BY <1>7 DEF Crash, LetGo
<1>8. CASE SaverGrabs
  BY <1>8 DEF SaverGrabs
<1>9. CASE SaverReleases
  BY <1>9 DEF SaverReleases
<1>10. CASE SaverRaises
  <2>1. /\ stageOnTop' = TRUE /\ saverEvents' = FALSE
        /\ UNCHANGED <<saverVars, input, lockerVars>>
    BY <1>10 DEF SaverRaises
  <2>2. events' \in Seq(Windows)
    <3>1. stage \in Windows
      BY <1>10 DEF SaverRaises, Windows
    <3> QED BY <1>10, <3>1, AppendProperties DEF SaverRaises, TellLocker
  <2>3. StartsWatching'
    BY <2>1
  <2>4. TypeOK'
    <3>1. /\ stage' \in Xids \cup {None} /\ oldStage' \in Xids \cup {None}
          /\ unused' \in SUBSET Xids /\ parent' \in BOOLEAN /\ popups' \in Nat
          /\ input' \in Owners /\ stageOnTop' \in BOOLEAN /\ saverEvents' \in BOOLEAN
      BY <2>1
    <3>2. /\ locker' \in Lives
          /\ pretty_xid' \in Xids \cup {None} /\ filter_xid' \in Xids
          /\ should_grab' \in BOOLEAN /\ activateIdle' \in BOOLEAN /\ moving' \in BOOLEAN
          /\ grabBroken' \in BOOLEAN /\ connected' \in BOOLEAN
          /\ monitors' \in SUBSET Xids /\ gone' \in SUBSET Xids
          /\ misled' \in SUBSET Xids /\ term' \in BOOLEAN
      BY <2>1
    <3> QED BY <2>2, <3>1, <3>2
  <2> QED BY <2>3, <2>4
<1>11. CASE AppMaps
  <2>1. /\ popups' \in Nat /\ stageOnTop' = FALSE
        /\ saverEvents' = (stage # None) /\ UNCHANGED <<stage, oldStage, unused, parent, input>>
    BY <1>11 DEF AppMaps
  <2>2. events' \in Seq(Windows)
    BY <1>11, AppendProperties DEF AppMaps, TellLocker, Windows
  <2>3. UNCHANGED lockerVars
    BY <1>11 DEF AppMaps
  <2>4. StartsWatching'
    BY <2>1, <2>3
  <2>5. TypeOK'
    <3>1. /\ stage' \in Xids \cup {None} /\ oldStage' \in Xids \cup {None}
          /\ unused' \in SUBSET Xids /\ parent' \in BOOLEAN /\ popups' \in Nat
          /\ input' \in Owners /\ stageOnTop' \in BOOLEAN /\ saverEvents' \in BOOLEAN
      BY <2>1
    <3>2. /\ locker' \in Lives
          /\ pretty_xid' \in Xids \cup {None} /\ filter_xid' \in Xids
          /\ should_grab' \in BOOLEAN /\ activateIdle' \in BOOLEAN /\ moving' \in BOOLEAN
          /\ grabBroken' \in BOOLEAN /\ connected' \in BOOLEAN
          /\ monitors' \in SUBSET Xids /\ gone' \in SUBSET Xids
          /\ misled' \in SUBSET Xids /\ term' \in BOOLEAN
      BY <2>3
    <3> QED BY <2>2, <3>1, <3>2
  <2> QED BY <2>4, <2>5
<1>12. CASE AppGrabs
  BY <1>12 DEF AppGrabs
<1>13. CASE AppReleases
  BY <1>13 DEF AppReleases
<1>14. CASE ServerBreaksGrab
  BY <1>14 DEF ServerBreaksGrab
<1>15. CASE Start
  BY <1>15 DEF Start, RaiseLocker, SetupWindowMonitor
<1>16. CASE SigtermReceived
  BY <1>16, EmptySeq, ZenonT(60) DEF SigtermReceived, Exit, LetGo, Dispatching
<1>17. CASE CompositedChanged
  BY <1>17, ZenonT(60) DEF CompositedChanged, Dispatching, RaiseLocker, LetGo, Room
<1>18. CASE CompositedFails
  BY <1>18, EmptySeq, ZenonT(60) DEF CompositedFails, Exit, LetGo, Dispatching
<1>19. CASE ActivateForNothing
  BY <1>19, ZenonT(60) DEF ActivateForNothing, Dispatching
<1>20. CASE ActivateGrabsRoot
  BY <1>20 DEF ActivateGrabsRoot, Dispatching
<1>21. CASE MoveToWindow
  BY <1>21 DEF MoveToWindow
<1>22. CASE WindowGrabBroken
  BY <1>22 DEF WindowGrabBroken, Dispatching
<1>23. CASE Restack
  <2>1. events' \in Seq(Windows) /\ Head(events) \in Windows
    BY <1>23, HeadTailProperties DEF Restack
  <2>2. Head(events) \in Alive => Head(events) \in Xids
    BY <2>1 DEF Alive
  <2>3. /\ filter_xid' \in Xids /\ pretty_xid' \in Xids \cup {None}
        /\ monitors' \in SUBSET Xids /\ should_grab' \in BOOLEAN /\ input' \in Owners
    BY <1>23, <2>1, <2>2 DEF Restack, SetupWindowMonitor, BackupWindowUngrab, LetGo, IsNewStage
  <2>4. saverEvents' \in {saverEvents, stage # None} /\ stageOnTop' \in BOOLEAN
    BY <1>23 DEF Restack, RaiseLocker
  <2> QED BY <1>23, <2>1, <2>3, <2>4 DEF Restack, Dispatching
<1>24. CASE UNCHANGED vars
  BY <1>24 DEF vars
<1> QED
  BY <1>1, <1>2, <1>3, <1>4, <1>5, <1>6, <1>7, <1>8, <1>9, <1>10, <1>11, <1>12, <1>13,
     <1>14, <1>15, <1>16, <1>17, <1>18, <1>19, <1>20, <1>21, <1>22, <1>23, <1>24
  DEF Next, Saver, Apps, Locker

\* An id is used for one window only, and whoever looks at a window has been shown it.
LEMMA IdsStep == TypeOK /\ IdsAreSpent /\ [Next]_vars => IdsAreSpent'
<1> SUFFICES ASSUME TypeOK /\ IdsAreSpent, [Next]_vars PROVE IdsAreSpent'
  OBVIOUS
<1> USE LockerAssumption DEF TypeOK, IdsAreSpent, Alive,
          saverVars, serverVars, lockerVars, grabVars, monitorVars
<1>1. ASSUME NEW w \in Xids, StageMaps(w) PROVE IdsAreSpent'
  BY <1>1 DEF StageMaps, Room, TellLocker
<1>2. ASSUME NEW w \in Xids, MonitorEnds(w) PROVE IdsAreSpent'
  BY <1>2 DEF MonitorEnds
<1>3. ASSUME NEW w \in Xids, ScreensaverWindowGone(w) PROVE IdsAreSpent'
  BY <1>3 DEF ScreensaverWindowGone, Dispatching, IsWatched
<1>4. CASE OldStageGoes
  BY <1>4 DEF OldStageGoes
<1>5. CASE Unlock
  BY <1>5 DEF Unlock, LetGo
<1>6. CASE KillFallback
  BY <1>6 DEF KillFallback
<1>7. CASE Crash
  BY <1>7 DEF Crash, LetGo
<1>8. CASE SaverGrabs
  BY <1>8 DEF SaverGrabs
<1>9. CASE SaverReleases
  BY <1>9 DEF SaverReleases
<1>10. CASE SaverRaises
  BY <1>10 DEF SaverRaises, TellLocker
<1>11. CASE AppMaps
  BY <1>11 DEF AppMaps, Room, TellLocker
<1>12. CASE AppGrabs
  BY <1>12 DEF AppGrabs
<1>13. CASE AppReleases
  BY <1>13 DEF AppReleases
<1>14. CASE ServerBreaksGrab
  BY <1>14 DEF ServerBreaksGrab
<1>15. CASE Start
  BY <1>15 DEF Start, RaiseLocker, SetupWindowMonitor
<1>16. CASE SigtermReceived
  BY <1>16 DEF SigtermReceived, Exit, LetGo, Dispatching
<1>17. CASE CompositedChanged
  BY <1>17 DEF CompositedChanged, Dispatching, RaiseLocker, LetGo, Room
<1>18. CASE CompositedFails
  BY <1>18 DEF CompositedFails, Exit, LetGo, Dispatching
<1>19. CASE ActivateForNothing
  BY <1>19 DEF ActivateForNothing, Dispatching
<1>20. CASE ActivateGrabsRoot
  BY <1>20 DEF ActivateGrabsRoot, Dispatching
<1>21. CASE MoveToWindow
  BY <1>21 DEF MoveToWindow
<1>22. CASE WindowGrabBroken
  BY <1>22 DEF WindowGrabBroken, Dispatching
<1>23. CASE Restack
  BY <1>23
  DEF Restack, Dispatching, RaiseLocker, SetupWindowMonitor, BackupWindowUngrab, LetGo,
      IsNewStage
<1>24. CASE UNCHANGED vars
  BY <1>24 DEF vars
<1> QED
  BY <1>1, <1>2, <1>3, <1>4, <1>5, <1>6, <1>7, <1>8, <1>9, <1>10, <1>11, <1>12, <1>13,
     <1>14, <1>15, <1>16, <1>17, <1>18, <1>19, <1>20, <1>21, <1>22, <1>23, <1>24
  DEF Next, Saver, Apps, Locker

\* A window that was taken for gone does not come back.
LEMMA GoneStep == TypeOK /\ IdsAreSpent /\ GoneIsGone /\ [Next]_vars => GoneIsGone'
<1> SUFFICES ASSUME TypeOK /\ IdsAreSpent /\ GoneIsGone, [Next]_vars PROVE GoneIsGone'
  OBVIOUS
<1> USE LockerAssumption DEF TypeOK, IdsAreSpent, GoneIsGone, Alive,
          saverVars, serverVars, lockerVars, grabVars, monitorVars
<1>1. ASSUME NEW w \in Xids, StageMaps(w) PROVE GoneIsGone'
  BY <1>1 DEF StageMaps, Room, TellLocker
<1>2. ASSUME NEW w \in Xids, MonitorEnds(w) PROVE GoneIsGone'
  BY <1>2 DEF MonitorEnds
<1>3. ASSUME NEW w \in Xids, ScreensaverWindowGone(w) PROVE GoneIsGone'
  BY <1>3 DEF ScreensaverWindowGone, Dispatching, IsWatched
<1>4. CASE OldStageGoes
  BY <1>4 DEF OldStageGoes
<1>5. CASE Unlock
  BY <1>5 DEF Unlock, LetGo
<1>6. CASE KillFallback
  BY <1>6 DEF KillFallback
<1>7. CASE Crash
  BY <1>7 DEF Crash, LetGo
<1>8. CASE SaverGrabs
  BY <1>8 DEF SaverGrabs
<1>9. CASE SaverReleases
  BY <1>9 DEF SaverReleases
<1>10. CASE SaverRaises
  BY <1>10 DEF SaverRaises, TellLocker
<1>11. CASE AppMaps
  BY <1>11 DEF AppMaps, Room, TellLocker
<1>12. CASE AppGrabs
  BY <1>12 DEF AppGrabs
<1>13. CASE AppReleases
  BY <1>13 DEF AppReleases
<1>14. CASE ServerBreaksGrab
  BY <1>14 DEF ServerBreaksGrab
<1>15. CASE Start
  BY <1>15 DEF Start, RaiseLocker, SetupWindowMonitor
<1>16. CASE SigtermReceived
  BY <1>16 DEF SigtermReceived, Exit, LetGo, Dispatching
<1>17. CASE CompositedChanged
  BY <1>17 DEF CompositedChanged, Dispatching, RaiseLocker, LetGo, Room
<1>18. CASE CompositedFails
  BY <1>18 DEF CompositedFails, Exit, LetGo, Dispatching
<1>19. CASE ActivateForNothing
  BY <1>19 DEF ActivateForNothing, Dispatching
<1>20. CASE ActivateGrabsRoot
  BY <1>20 DEF ActivateGrabsRoot, Dispatching
<1>21. CASE MoveToWindow
  BY <1>21 DEF MoveToWindow
<1>22. CASE WindowGrabBroken
  BY <1>22 DEF WindowGrabBroken, Dispatching
<1>23. CASE Restack
  BY <1>23
  DEF Restack, Dispatching, RaiseLocker, SetupWindowMonitor, BackupWindowUngrab, LetGo,
      IsNewStage
<1>24. CASE UNCHANGED vars
  BY <1>24 DEF vars
<1> QED
  BY <1>1, <1>2, <1>3, <1>4, <1>5, <1>6, <1>7, <1>8, <1>9, <1>10, <1>11, <1>12, <1>13,
     <1>14, <1>15, <1>16, <1>17, <1>18, <1>19, <1>20, <1>21, <1>22, <1>23, <1>24
  DEF Next, Saver, Apps, Locker

-----------------------------------------------------------------------------
(* The properties of the grab. *)

\* The locker has the input only if it should, and would hear of its loss.
LEMMA GrabStep == TypeOK /\ GrabIsMeant /\ [Next]_vars => GrabIsMeant'
<1> SUFFICES ASSUME TypeOK /\ GrabIsMeant, [Next]_vars PROVE GrabIsMeant'
  OBVIOUS
<1> USE LockerAssumption DEF TypeOK, GrabIsMeant,
          saverVars, serverVars, lockerVars, grabVars, monitorVars
<1>1. ASSUME NEW w \in Xids, StageMaps(w) PROVE GrabIsMeant'
  BY <1>1 DEF StageMaps, Room, TellLocker
<1>2. ASSUME NEW w \in Xids, MonitorEnds(w) PROVE GrabIsMeant'
  BY <1>2 DEF MonitorEnds
<1>3. ASSUME NEW w \in Xids, ScreensaverWindowGone(w) PROVE GrabIsMeant'
  BY <1>3 DEF ScreensaverWindowGone, Dispatching, IsWatched
<1>4. CASE OldStageGoes
  BY <1>4 DEF OldStageGoes
<1>5. CASE Unlock
  BY <1>5 DEF Unlock, LetGo
<1>6. CASE KillFallback
  BY <1>6 DEF KillFallback
<1>7. CASE Crash
  BY <1>7 DEF Crash, LetGo
<1>8. CASE SaverGrabs
  BY <1>8 DEF SaverGrabs
<1>9. CASE SaverReleases
  BY <1>9 DEF SaverReleases
<1>10. CASE SaverRaises
  BY <1>10 DEF SaverRaises, TellLocker
<1>11. CASE AppMaps
  BY <1>11 DEF AppMaps, Room, TellLocker
<1>12. CASE AppGrabs
  BY <1>12 DEF AppGrabs
<1>13. CASE AppReleases
  BY <1>13 DEF AppReleases
<1>14. CASE ServerBreaksGrab
  BY <1>14 DEF ServerBreaksGrab
<1>15. CASE Start
  BY <1>15 DEF Start, RaiseLocker, SetupWindowMonitor
<1>16. CASE SigtermReceived
  BY <1>16 DEF SigtermReceived, Exit, LetGo, Dispatching
<1>17. CASE CompositedChanged
  BY <1>17 DEF CompositedChanged, Dispatching, RaiseLocker, LetGo, Room
<1>18. CASE CompositedFails
  BY <1>18 DEF CompositedFails, Exit, LetGo, Dispatching
<1>19. CASE ActivateForNothing
  BY <1>19 DEF ActivateForNothing, Dispatching
<1>20. CASE ActivateGrabsRoot
  BY <1>20 DEF ActivateGrabsRoot, Dispatching
<1>21. CASE MoveToWindow
  BY <1>21 DEF MoveToWindow
<1>22. CASE WindowGrabBroken
  BY <1>22 DEF WindowGrabBroken, Dispatching
<1>23. CASE Restack
  BY <1>23
  DEF Restack, Dispatching, RaiseLocker, SetupWindowMonitor, BackupWindowUngrab, LetGo,
      IsNewStage
<1>24. CASE UNCHANGED vars
  BY <1>24 DEF vars
<1> QED
  BY <1>1, <1>2, <1>3, <1>4, <1>5, <1>6, <1>7, <1>8, <1>9, <1>10, <1>11, <1>12, <1>13,
     <1>14, <1>15, <1>16, <1>17, <1>18, <1>19, <1>20, <1>21, <1>22, <1>23, <1>24
  DEF Next, Saver, Apps, Locker

\* Whatever takes the input from the locker leaves something that gets it back.
LEMMA PursuedStep == TypeOK /\ GrabIsMeant /\ GrabIsPursued /\ [Next]_vars => GrabIsPursued'
<1> SUFFICES ASSUME TypeOK /\ GrabIsMeant /\ GrabIsPursued, [Next]_vars PROVE GrabIsPursued'
  OBVIOUS
<1> USE LockerAssumption DEF TypeOK, GrabIsMeant, GrabIsPursued,
          saverVars, serverVars, lockerVars, grabVars, monitorVars
<1>1. ASSUME NEW w \in Xids, StageMaps(w) PROVE GrabIsPursued'
  BY <1>1 DEF StageMaps, Room, TellLocker
<1>2. ASSUME NEW w \in Xids, MonitorEnds(w) PROVE GrabIsPursued'
  BY <1>2 DEF MonitorEnds
<1>3. ASSUME NEW w \in Xids, ScreensaverWindowGone(w) PROVE GrabIsPursued'
  BY <1>3 DEF ScreensaverWindowGone, Dispatching, IsWatched
<1>4. CASE OldStageGoes
  BY <1>4 DEF OldStageGoes
<1>5. CASE Unlock
  BY <1>5 DEF Unlock, LetGo
<1>6. CASE KillFallback
  BY <1>6 DEF KillFallback
<1>7. CASE Crash
  BY <1>7 DEF Crash, LetGo
<1>8. CASE SaverGrabs
  BY <1>8 DEF SaverGrabs
<1>9. CASE SaverReleases
  BY <1>9 DEF SaverReleases
<1>10. CASE SaverRaises
  BY <1>10 DEF SaverRaises, TellLocker
<1>11. CASE AppMaps
  BY <1>11 DEF AppMaps, Room, TellLocker
<1>12. CASE AppGrabs
  BY <1>12 DEF AppGrabs
<1>13. CASE AppReleases
  BY <1>13 DEF AppReleases
<1>14. CASE ServerBreaksGrab
  BY <1>14 DEF ServerBreaksGrab
<1>15. CASE Start
  BY <1>15 DEF Start, RaiseLocker, SetupWindowMonitor
<1>16. CASE SigtermReceived
  BY <1>16 DEF SigtermReceived, Exit, LetGo, Dispatching
<1>17. CASE CompositedChanged
  BY <1>17 DEF CompositedChanged, Dispatching, RaiseLocker, LetGo, Room
<1>18. CASE CompositedFails
  BY <1>18 DEF CompositedFails, Exit, LetGo, Dispatching
<1>19. CASE ActivateForNothing
  BY <1>19 DEF ActivateForNothing, Dispatching
<1>20. CASE ActivateGrabsRoot
  BY <1>20 DEF ActivateGrabsRoot, Dispatching
<1>21. CASE MoveToWindow
  BY <1>21 DEF MoveToWindow
<1>22. CASE WindowGrabBroken
  BY <1>22 DEF WindowGrabBroken, Dispatching
<1>23. CASE Restack
  BY <1>23
  DEF Restack, Dispatching, RaiseLocker, SetupWindowMonitor, BackupWindowUngrab, LetGo,
      IsNewStage
<1>24. CASE UNCHANGED vars
  BY <1>24 DEF vars
<1> QED
  BY <1>1, <1>2, <1>3, <1>4, <1>5, <1>6, <1>7, <1>8, <1>9, <1>10, <1>11, <1>12, <1>13,
     <1>14, <1>15, <1>16, <1>17, <1>18, <1>19, <1>20, <1>21, <1>22, <1>23, <1>24
  DEF Next, Saver, Apps, Locker

\* The locker turns to the input only once the window it knows is gone.
LEMMA KnownStep ==
  TypeOK /\ IdsAreSpent /\ GoneIsGone /\ GrabIsMeant /\ KnownStageIsLeftAlone /\ [Next]_vars => KnownStageIsLeftAlone'
<1> SUFFICES ASSUME TypeOK /\ IdsAreSpent /\ GoneIsGone /\ GrabIsMeant /\ KnownStageIsLeftAlone, [Next]_vars
             PROVE KnownStageIsLeftAlone'
  OBVIOUS
<1> USE LockerAssumption DEF TypeOK, IdsAreSpent, GoneIsGone, GrabIsMeant, KnownStageIsLeftAlone, Alive,
        saverVars, serverVars, lockerVars, grabVars, monitorVars
<1>1. ASSUME NEW w \in Xids, StageMaps(w) PROVE KnownStageIsLeftAlone'
  BY <1>1 DEF StageMaps, Room, TellLocker
<1>2. ASSUME NEW w \in Xids, MonitorEnds(w) PROVE KnownStageIsLeftAlone'
  BY <1>2 DEF MonitorEnds
<1>3. ASSUME NEW w \in Xids, ScreensaverWindowGone(w) PROVE KnownStageIsLeftAlone'
  BY <1>3 DEF ScreensaverWindowGone, Dispatching, IsWatched
<1>4. CASE OldStageGoes
  BY <1>4 DEF OldStageGoes
<1>5. CASE Unlock
  BY <1>5 DEF Unlock, LetGo
<1>6. CASE KillFallback
  BY <1>6 DEF KillFallback
<1>7. CASE Crash
  BY <1>7 DEF Crash, LetGo
<1>8. CASE SaverGrabs
  BY <1>8 DEF SaverGrabs
<1>9. CASE SaverReleases
  BY <1>9 DEF SaverReleases
<1>10. CASE SaverRaises
  BY <1>10 DEF SaverRaises, TellLocker
<1>11. CASE AppMaps
  BY <1>11 DEF AppMaps, Room, TellLocker
<1>12. CASE AppGrabs
  BY <1>12 DEF AppGrabs
<1>13. CASE AppReleases
  BY <1>13 DEF AppReleases
<1>14. CASE ServerBreaksGrab
  BY <1>14 DEF ServerBreaksGrab
<1>15. CASE Start
  BY <1>15 DEF Start, RaiseLocker, SetupWindowMonitor
<1>16. CASE SigtermReceived
  BY <1>16 DEF SigtermReceived, Exit, LetGo, Dispatching
<1>17. CASE CompositedChanged
  BY <1>17 DEF CompositedChanged, Dispatching, RaiseLocker, LetGo, Room
<1>18. CASE CompositedFails
  BY <1>18 DEF CompositedFails, Exit, LetGo, Dispatching
<1>19. CASE ActivateForNothing
  BY <1>19 DEF ActivateForNothing, Dispatching
<1>20. CASE ActivateGrabsRoot
  BY <1>20 DEF ActivateGrabsRoot, Dispatching
<1>21. CASE MoveToWindow
  BY <1>21 DEF MoveToWindow
<1>22. CASE WindowGrabBroken
  BY <1>22 DEF WindowGrabBroken, Dispatching
<1>23. CASE Restack
  BY <1>23
  DEF Restack, Dispatching, RaiseLocker, SetupWindowMonitor, BackupWindowUngrab, LetGo,
      IsNewStage
<1>24. CASE UNCHANGED vars
  BY <1>24 DEF vars
<1> QED
  BY <1>1, <1>2, <1>3, <1>4, <1>5, <1>6, <1>7, <1>8, <1>9, <1>10, <1>11, <1>12, <1>13,
     <1>14, <1>15, <1>16, <1>17, <1>18, <1>19, <1>20, <1>21, <1>22, <1>23, <1>24
  DEF Next, Saver, Apps, Locker

\* What watches a window is never given up before the window is.
LEMMA WatchedStep == TypeOK /\ WatchedIsMonitored /\ [Next]_vars => WatchedIsMonitored'
<1> SUFFICES ASSUME TypeOK /\ WatchedIsMonitored, [Next]_vars PROVE WatchedIsMonitored'
  OBVIOUS
<1> USE LockerAssumption DEF TypeOK, WatchedIsMonitored,
          saverVars, serverVars, lockerVars, grabVars, monitorVars
<1>1. ASSUME NEW w \in Xids, StageMaps(w) PROVE WatchedIsMonitored'
  BY <1>1 DEF StageMaps, Room, TellLocker
<1>2. ASSUME NEW w \in Xids, MonitorEnds(w) PROVE WatchedIsMonitored'
  BY <1>2 DEF MonitorEnds
<1>3. ASSUME NEW w \in Xids, ScreensaverWindowGone(w) PROVE WatchedIsMonitored'
  BY <1>3 DEF ScreensaverWindowGone, Dispatching, IsWatched
<1>4. CASE OldStageGoes
  BY <1>4 DEF OldStageGoes
<1>5. CASE Unlock
  BY <1>5 DEF Unlock, LetGo
<1>6. CASE KillFallback
  BY <1>6 DEF KillFallback
<1>7. CASE Crash
  BY <1>7 DEF Crash, LetGo
<1>8. CASE SaverGrabs
  BY <1>8 DEF SaverGrabs
<1>9. CASE SaverReleases
  BY <1>9 DEF SaverReleases
<1>10. CASE SaverRaises
  BY <1>10 DEF SaverRaises, TellLocker
<1>11. CASE AppMaps
  BY <1>11 DEF AppMaps, Room, TellLocker
<1>12. CASE AppGrabs
  BY <1>12 DEF AppGrabs
<1>13. CASE AppReleases
  BY <1>13 DEF AppReleases
<1>14. CASE ServerBreaksGrab
  BY <1>14 DEF ServerBreaksGrab
<1>15. CASE Start
  BY <1>15 DEF Start, RaiseLocker, SetupWindowMonitor
<1>16. CASE SigtermReceived
  BY <1>16 DEF SigtermReceived, Exit, LetGo, Dispatching
<1>17. CASE CompositedChanged
  BY <1>17 DEF CompositedChanged, Dispatching, RaiseLocker, LetGo, Room
<1>18. CASE CompositedFails
  BY <1>18 DEF CompositedFails, Exit, LetGo, Dispatching
<1>19. CASE ActivateForNothing
  BY <1>19 DEF ActivateForNothing, Dispatching
<1>20. CASE ActivateGrabsRoot
  BY <1>20 DEF ActivateGrabsRoot, Dispatching
<1>21. CASE MoveToWindow
  BY <1>21 DEF MoveToWindow
<1>22. CASE WindowGrabBroken
  BY <1>22 DEF WindowGrabBroken, Dispatching
<1>23. CASE Restack
  BY <1>23
  DEF Restack, Dispatching, RaiseLocker, SetupWindowMonitor, BackupWindowUngrab, LetGo,
      IsNewStage
<1>24. CASE UNCHANGED vars
  BY <1>24 DEF vars
<1> QED
  BY <1>1, <1>2, <1>3, <1>4, <1>5, <1>6, <1>7, <1>8, <1>9, <1>10, <1>11, <1>12, <1>13,
     <1>14, <1>15, <1>16, <1>17, <1>18, <1>19, <1>20, <1>21, <1>22, <1>23, <1>24
  DEF Next, Saver, Apps, Locker

-----------------------------------------------------------------------------
(* The theorems. *)

\* The invariant holds at first,
LEMMA InitInv == Init => IInv
<1> SUFFICES ASSUME Init PROVE IInv
  OBVIOUS
<1> USE LockerAssumption DEF Init, Alive
<1>1. TypeOK
  BY EmptySeq DEF TypeOK, Windows, Owners, Lives
<1>2. StartsWatching /\ IdsAreSpent /\ GoneIsGone /\ GrabIsMeant
  BY DEF StartsWatching, IdsAreSpent, GoneIsGone, GrabIsMeant
<1>3. KnownStageIsLeftAlone /\ WatchedIsMonitored /\ GrabIsPursued
  BY DEF KnownStageIsLeftAlone, WatchedIsMonitored, GrabIsPursued
<1> QED BY <1>1, <1>2, <1>3 DEF IInv

\* is kept by every step,
LEMMA StepInv == IInv /\ [Next]_vars => IInv'
  BY TypeStep, IdsStep, GoneStep, GrabStep, PursuedStep, KnownStep, WatchedStep DEF IInv

\* and so always.
LEMMA SpecInv == Spec => []IInv
  BY InitInv, StepInv, PTL DEF Spec

\* Every variable has its type.
THEOREM TypeCorrect == Spec => []TypeOK
<1>1. IInv => TypeOK
  BY DEF IInv
<1> QED BY SpecInv, <1>1, PTL

\* The locker neither has the input nor means to have it while the last window it was
\* told of is there (screensaver_window_gone, restack).
THEOREM LeavesKnownStageAlone == Spec => []KnownStageIsLeftAlone
<1>1. IInv => KnownStageIsLeftAlone
  BY DEF IInv
<1> QED BY SpecInv, <1>1, PTL

\* The end of the watched window cannot be missed (setup_window_monitor).
THEOREM MonitorsWatched == Spec => []WatchedIsMonitored
<1>1. IInv => WatchedIsMonitored
  BY DEF IInv
<1> QED BY SpecInv, <1>1, PTL

\* No grab that failed or was broken is the last one (activate_backup_window_cb,
\* window_grab_broken, update_for_compositing).
THEOREM PursuesGrab == Spec => []GrabIsPursued
<1>1. IInv => GrabIsPursued
  BY DEF IInv
<1> QED BY SpecInv, <1>1, PTL
-----------------------------------------------------------------------------
(* What Fallback promises. *)

\* It covers exactly while there is no window that it watches.
CoversUnwatched == should_grab <=> pretty_xid = None

LEMMA CoversStep == IInv /\ CoversUnwatched /\ [Next]_vars => CoversUnwatched'
<1> SUFFICES ASSUME IInv, CoversUnwatched, [Next]_vars PROVE CoversUnwatched'
  OBVIOUS
<1> USE LockerAssumption DEF IInv, TypeOK, CoversUnwatched, grabVars, monitorVars, lockerVars
<1>1. ASSUME NEW w \in Xids, MonitorEnds(w) \/ ScreensaverWindowGone(w) PROVE CoversUnwatched'
  BY <1>1 DEF MonitorEnds, ScreensaverWindowGone
<1>2. CASE Start
  BY <1>2 DEF Start, SetupWindowMonitor, StartsWatching
<1>3. CASE Restack
  <2>1. CASE IsNewStage(Head(events))
    <3>1. Head(events) # None /\ SetupWindowMonitor(Head(events))
      BY <1>3, <2>1 DEF Restack, IsNewStage, Alive
    <3> QED BY <3>1 DEF SetupWindowMonitor
  <2>2. CASE ~IsNewStage(Head(events))
    BY <1>3, <2>2 DEF Restack
  <2> QED BY <2>1, <2>2
<1>4. CASE SigtermReceived \/ CompositedFails \/ CompositedChanged
  BY <1>4 DEF SigtermReceived, CompositedFails, Exit, CompositedChanged
<1>5. CASE ActivateForNothing \/ ActivateGrabsRoot \/ MoveToWindow \/ WindowGrabBroken
  BY <1>5 DEF ActivateForNothing, ActivateGrabsRoot, MoveToWindow, WindowGrabBroken
<1>6. CASE Saver
  BY <1>6 DEF Saver, StageMaps, OldStageGoes, Unlock, KillFallback, Crash, SaverGrabs,
              SaverReleases, SaverRaises
<1>7. CASE Apps
  BY <1>7 DEF Apps, AppMaps, AppGrabs, AppReleases, ServerBreaksGrab
<1>8. CASE UNCHANGED vars
  BY <1>8 DEF vars
<1> QED BY <1>1, <1>2, <1>3, <1>4, <1>5, <1>6, <1>7, <1>8 DEF Next, Locker

\* The locker has an attempt under way, or one that will be made.
Tries == activateIdle \/ moving \/ (grabBroken /\ connected)

\* A step that Fallback allows.
Kept == [Promise!Next]_(Promise!vars)

\* What the screensaver does with its windows.
LEMMA SaverKept ==
  ASSUME IInv, Saver
  PROVE  Kept
<1> USE LockerAssumption DEF Kept, Promise!Next, Promise!vars, Promise!saverVars, Alive,
          saverVars, serverVars, lockerVars, grabVars, monitorVars
<1>1. ASSUME NEW w \in Xids, StageMaps(w) PROVE Kept
  <2>1. Promise!Appear(w)
    BY <1>1 DEF StageMaps, Promise!Appear
  <2> QED BY <2>1
<1>2. CASE OldStageGoes \/ Unlock \/ Crash
  <2>1. Promise!Vanish
    BY <1>2 DEF OldStageGoes, Unlock, Crash, LetGo, Promise!Vanish, Promise!LetGo
  <2> QED BY <2>1
<1>3. CASE SaverGrabs
  <2>1. Promise!OthersGrab
    BY <1>3 DEF SaverGrabs, Promise!OthersGrab
  <2> QED BY <2>1
<1>4. CASE SaverReleases
  <2>1. Promise!OthersRelease
    BY <1>4 DEF SaverReleases, Promise!OthersRelease
  <2> QED BY <2>1
<1>5. CASE KillFallback \/ SaverRaises
  BY <1>5 DEF KillFallback, SaverRaises
<1> QED BY <1>1, <1>2, <1>3, <1>4, <1>5 DEF Saver

\* What applications and the server do to the input.
LEMMA AppsKept ==
  ASSUME IInv, Apps
  PROVE  Kept
<1> USE LockerAssumption DEF Kept, Promise!Next, Promise!vars, Promise!saverVars, Alive,
          saverVars, serverVars, lockerVars, grabVars, monitorVars
<1>1. CASE AppMaps
  BY <1>1 DEF AppMaps
<1>2. CASE AppGrabs
  <2>1. Promise!OthersGrab
    BY <1>2 DEF AppGrabs, Promise!OthersGrab
  <2> QED BY <2>1
<1>3. CASE AppReleases
  <2>1. Promise!OthersRelease
    BY <1>3 DEF AppReleases, Promise!OthersRelease
  <2> QED BY <2>1
<1>4. CASE ServerBreaksGrab
  <2>1. connected \/ activateIdle
    BY <1>4 DEF ServerBreaksGrab, IInv, GrabIsMeant
  <2>2. Promise!Lose
    BY <1>4, <2>1 DEF ServerBreaksGrab, Promise!Lose
  <2> QED BY <2>2
<1> QED BY <1>1, <1>2, <1>3, <1>4 DEF Apps

\* What the threads and their callbacks make of windows that go.
LEMMA MonitorsKept ==
  ASSUME IInv, CoversUnwatched, NEW w \in Xids, MonitorEnds(w) \/ ScreensaverWindowGone(w)
  PROVE  Kept
<1> USE LockerAssumption DEF Kept, Promise!Next, Promise!vars, Promise!saverVars,
          saverVars, serverVars, lockerVars, grabVars, monitorVars
<1>1. CASE MonitorEnds(w) /\ w \in Alive
  <2>1. {w} \cap Alive = {w}
    BY <1>1
  <2>2. Alive' = Alive /\ misled' = misled \cup {w}
    BY <1>1, <2>1 DEF MonitorEnds, Alive
  <2>3. UNCHANGED <<unused, filter_xid, locker, should_grab, Tries, input>>
    BY <1>1 DEF MonitorEnds, Tries
  <2>4. Promise!Mistake(w)
    BY <1>1, <2>2, <2>3 DEF MonitorEnds, Tries, Promise!Mistake
  <2> QED BY <2>4
<1>2. CASE MonitorEnds(w) /\ w \notin Alive
  <2>1. misled' = misled /\ Alive' = Alive
    BY <1>2 DEF MonitorEnds, Alive
  <2> QED BY <1>2, <2>1 DEF MonitorEnds
<1>3. CASE ScreensaverWindowGone(w) /\ w = pretty_xid
  <2>1. w = filter_xid /\ ~should_grab
    BY <1>3 DEF IInv, IdsAreSpent, CoversUnwatched
  <2>2. filter_xid \notin Alive \ misled
    BY <1>3, <2>1 DEF ScreensaverWindowGone, IInv, GoneIsGone
  <2>3. Promise!TakeOver
    BY <1>3, <2>1, <2>2
    DEF ScreensaverWindowGone, IsWatched, Dispatching, Alive, Promise!TakeOver
  <2> QED BY <2>3
<1>4. CASE ScreensaverWindowGone(w) /\ w # pretty_xid
  BY <1>4 DEF ScreensaverWindowGone, IsWatched, Alive
<1> QED BY <1>1, <1>2, <1>3, <1>4

\* What the attempts at the input come to.
LEMMA AttemptsKept ==
  ASSUME IInv, ActivateForNothing \/ ActivateGrabsRoot \/ MoveToWindow \/ WindowGrabBroken
  PROVE  Kept
<1> USE LockerAssumption DEF Kept, Promise!Next, Promise!vars, Promise!saverVars, Alive,
          saverVars, serverVars, lockerVars, grabVars, monitorVars, IInv, TypeOK
<1>1. CASE ActivateForNothing
  <2>1. CASE Tries'
    BY <1>1, <2>1 DEF ActivateForNothing, Tries
  <2>2. CASE ~Tries'
    <3>1. Promise!Rest
      BY <1>1, <2>2 DEF ActivateForNothing, Tries, Promise!Rest
    <3> QED BY <3>1
  <2> QED BY <2>1, <2>2
<1>2. CASE ActivateGrabsRoot /\ input = "free"
  BY <1>2 DEF ActivateGrabsRoot
<1>3. CASE ActivateGrabsRoot /\ input = "locker"
  <2>1. Promise!Lose
    BY <1>3 DEF ActivateGrabsRoot, Promise!Lose
  <2> QED BY <2>1
<1>4. CASE MoveToWindow
  <2>1. Promise!Take
    BY <1>4 DEF MoveToWindow, GrabIsMeant, Promise!Take
  <2> QED BY <2>1
<1>5. CASE WindowGrabBroken
  <2>1. CASE Tries' <=> Tries
    BY <1>5, <2>1 DEF WindowGrabBroken, Tries
  <2>2. CASE ~(Tries' <=> Tries)
    <3>1. ~should_grab /\ ~Tries'
      BY <1>5, <2>2 DEF WindowGrabBroken, Tries
    <3>2. Promise!Rest
      BY <1>5, <3>1 DEF WindowGrabBroken, Tries, Promise!Rest
    <3> QED BY <3>2
  <2> QED BY <2>1, <2>2
<1> QED BY <1>1, <1>2, <1>3, <1>4, <1>5 DEF ActivateGrabsRoot

\* What the locker makes of windows that are mapped or raised.
LEMMA RestackKept ==
  ASSUME IInv, Restack
  PROVE  Kept
<1> USE LockerAssumption DEF Kept, Promise!Next, Promise!vars, Promise!saverVars,
          saverVars, serverVars, lockerVars, grabVars, monitorVars
<1>1. UNCHANGED <<Alive, unused, misled, locker, Tries>>
  BY DEF Restack, Alive, Tries
<1>2. CASE IsNewStage(Head(events))
  <2> DEFINE w == Head(events)
  <2>1. w \in Alive \ {filter_xid} /\ w \in Xids
    BY <1>2 DEF IsNewStage, Alive, IInv, TypeOK
  <2>2. filter_xid' = w /\ ~should_grab' /\ input' = IF input = "locker" THEN "free" ELSE input
    BY <1>2 DEF Restack, BackupWindowUngrab, LetGo, SetupWindowMonitor
  <2>3. Promise!GiveWay(w)
    BY <1>1, <2>1, <2>2 DEF Restack, Dispatching, Tries, Promise!GiveWay, Promise!LetGo
  <2> QED BY <2>1, <2>3
<1>3. CASE ~IsNewStage(Head(events))
  <2>1. UNCHANGED <<filter_xid, input, should_grab>>
    BY <1>3 DEF Restack
  <2> QED BY <1>1, <2>1 DEF Tries
<1> QED BY <1>2, <1>3

\* The life of the process, and of its window.
LEMMA ProcessKept ==
  ASSUME IInv, CoversUnwatched,
         Start \/ SigtermReceived \/ CompositedFails \/ CompositedChanged
  PROVE  Kept
<1> USE LockerAssumption DEF Kept, Promise!Next, Promise!vars, Promise!saverVars, Alive,
          saverVars, serverVars, lockerVars, grabVars, monitorVars
<1>1. CASE Start
  <2>1. ~should_grab
    BY <1>1 DEF Start, IInv, StartsWatching, CoversUnwatched
  <2>2. should_grab' = should_grab
    BY <1>1, <2>1 DEF Start, SetupWindowMonitor, IInv, TypeOK
  <2>3. Promise!Begin
    BY <1>1, <2>2 DEF Start, Promise!Begin
  <2> QED BY <2>3
<1>2. CASE SigtermReceived \/ CompositedFails
  <2>1. Exit /\ locker # "dead"
    BY <1>2 DEF SigtermReceived, CompositedFails, Dispatching
  <2>2. Promise!End
    BY <2>1 DEF Exit, LetGo, Promise!End, Promise!LetGo
  <2> QED BY <2>2
<1>3. CASE CompositedChanged /\ input = "locker"
  <2>1. should_grab
    BY <1>3 DEF IInv, GrabIsMeant
  <2>2. Promise!Lose
    BY <1>3, <2>1 DEF CompositedChanged, LetGo, Promise!Lose
  <2> QED BY <2>2
<1>4. CASE CompositedChanged /\ input # "locker"
  <2>1. UNCHANGED <<input, grabBroken, connected, moving>>
    <3>1. grabBroken' \in {grabBroken, grabBroken \/ FALSE}
      BY <1>4 DEF CompositedChanged
    <3> QED BY <1>4, <3>1 DEF CompositedChanged, LetGo, IInv, TypeOK
  <2>2. activateIdle' = (activateIdle \/ should_grab) /\ locker = "running"
    BY <1>4 DEF CompositedChanged, Dispatching
  <2>3. should_grab => Tries
    BY <1>4, <2>2 DEF IInv, GrabIsPursued, Tries
  <2>4. Tries' <=> Tries
    BY <2>1, <2>2, <2>3 DEF Tries
  <2> QED BY <1>4, <2>1, <2>4 DEF CompositedChanged, Tries
<1> QED BY <1>1, <1>2, <1>3, <1>4

\* Every step is one of Fallback, or is not seen by it.
LEMMA PromiseStep == IInv /\ CoversUnwatched /\ [Next]_vars => [Promise!Next]_(Promise!vars)
<1> SUFFICES ASSUME IInv, CoversUnwatched, [Next]_vars PROVE Kept
  BY DEF Kept
<1>1. ASSUME NEW w \in Xids, MonitorEnds(w) \/ ScreensaverWindowGone(w) PROVE Kept
  BY <1>1, MonitorsKept
<1>2. CASE ActivateForNothing \/ ActivateGrabsRoot \/ MoveToWindow \/ WindowGrabBroken
  BY <1>2, AttemptsKept
<1>3. CASE Restack
  BY <1>3, RestackKept
<1>4. CASE Start \/ SigtermReceived \/ CompositedFails \/ CompositedChanged
  BY <1>4, ProcessKept
<1>5. CASE Saver
  BY <1>5, SaverKept
<1>6. CASE Apps
  BY <1>6, AppsKept
<1>7. CASE UNCHANGED vars
  BY <1>7 DEF Kept, Promise!vars, Promise!saverVars, Alive, vars, saverVars, serverVars,
              lockerVars, grabVars, monitorVars
<1> QED BY <1>1, <1>2, <1>3, <1>4, <1>5, <1>6, <1>7 DEF Next, Locker

\* The locker implements Fallback for any number of windows, of unread events and of failures
\* of xprop: it covers only for a window that is gone or was taken for gone by mistake, takes
\* the input from nobody, and does not rest without it while it covers.
THEOREM KeepsThePromise == Spec => KeepsPromise
<1>1. Init => Promise!Init /\ CoversUnwatched
  BY LockerAssumption DEF Init, Promise!Init, CoversUnwatched, Alive
<1>2. CoversUnwatched /\ IInv /\ [Next]_vars => CoversUnwatched'
  BY CoversStep DEF IInv
<1> QED BY <1>1, <1>2, SpecInv, PromiseStep, PTL DEF Spec, KeepsPromise, Promise!Spec

\* What Fallback alone entails: what keeps the input of a covered session from being given up.
FallbackInv ==
  /\ input = "locker" => locker = "running" /\ should_grab
  /\ locker = "starting" => ~should_grab
  /\ locker = "running" /\ should_grab => input = "locker" \/ Tries
  /\ Alive \cap unused = {} /\ filter_xid \notin unused
  /\ should_grab => filter_xid \notin Alive \ misled

\* Whatever implements Fallback pursues its grabs and leaves a known stage alone: GrabIsPursued
\* and KnownStageIsLeftAlone follow from the promise, by no other step of the code.
THEOREM PromiseIsEnough == KeepsPromise => [](GrabIsPursued /\ KnownStageIsLeftAlone)
<1>1. Promise!Init => FallbackInv
  BY LockerAssumption DEF Promise!Init, FallbackInv
<1>2. FallbackInv /\ [Promise!Next]_(Promise!vars) => FallbackInv'
  <2> SUFFICES ASSUME FallbackInv, [Promise!Next]_(Promise!vars) PROVE FallbackInv'
    OBVIOUS
  <2> USE DEF FallbackInv, Tries, Promise!saverVars, Promise!LetGo
  <2>1. CASE Promise!Vanish
    BY <2>1 DEF Promise!Vanish
  <2>2. CASE Promise!OthersGrab \/ Promise!OthersRelease
    BY <2>2 DEF Promise!OthersGrab, Promise!OthersRelease
  <2>3. CASE Promise!Begin
    BY <2>3 DEF Promise!Begin
  <2>4. CASE Promise!End
    BY <2>4 DEF Promise!End
  <2>5. CASE Promise!TakeOver
    BY <2>5 DEF Promise!TakeOver
  <2>6. CASE Promise!Take
    BY <2>6 DEF Promise!Take
  <2>7. CASE Promise!Lose \/ Promise!Rest
    BY <2>7 DEF Promise!Lose, Promise!Rest
  <2>8. ASSUME NEW w \in Xids, Promise!Appear(w) PROVE FallbackInv'
    BY <2>8 DEF Promise!Appear
  <2>9. ASSUME NEW w \in Xids, Promise!Mistake(w) PROVE FallbackInv'
    BY <2>9 DEF Promise!Mistake
  <2>10. ASSUME NEW w \in Xids, Promise!GiveWay(w) PROVE FallbackInv'
    BY <2>10 DEF Promise!GiveWay
  <2>11. CASE UNCHANGED Promise!vars
    BY <2>11 DEF Promise!vars
  <2> QED
    BY <2>1, <2>2, <2>3, <2>4, <2>5, <2>6, <2>7, <2>8, <2>9, <2>10, <2>11 DEF Promise!Next
<1>3. FallbackInv => GrabIsPursued /\ KnownStageIsLeftAlone
  BY DEF FallbackInv, GrabIsPursued, KnownStageIsLeftAlone, Tries
<1> QED BY <1>1, <1>2, <1>3, PTL DEF KeepsPromise, Promise!Spec
=============================================================================
