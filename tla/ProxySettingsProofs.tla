------------------------ MODULE ProxySettingsProofs -------------------------
(***************************************************************************)
(* The safety properties of ProxySettings, for every set of settings and   *)
(* every bound: the inductive invariant IInv is kept by every step, one    *)
(* lemma for each of its parts.                                            *)
(***************************************************************************)
EXTENDS ProxySettings, TLAPS

\* The settings of the user, ChrNet's own and the marks are told apart.
LEMMA SettingsApart ==
  /\ Direct \in UserSettings /\ ChrNet \in OurSettings /\ OldChrNet \in OurSettings
  /\ \A s \in UserSettings \cup {Half, NoBackup} : s \notin OurSettings
  /\ NoBackup \notin UserSettings /\ Half \notin UserSettings
  /\ Half # NoBackup /\ ChrNet # OldChrNet
  BY SettingsAssumption DEF UserSettings, OurSettings

\* Every step keeps the flags Boolean.
LEMMA FlagsStep ==
  FlagsOK /\ [Next]_vars => FlagsOK'
<1> SUFFICES ASSUME FlagsOK, [Next]_vars PROVE FlagsOK'
  OBVIOUS
<1> USE DEF FlagsOK
<1>1. CASE AppStart
  BY <1>1, Zenon DEF AppStart, settingsVars, bridgeVars, ghosts
<1>2. CASE CleanupStart
  BY <1>2, Zenon DEF CleanupStart, settingsVars, bridgeVars, ghosts
<1>3. CASE Exit
  BY <1>3, Zenon DEF Exit, settingsVars, ghosts
<1>4. CASE Kill
  BY <1>4, Zenon DEF Kill, Torn, settingsVars
<1>5. CASE CoreLost
  BY <1>5 DEF CoreLost, Listens, settingsVars, ghosts
<1>6. ASSUME NEW b \in {"service", "app"}, NEW mode \in BOOLEAN, StartSucceeds(b, mode)
      PROVE FlagsOK'
  BY <1>6, Zenon DEF StartSucceeds, settingsVars, Idle, HasPendingRestore
<1>7. CASE StartFails
  BY <1>7, Zenon DEF StartFails, AfterFailedStart, settingsVars, ghosts, Idle
<1>8. CASE Disconnect
  BY <1>8, Zenon DEF Disconnect, settingsVars, ghosts, Idle
<1>9. CASE HandleLost
  BY <1>9, Zenon DEF HandleLost, settingsVars, ghosts, Idle
<1>10. CASE SyncAnswer
  BY <1>10, Zenon DEF SyncAnswer, settingsVars, bridgeVars, ghosts
<1>11. CASE SyncAttach
  BY <1>11, Zenon DEF SyncAttach, settingsVars, ghosts, HasPendingRestore
<1>12. CASE SyncRestore
  BY <1>12, Zenon DEF SyncRestore, settingsVars, bridgeVars, ghosts
<1>13. CASE EnableRead
  BY <1>13, Zenon DEF EnableRead, Saves, Original, settingsVars, bridgeVars,
       ghosts, Succeeds, HasPendingRestore, IsChrNetProxy
<1>14. CASE SaveFlags
  BY <1>14, Zenon DEF SaveFlags, bridgeVars, Succeeds, Fails
<1>15. CASE SaveStrings
  BY <1>15, Zenon DEF SaveStrings, bridgeVars, Succeeds, Fails,
       HasPendingRestore
<1>16. CASE EnableApply
  BY <1>16, Zenon DEF EnableApply, TaskDone, ghosts, Succeeds
<1>17. CASE EnableFails
  BY <1>17, Zenon DEF EnableFails, settingsVars, ghosts, Fails
<1>18. CASE RestoreSkip
  BY <1>18, Zenon DEF RestoreSkip, TaskDone, settingsVars, ghosts,
       HasPendingRestore
<1>19. CASE RestoreRead
  BY <1>19, Zenon DEF RestoreRead, RestoreStarts, settingsVars, ghosts,
       Succeeds, HasPendingRestore, IsChrNetProxy
<1>20. CASE RestoreReadFails
  BY <1>20, Zenon DEF RestoreReadFails, RestoreStarts, settingsVars, Fails,
       HasPendingRestore, IsChrNetProxy
<1>21. CASE RestoreApply
  BY <1>21, Zenon DEF RestoreApply, bridgeVars, ghosts, Succeeds,
       HasPendingRestore
<1>22. CASE RestoreApplyFails
  BY <1>22, Zenon DEF RestoreApplyFails, TaskDone, settingsVars, ghosts, Fails
<1>23. CASE RestoreClear
  BY <1>23, Zenon DEF RestoreClear, TaskDone, Erased, ghosts
<1>24. CASE StaleRead
  BY <1>24, Zenon DEF StaleRead, TaskDone, settingsVars, ghosts,
       HasPendingRestore
<1>25. CASE StaleApply
  BY <1>25, Zenon DEF StaleApply, TaskDone, ghosts
<1>26. CASE StaleFails
  BY <1>26, Zenon DEF StaleFails, TaskDone, settingsVars, ghosts, Fails
<1>27. ASSUME NEW s \in UserSettings, UserEdits(s)
      PROVE FlagsOK'
  BY <1>27, Zenon DEF UserEdits, bridgeVars, HasPendingRestore
<1>28. CASE UNCHANGED vars
  BY <1>28 DEF vars, settingsVars, bridgeVars, ghosts
<1> QED BY <1>1, <1>2, <1>3, <1>4, <1>5, <1>6, <1>7, <1>8, <1>9, <1>10, <1>11,
     <1>12, <1>13, <1>14, <1>15, <1>16, <1>17, <1>18, <1>19, <1>20, <1>21,
     <1>22, <1>23, <1>24, <1>25, <1>26, <1>27, <1>28 DEF Next, Requests,
     Syncing, Enabling, Restoring

\* Every step keeps the other types.
LEMMA ValuesStep ==
  ValuesOK /\ [Next]_vars => ValuesOK'
<1> SUFFICES ASSUME ValuesOK, [Next]_vars PROVE ValuesOK'
  OBVIOUS
<1> USE SettingsApart DEF ValuesOK, PCs, IsChrNetProxy, HasPendingRestore
<1>1. CASE AppStart
  BY <1>1 DEF AppStart, settingsVars, bridgeVars, ghosts
<1>2. CASE CleanupStart
  BY <1>2 DEF CleanupStart, settingsVars, bridgeVars, ghosts
<1>3. CASE Exit
  BY <1>3 DEF Exit, settingsVars, ghosts
<1>4. CASE Kill
  BY <1>4 DEF Kill, Torn, settingsVars
<1>5. CASE CoreLost
  BY <1>5 DEF CoreLost, Listens, settingsVars, ghosts
<1>6. ASSUME NEW b \in {"service", "app"}, NEW mode \in BOOLEAN, StartSucceeds(b, mode)
      PROVE ValuesOK'
  BY <1>6 DEF StartSucceeds, settingsVars, Idle
<1>7. CASE StartFails
  BY <1>7 DEF StartFails, AfterFailedStart, settingsVars, ghosts, Idle
<1>8. CASE Disconnect
  BY <1>8 DEF Disconnect, settingsVars, ghosts, Idle
<1>9. CASE HandleLost
  BY <1>9 DEF HandleLost, settingsVars, ghosts, Idle
<1>10. CASE SyncAnswer
  BY <1>10 DEF SyncAnswer, settingsVars, bridgeVars, ghosts
<1>11. CASE SyncAttach
  BY <1>11 DEF SyncAttach, settingsVars, ghosts
<1>12. CASE SyncRestore
  BY <1>12 DEF SyncRestore, settingsVars, bridgeVars, ghosts
<1>13. CASE EnableRead
  BY <1>13 DEF EnableRead, Saves, Original, settingsVars, bridgeVars, ghosts,
       Succeeds
<1>14. CASE SaveFlags
  BY <1>14 DEF SaveFlags, bridgeVars, Succeeds, Fails
<1>15. CASE SaveStrings
  BY <1>15 DEF SaveStrings, bridgeVars, Succeeds, Fails
<1>16. CASE EnableApply
  BY <1>16 DEF EnableApply, TaskDone, ghosts, Succeeds
<1>17. CASE EnableFails
  BY <1>17 DEF EnableFails, settingsVars, ghosts, Fails
<1>18. CASE RestoreSkip
  BY <1>18 DEF RestoreSkip, TaskDone, settingsVars, ghosts
<1>19. CASE RestoreRead
  BY <1>19 DEF RestoreRead, RestoreStarts, settingsVars, ghosts, Succeeds
<1>20. CASE RestoreReadFails
  BY <1>20 DEF RestoreReadFails, RestoreStarts, settingsVars, Fails
<1>21. CASE RestoreApply
  BY <1>21 DEF RestoreApply, bridgeVars, ghosts, Succeeds
<1>22. CASE RestoreApplyFails
  BY <1>22 DEF RestoreApplyFails, TaskDone, settingsVars, ghosts, Fails
<1>23. CASE RestoreClear
  BY <1>23 DEF RestoreClear, TaskDone, Erased, ghosts
<1>24. CASE StaleRead
  BY <1>24 DEF StaleRead, TaskDone, settingsVars, ghosts
<1>25. CASE StaleApply
  BY <1>25 DEF StaleApply, TaskDone, ghosts
<1>26. CASE StaleFails
  BY <1>26 DEF StaleFails, TaskDone, settingsVars, ghosts, Fails
<1>27. ASSUME NEW s \in UserSettings, UserEdits(s)
      PROVE ValuesOK'
  BY <1>27 DEF UserEdits, bridgeVars
<1>28. CASE UNCHANGED vars
  BY <1>28 DEF vars, settingsVars, bridgeVars, ghosts
<1> QED BY <1>1, <1>2, <1>3, <1>4, <1>5, <1>6, <1>7, <1>8, <1>9, <1>10, <1>11,
     <1>12, <1>13, <1>14, <1>15, <1>16, <1>17, <1>18, <1>19, <1>20, <1>21,
     <1>22, <1>23, <1>24, <1>25, <1>26, <1>27, <1>28 DEF Next, Requests,
     Syncing, Enabling, Restoring

\* A task is run by the process that can run it.
LEMMA ShapeStep ==
  ValuesOK /\ ShapeInv /\ [Next]_vars => ShapeInv'
<1> SUFFICES ASSUME ValuesOK /\ ShapeInv, [Next]_vars PROVE ShapeInv'
  OBVIOUS
<1> USE DEF ValuesOK, PCs, Enables, ShapeInv
<1>1. CASE AppStart
  BY <1>1 DEF AppStart, settingsVars, bridgeVars, ghosts
<1>2. CASE CleanupStart
  BY <1>2 DEF CleanupStart, settingsVars, bridgeVars, ghosts
<1>3. CASE Exit
  BY <1>3 DEF Exit, settingsVars, ghosts
<1>4. CASE Kill
  BY <1>4 DEF Kill, Torn, settingsVars
<1>5. CASE CoreLost
  BY <1>5 DEF CoreLost, Listens, settingsVars, ghosts
<1>6. ASSUME NEW b \in {"service", "app"}, NEW mode \in BOOLEAN, StartSucceeds(b, mode)
      PROVE ShapeInv'
  BY <1>6 DEF StartSucceeds, settingsVars, Idle, HasPendingRestore
<1>7. CASE StartFails
  BY <1>7 DEF StartFails, AfterFailedStart, settingsVars, ghosts, Idle
<1>8. CASE Disconnect
  BY <1>8 DEF Disconnect, settingsVars, ghosts, Idle
<1>9. CASE HandleLost
  BY <1>9 DEF HandleLost, settingsVars, ghosts, Idle
<1>10. CASE SyncAnswer
  BY <1>10 DEF SyncAnswer, settingsVars, bridgeVars, ghosts
<1>11. CASE SyncAttach
  BY <1>11 DEF SyncAttach, settingsVars, ghosts, HasPendingRestore
<1>12. CASE SyncRestore
  BY <1>12 DEF SyncRestore, settingsVars, bridgeVars, ghosts
<1>13. CASE EnableRead
  BY <1>13 DEF EnableRead, Saves, Original, settingsVars, bridgeVars, ghosts,
       Succeeds, HasPendingRestore, IsChrNetProxy
<1>14. CASE SaveFlags
  BY <1>14 DEF SaveFlags, bridgeVars, Succeeds, Fails
<1>15. CASE SaveStrings
  BY <1>15 DEF SaveStrings, bridgeVars, Succeeds, Fails, HasPendingRestore
<1>16. CASE EnableApply
  BY <1>16 DEF EnableApply, TaskDone, ghosts, Succeeds
<1>17. CASE EnableFails
  BY <1>17 DEF EnableFails, settingsVars, ghosts, Fails
<1>18. CASE RestoreSkip
  BY <1>18 DEF RestoreSkip, TaskDone, settingsVars, ghosts, HasPendingRestore
<1>19. CASE RestoreRead
  BY <1>19 DEF RestoreRead, RestoreStarts, settingsVars, ghosts, Succeeds,
       HasPendingRestore, IsChrNetProxy
<1>20. CASE RestoreReadFails
  BY <1>20 DEF RestoreReadFails, RestoreStarts, settingsVars, Fails,
       HasPendingRestore, IsChrNetProxy
<1>21. CASE RestoreApply
  BY <1>21 DEF RestoreApply, bridgeVars, ghosts, Succeeds, HasPendingRestore
<1>22. CASE RestoreApplyFails
  BY <1>22 DEF RestoreApplyFails, TaskDone, settingsVars, ghosts, Fails
<1>23. CASE RestoreClear
  BY <1>23 DEF RestoreClear, TaskDone, Erased, ghosts
<1>24. CASE StaleRead
  BY <1>24 DEF StaleRead, TaskDone, settingsVars, ghosts, HasPendingRestore
<1>25. CASE StaleApply
  BY <1>25 DEF StaleApply, TaskDone, ghosts
<1>26. CASE StaleFails
  BY <1>26 DEF StaleFails, TaskDone, settingsVars, ghosts, Fails
<1>27. ASSUME NEW s \in UserSettings, UserEdits(s)
      PROVE ShapeInv'
  BY <1>27 DEF UserEdits, bridgeVars, HasPendingRestore
<1>28. CASE UNCHANGED vars
  BY <1>28 DEF vars, settingsVars, bridgeVars, ghosts
<1> QED BY <1>1, <1>2, <1>3, <1>4, <1>5, <1>6, <1>7, <1>8, <1>9, <1>10, <1>11,
     <1>12, <1>13, <1>14, <1>15, <1>16, <1>17, <1>18, <1>19, <1>20, <1>21,
     <1>22, <1>23, <1>24, <1>25, <1>26, <1>27, <1>28 DEF Next, Requests,
     Syncing, Enabling, Restoring

\* What ChrNet has saved, or is about to save, is what the user wants.
LEMMA BackupStep ==
  ValuesOK /\ ShapeInv /\ BackupInv /\ SettingsComeBack /\ [Next]_vars => (BackupInv /\ SettingsComeBack)'
<1> SUFFICES ASSUME ValuesOK /\ ShapeInv /\ BackupInv /\ SettingsComeBack, [Next]_vars PROVE (BackupInv /\ SettingsComeBack)'
  OBVIOUS
<1> USE SettingsApart DEF ValuesOK, IsChrNetProxy, HasPendingRestore,
     Enables, ShapeInv, BackupInv, SettingsComeBack, Restored, Saved, Unspoiled
<1>1. CASE AppStart
  BY <1>1 DEF AppStart, settingsVars, bridgeVars, ghosts
<1>2. CASE CleanupStart
  BY <1>2 DEF CleanupStart, settingsVars, bridgeVars, ghosts
<1>3. CASE Exit
  BY <1>3 DEF Exit, settingsVars, ghosts
<1>4. CASE Kill
  BY <1>4 DEF Kill, Torn, settingsVars
<1>5. CASE CoreLost
  BY <1>5 DEF CoreLost, Listens, settingsVars, ghosts
<1>6. ASSUME NEW b \in {"service", "app"}, NEW mode \in BOOLEAN, StartSucceeds(b, mode)
      PROVE (BackupInv /\ SettingsComeBack)'
  BY <1>6 DEF StartSucceeds, settingsVars, Idle
<1>7. CASE StartFails
  BY <1>7 DEF StartFails, AfterFailedStart, settingsVars, ghosts, Idle
<1>8. CASE Disconnect
  BY <1>8 DEF Disconnect, settingsVars, ghosts, Idle
<1>9. CASE HandleLost
  BY <1>9 DEF HandleLost, settingsVars, ghosts, Idle
<1>10. CASE SyncAnswer
  BY <1>10 DEF SyncAnswer, settingsVars, bridgeVars, ghosts
<1>11. CASE SyncAttach
  BY <1>11 DEF SyncAttach, settingsVars, ghosts
<1>12. CASE SyncRestore
  BY <1>12 DEF SyncRestore, settingsVars, bridgeVars, ghosts
<1>13. CASE EnableRead
  BY <1>13 DEF EnableRead, Saves, Original, settingsVars, bridgeVars, ghosts,
       Succeeds
<1>14. CASE SaveFlags
  BY <1>14 DEF SaveFlags, bridgeVars, Succeeds, Fails
<1>15. CASE SaveStrings
  BY <1>15 DEF SaveStrings, bridgeVars, Succeeds, Fails
<1>16. CASE EnableApply
  BY <1>16 DEF EnableApply, TaskDone, ghosts, Succeeds
<1>17. CASE EnableFails
  BY <1>17 DEF EnableFails, settingsVars, ghosts, Fails
<1>18. CASE RestoreSkip
  BY <1>18 DEF RestoreSkip, TaskDone, settingsVars, ghosts
<1>19. CASE RestoreRead
  BY <1>19 DEF RestoreRead, RestoreStarts, settingsVars, ghosts, Succeeds
<1>20. CASE RestoreReadFails
  BY <1>20 DEF RestoreReadFails, RestoreStarts, settingsVars, Fails
<1>21. CASE RestoreApply
  BY <1>21 DEF RestoreApply, bridgeVars, ghosts, Succeeds
<1>22. CASE RestoreApplyFails
  BY <1>22 DEF RestoreApplyFails, TaskDone, settingsVars, ghosts, Fails
<1>23. CASE RestoreClear
  BY <1>23 DEF RestoreClear, TaskDone, Erased, ghosts
<1>24. CASE StaleRead
  BY <1>24 DEF StaleRead, TaskDone, settingsVars, ghosts
<1>25. CASE StaleApply
  BY <1>25 DEF StaleApply, TaskDone, ghosts
<1>26. CASE StaleFails
  BY <1>26 DEF StaleFails, TaskDone, settingsVars, ghosts, Fails
<1>27. ASSUME NEW s \in UserSettings, UserEdits(s)
      PROVE (BackupInv /\ SettingsComeBack)'
  BY <1>27 DEF UserEdits, bridgeVars
<1>28. CASE UNCHANGED vars
  BY <1>28 DEF vars, settingsVars, bridgeVars, ghosts
<1> QED BY <1>1, <1>2, <1>3, <1>4, <1>5, <1>6, <1>7, <1>8, <1>9, <1>10, <1>11,
     <1>12, <1>13, <1>14, <1>15, <1>16, <1>17, <1>18, <1>19, <1>20, <1>21,
     <1>22, <1>23, <1>24, <1>25, <1>26, <1>27, <1>28 DEF Next, Requests,
     Syncing, Enabling, Restoring

\* No proxy of ChrNet without a backup, at rest none without a core.
LEMMA ProxyStep ==
  ValuesOK /\ ShapeInv /\ BackupInv /\ ProxyInv /\ [Next]_vars => ProxyInv'
<1> SUFFICES ASSUME ValuesOK /\ ShapeInv /\ BackupInv /\ ProxyInv, [Next]_vars PROVE ProxyInv'
  OBVIOUS
<1> USE SettingsApart DEF ValuesOK, IsChrNetProxy, HasPendingRestore,
     Enables, ShapeInv, BackupInv, ProxyInv, NoDeadProxy, Idle
<1>1. CASE AppStart
  BY <1>1 DEF AppStart, settingsVars, bridgeVars, ghosts
<1>2. CASE CleanupStart
  BY <1>2 DEF CleanupStart, settingsVars, bridgeVars, ghosts
<1>3. CASE Exit
  BY <1>3 DEF Exit, settingsVars, ghosts
<1>4. CASE Kill
  BY <1>4 DEF Kill, Torn, settingsVars
<1>5. CASE CoreLost
  BY <1>5 DEF CoreLost, Listens, settingsVars, ghosts
<1>6. ASSUME NEW b \in {"service", "app"}, NEW mode \in BOOLEAN, StartSucceeds(b, mode)
      PROVE ProxyInv'
  BY <1>6 DEF StartSucceeds, settingsVars
<1>7. CASE StartFails
  BY <1>7 DEF StartFails, AfterFailedStart, settingsVars, ghosts
<1>8. CASE Disconnect
  BY <1>8 DEF Disconnect, settingsVars, ghosts
<1>9. CASE HandleLost
  BY <1>9 DEF HandleLost, settingsVars, ghosts
<1>10. CASE SyncAnswer
  BY <1>10 DEF SyncAnswer, settingsVars, bridgeVars, ghosts
<1>11. CASE SyncAttach
  BY <1>11 DEF SyncAttach, settingsVars, ghosts
<1>12. CASE SyncRestore
  BY <1>12 DEF SyncRestore, settingsVars, bridgeVars, ghosts
<1>13. CASE EnableRead
  BY <1>13 DEF EnableRead, Saves, Original, settingsVars, bridgeVars, ghosts,
       Succeeds
<1>14. CASE SaveFlags
  BY <1>14 DEF SaveFlags, bridgeVars, Succeeds, Fails
<1>15. CASE SaveStrings
  BY <1>15 DEF SaveStrings, bridgeVars, Succeeds, Fails
<1>16. CASE EnableApply
  BY <1>16 DEF EnableApply, TaskDone, ghosts, Succeeds
<1>17. CASE EnableFails
  BY <1>17 DEF EnableFails, settingsVars, ghosts, Fails
<1>18. CASE RestoreSkip
  BY <1>18 DEF RestoreSkip, TaskDone, settingsVars, ghosts
<1>19. CASE RestoreRead
  BY <1>19 DEF RestoreRead, RestoreStarts, settingsVars, ghosts, Succeeds
<1>20. CASE RestoreReadFails
  BY <1>20 DEF RestoreReadFails, RestoreStarts, settingsVars, Fails
<1>21. CASE RestoreApply
  BY <1>21 DEF RestoreApply, bridgeVars, ghosts, Succeeds
<1>22. CASE RestoreApplyFails
  BY <1>22 DEF RestoreApplyFails, TaskDone, settingsVars, ghosts, Fails
<1>23. CASE RestoreClear
  BY <1>23 DEF RestoreClear, TaskDone, Erased, ghosts
<1>24. CASE StaleRead
  BY <1>24 DEF StaleRead, TaskDone, settingsVars, ghosts
<1>25. CASE StaleApply
  BY <1>25 DEF StaleApply, TaskDone, ghosts
<1>26. CASE StaleFails
  BY <1>26 DEF StaleFails, TaskDone, settingsVars, ghosts, Fails
<1>27. ASSUME NEW s \in UserSettings, UserEdits(s)
      PROVE ProxyInv'
  BY <1>27 DEF UserEdits, bridgeVars
<1>28. CASE UNCHANGED vars
  BY <1>28 DEF vars, settingsVars, bridgeVars, ghosts
<1> QED BY <1>1, <1>2, <1>3, <1>4, <1>5, <1>6, <1>7, <1>8, <1>9, <1>10, <1>11,
     <1>12, <1>13, <1>14, <1>15, <1>16, <1>17, <1>18, <1>19, <1>20, <1>21,
     <1>22, <1>23, <1>24, <1>25, <1>26, <1>27, <1>28 DEF Next, Requests,
     Syncing, Enabling, Restoring

LEMMA InvInit == Init => IInv
<1> SUFFICES ASSUME Init PROVE IInv
  OBVIOUS
<1>1. FlagsOK
  BY Zenon DEF Init, FlagsOK
<1>2. ValuesOK
  BY SettingsApart DEF Init, ValuesOK, PCs
<1>3. ShapeInv /\ BackupInv
  BY DEF Init, ShapeInv, BackupInv, HasPendingRestore, Enables
<1>4. SettingsComeBack
  BY SettingsApart DEF Init, SettingsComeBack, Restored, IsChrNetProxy,
     HasPendingRestore
<1>5. ProxyInv
  BY SettingsAssumption, SettingsApart
     DEF Init, ProxyInv, NoDeadProxy, Idle, HasPendingRestore, Enables
<1> QED BY <1>1, <1>2, <1>3, <1>4, <1>5 DEF IInv, TypeOK

LEMMA InvStep == IInv /\ [Next]_vars => IInv'
  BY FlagsStep, ValuesStep, ShapeStep, BackupStep, ProxyStep DEF IInv, TypeOK

LEMMA InvCorrect == Spec => []IInv
  BY InvInit, InvStep, PTL DEF Spec

\* The types hold: in particular ChrNet's own settings are never saved as the
\* user's.
THEOREM TypeCorrect == Spec => []TypeOK
<1>1. IInv => TypeOK
  BY DEF IInv
<1> QED BY <1>1, InvCorrect, PTL

\* The settings the user chose last come back, whatever sessions, deaths of
\* the app and failing calls there were, but for the exceptions it names.
THEOREM SettingsAlwaysComeBack == Spec => []SettingsComeBack
<1>1. IInv => SettingsComeBack
  BY DEF IInv
<1> QED BY <1>1, InvCorrect, PTL

\* Without failing calls of Windows, no proxy is left pointing to a core the
\* bridge knows to be gone.
THEOREM NoProxyIsDead == Spec => []NoDeadProxy
<1>1. IInv => NoDeadProxy
  BY DEF IInv, ProxyInv
<1> QED BY <1>1, InvCorrect, PTL

\* An app that ended by itself, without a failing call, has put back the
\* settings and forgotten the backup.
THEOREM ExitsRestore == Spec => []DownIsRestored
<1>1. IInv => DownIsRestored
  <2> SUFFICES ASSUME IInv, app = "down", kills = 0, failures = 0
               PROVE /\ backup = NoBackup /\ current # ChrNet
                     /\ edit \in {"safe", "session"} => current \in {wanted, OldChrNet}
    BY DEF DownIsRestored
  <2>1. backup = NoBackup /\ current # ChrNet /\ ~hurt
    BY SettingsAssumption DEF IInv, ProxyInv, HasPendingRestore
  <2>2. edit \in {"safe", "session"} => current \in {wanted, OldChrNet}
    BY <2>1 DEF IInv, SettingsComeBack, Restored, IsChrNetProxy, OurSettings
  <2> QED BY <2>1, <2>2
<1> QED BY <1>1, InvCorrect, PTL
=============================================================================
