--------------------------- MODULE ActivationProofs ---------------------------
(***************************************************************************)
(* What TLAPS proves of module Activation, for any builds, Guardians,      *)
(* installs and mishaps: one lemma per action shows that it keeps IInv,    *)
(* and the theorems follow.                                                *)
(***************************************************************************)
EXTENDS Activation, TLAPS

(***************************************************************************)
(* Types of what most actions do                                           *)
(***************************************************************************)
\* A mishap is counted within its bound.
LEMMA MishapType == ASSUME TypeOK, Mishap PROVE mishaps' \in 0..MaxMishaps
  BY ActivationAssumption DEF TypeOK, Mishap

\* The end of a transaction.
LEMMA EndType ==
    ASSUME TypeOK, NEW outcome \in {"done", "failed", "stuck"}, End(outcome)
    PROVE  installer' \in Installs
  BY DEF TypeOK, End, Installs, Steps

-------------------------------------------------------------------------------
(***************************************************************************)
(* Steps of the installer                                                  *)
(***************************************************************************)
\* A new transaction has found out nothing yet.
LEMMA BeginStep == ASSUME IInv, NEW s \in Suites, Begin(s) PROVE IInv'
<1>1. installs' \in 0..MaxInstalls
  BY ActivationAssumption DEF IInv, TypeOK, Begin
<1>2. guardians' \in [Guardians -> Processes]
  BY DEF IInv, TypeOK, Begin, Processes
<1>3. installer' \in Installs
  BY DEF IInv, TypeOK, Begin, Installs, Steps
<1>4. TypeOK'
  BY <1>1, <1>2, <1>3 DEF IInv, Begin, TypeOK
<1>5. InstallInv'
  BY ActivationAssumption DEF IInv, Begin, InstallInv, At
<1>6. EmptyInv' /\ FreshInv'
  BY DEF IInv, Begin, EmptyInv, FreshInv, AfterRead
<1>7. WatchInv' /\ MatchInv' /\ UndoInv'
  BY DEF IInv, Begin, At, TypeOK, WatchInv, MatchInv, UndoInv, Processes, Pending,
         AfterRead, Clearing
<1>8. ActiveInstalled' /\ FallbackInstalled' /\ FailedInstallUndone'
  BY DEF IInv, Begin, TypeOK, ActiveInstalled, FallbackInstalled,
         FailedInstallUndone, Processes
<1> QED
  BY <1>4, <1>5, <1>6, <1>7, <1>8 DEF IInv

\* The version that gets its name is one nobody has heard of.
LEMMA StageStep == ASSUME IInv, Stage PROVE IInv'
<1>1. TypeOK'
  BY DEF IInv, Stage, TypeOK, At, InstallerUnchanged, Pending, Installs, Processes,
         Steps, InstallInv, Active, AfterRead
<1>2. InstallInv' /\ EmptyInv' /\ FreshInv'
  BY DEF IInv, Stage, InstallInv, EmptyInv, FreshInv, At, InstallerUnchanged,
         Active, AfterRead, ActiveInstalled, FallbackInstalled
<1>3. WatchInv' /\ MatchInv' /\ UndoInv'
  BY DEF IInv, Stage, WatchInv, MatchInv, UndoInv, At, InstallerUnchanged, Clearing,
         AfterRead, Active
<1>4. ActiveInstalled' /\ FallbackInstalled' /\ FailedInstallUndone'
  BY DEF IInv, Stage, ActiveInstalled, FallbackInstalled, FailedInstallUndone, At,
         InstallerUnchanged
<1> QED
  BY <1>1, <1>2, <1>3, <1>4 DEF IInv

\* Only the staging directory is touched.
LEMMA StageFailsStep == ASSUME IInv, StageFails PROVE IInv'
<1>1. TypeOK'
  BY MishapType, EndType DEF IInv, StageFails, InstallerUnchanged, TypeOK
<1>2. InstallInv' /\ EmptyInv' /\ FreshInv'
  BY DEF IInv, StageFails, InstallInv, EmptyInv, FreshInv, At, End, Active,
         AfterRead
<1>3. WatchInv' /\ MatchInv' /\ UndoInv'
  BY DEF IInv, StageFails, WatchInv, MatchInv, UndoInv, At, End, InstallerUnchanged,
         Clearing, AfterRead
<1>4. ActiveInstalled' /\ FallbackInstalled' /\ FailedInstallUndone'
  BY DEF IInv, StageFails, ActiveInstalled, FallbackInstalled, FailedInstallUndone,
         At, End, InstallerUnchanged, Active, UndoInv
<1> QED
  BY <1>1, <1>2, <1>3, <1>4 DEF IInv

\* No file changes.
LEMMA ProtectStep == ASSUME IInv, Protect PROVE IInv'
<1>1. TypeOK'
  BY DEF IInv, Protect, TypeOK, GoTo, files, InstallerUnchanged, Installs, Steps
<1>2. InstallInv' /\ EmptyInv' /\ FreshInv'
  BY DEF IInv, Protect, InstallInv, EmptyInv, FreshInv, At, GoTo, files,
         InstallerUnchanged, Active, AfterRead
<1>3. WatchInv' /\ MatchInv' /\ UndoInv'
  BY DEF IInv, Protect, WatchInv, MatchInv, UndoInv, At, GoTo, files,
         InstallerUnchanged, Clearing, AfterRead, Active
<1>4. ActiveInstalled' /\ FallbackInstalled' /\ FailedInstallUndone'
  BY DEF IInv, Protect, ActiveInstalled, FallbackInstalled, FailedInstallUndone, At,
         GoTo, files, InstallerUnchanged
<1> QED
  BY <1>1, <1>2, <1>3, <1>4 DEF IInv

\* The version that may be taken away is fresh.
LEMMA ProtectFailsStep == ASSUME IInv, ProtectFails PROVE IInv'
<1>1. TypeOK'
  BY MishapType, EndType DEF IInv, ProtectFails, InstallerUnchanged, TypeOK
<1>2. InstallInv' /\ EmptyInv' /\ FreshInv'
  BY DEF IInv, ProtectFails, InstallInv, EmptyInv, FreshInv, At, End, Active,
         AfterRead
<1>3. WatchInv' /\ MatchInv' /\ UndoInv'
  BY DEF IInv, ProtectFails, WatchInv, MatchInv, UndoInv, At, End,
         InstallerUnchanged, Clearing, AfterRead
<1>4. ActiveInstalled' /\ FallbackInstalled' /\ FailedInstallUndone'
  BY DEF IInv, ProtectFails, ActiveInstalled, FallbackInstalled,
         FailedInstallUndone, At, End, InstallerUnchanged, Active, FreshInv, UndoInv
<1> QED
  BY <1>1, <1>2, <1>3, <1>4 DEF IInv

\* What is read is the active build, which is not a fresh version.
LEMMA ReadPointerStep == ASSUME IInv, ReadPointer PROVE IInv'
<1>1. CASE pointer \notin {None, installer.suite}
  <2>1. TypeOK'
    BY <1>1
       DEF IInv, ReadPointer, TypeOK, At, files, InstallerUnchanged, Pending,
           Installs, Processes, Steps, InstallInv, Active, AfterRead
  <2>2. InstallInv' /\ EmptyInv' /\ FreshInv'
    BY <1>1
       DEF IInv, ReadPointer, InstallInv, EmptyInv, FreshInv, TypeOK, At, files,
           InstallerUnchanged, Active, AfterRead, Installs, Steps, ActiveInstalled
  <2>3. WatchInv' /\ MatchInv' /\ UndoInv'
    BY <1>1
       DEF IInv, ReadPointer, WatchInv, MatchInv, UndoInv, At, files,
           InstallerUnchanged, Clearing, Active
  <2>4. ActiveInstalled' /\ FallbackInstalled' /\ FailedInstallUndone'
    BY <1>1
       DEF IInv, ReadPointer, ActiveInstalled, FallbackInstalled,
           FailedInstallUndone, files, InstallerUnchanged
  <2> QED
    BY <2>1, <2>2, <2>3, <2>4 DEF IInv
<1>2. CASE pointer \in {None, installer.suite}
  <2>1. TypeOK'
    BY <1>2
       DEF IInv, ReadPointer, TypeOK, At, files, InstallerUnchanged, Pending,
           Installs, Processes, Steps, InstallInv, Active, AfterRead
  <2>2. InstallInv' /\ EmptyInv' /\ FreshInv'
    BY <1>2
       DEF IInv, ReadPointer, InstallInv, EmptyInv, FreshInv, TypeOK, At, files,
           InstallerUnchanged, Active, AfterRead, Installs, Steps
  <2>3. WatchInv' /\ MatchInv' /\ UndoInv'
    BY <1>2
       DEF IInv, ReadPointer, WatchInv, MatchInv, UndoInv, At, files,
           InstallerUnchanged, Clearing, Active, EmptyInv
  <2>4. ActiveInstalled' /\ FallbackInstalled' /\ FailedInstallUndone'
    BY <1>2
       DEF IInv, ReadPointer, ActiveInstalled, FallbackInstalled,
           FailedInstallUndone, files, InstallerUnchanged
  <2> QED
    BY <2>1, <2>2, <2>3, <2>4 DEF IInv
<1> QED
  BY <1>1, <1>2

\* The fallback is the build that was read.
LEMMA WritePendingStep == ASSUME IInv, WritePending PROVE IInv'
<1>1. [candidate |-> installer.suite, previous |-> installer.previous] \in Pending
  BY DEF IInv, WritePending, At, TypeOK, InstallInv, Active, AfterRead, Installs,
         Steps, Pending
<1>2. TypeOK'
  BY <1>1 DEF IInv, WritePending, TypeOK, GoTo, InstallerUnchanged, Installs, Steps
<1>3. InstallInv' /\ EmptyInv' /\ FreshInv'
  BY DEF IInv, WritePending, InstallInv, EmptyInv, FreshInv, At, GoTo,
         InstallerUnchanged, Active, AfterRead, Steps
<1>4. WatchInv' /\ MatchInv' /\ UndoInv'
  BY DEF IInv, WritePending, WatchInv, MatchInv, UndoInv, At, GoTo,
         InstallerUnchanged, Active, InstallInv
<1>5. ActiveInstalled' /\ FallbackInstalled' /\ FailedInstallUndone'
  BY DEF IInv, WritePending, ActiveInstalled, FallbackInstalled,
         FailedInstallUndone, At, GoTo, InstallerUnchanged, InstallInv, Active
<1> QED
  BY <1>2, <1>3, <1>4, <1>5 DEF IInv

\* No file changes.
LEMMA WritePendingFailsStep == ASSUME IInv, WritePendingFails PROVE IInv'
<1>1. TypeOK'
  BY MishapType, EndType
     DEF IInv, WritePendingFails, InstallerUnchanged, TypeOK, files
<1>2. InstallInv' /\ EmptyInv' /\ FreshInv'
  BY DEF IInv, WritePendingFails, InstallInv, EmptyInv, FreshInv, At, End, files,
         Active
<1>3. WatchInv' /\ MatchInv' /\ UndoInv'
  BY DEF IInv, WritePendingFails, WatchInv, MatchInv, UndoInv, At, End, files,
         InstallerUnchanged, Clearing, AfterRead
<1>4. ActiveInstalled' /\ FallbackInstalled' /\ FailedInstallUndone'
  BY DEF IInv, WritePendingFails, ActiveInstalled, FallbackInstalled,
         FailedInstallUndone, At, End, files, InstallerUnchanged, Active, UndoInv
<1> QED
  BY <1>1, <1>2, <1>3, <1>4 DEF IInv

\* Pointer and pending activation agree again.
LEMMA ReplacePointerStep == ASSUME IInv, ReplacePointer PROVE IInv'
<1>1. TypeOK'
  BY DEF IInv, ReplacePointer, TypeOK, GoTo, InstallerUnchanged, Installs, Steps
<1>2. InstallInv' /\ EmptyInv' /\ FreshInv'
  BY DEF IInv, ReplacePointer, InstallInv, EmptyInv, FreshInv, At, GoTo,
         InstallerUnchanged, Active, AfterRead, Steps
<1>3. WatchInv' /\ MatchInv' /\ UndoInv'
  BY DEF IInv, ReplacePointer, WatchInv, MatchInv, UndoInv, At, GoTo,
         InstallerUnchanged, Clearing, AfterRead, Active, Steps
<1>4. ActiveInstalled' /\ FallbackInstalled' /\ FailedInstallUndone'
  BY DEF IInv, ReplacePointer, ActiveInstalled, FallbackInstalled,
         FailedInstallUndone, At, GoTo, InstallerUnchanged, InstallInv, Active
<1> QED
  BY <1>1, <1>2, <1>3, <1>4 DEF IInv

\* An armed rollback is still to be disarmed.
LEMMA ReplacePointerFailsStep == ASSUME IInv, ReplacePointerFails PROVE IInv'
<1>1. CASE installer.armed
  <2>1. installer' = [installer EXCEPT !.step = "disarm"]
    BY <1>1 DEF ReplacePointerFails, GoTo
  <2>2. TypeOK'
    BY MishapType, <1>1, <2>1
       DEF IInv, ReplacePointerFails, TypeOK, files, InstallerUnchanged, Installs,
           Steps
  <2>3. InstallInv' /\ EmptyInv' /\ FreshInv'
    BY <1>1
       DEF IInv, ReplacePointerFails, InstallInv, EmptyInv, FreshInv, TypeOK, At,
           GoTo, files, InstallerUnchanged, Active, AfterRead, Installs, Steps
  <2>4. WatchInv' /\ MatchInv' /\ UndoInv'
    BY <1>1
       DEF IInv, ReplacePointerFails, WatchInv, MatchInv, UndoInv, TypeOK, At, GoTo,
           files, InstallerUnchanged, Clearing, AfterRead, Active, Installs
  <2>5. ActiveInstalled' /\ FallbackInstalled' /\ FailedInstallUndone'
    BY <1>1
       DEF IInv, ReplacePointerFails, ActiveInstalled, FallbackInstalled,
           FailedInstallUndone, TypeOK, At, GoTo, files, InstallerUnchanged,
           Installs
  <2> QED
    BY <2>2, <2>3, <2>4, <2>5 DEF IInv
<1>2. CASE ~installer.armed
  <2>1. installer' = [installer EXCEPT !.step = "idle", !.outcome = "failed"]
    BY <1>2 DEF ReplacePointerFails, End
  <2>2. TypeOK'
    BY MishapType, EndType, <1>2
       DEF IInv, ReplacePointerFails, InstallerUnchanged, TypeOK, files
  <2>3. InstallInv' /\ EmptyInv' /\ FreshInv'
    BY <1>2, <2>1
       DEF IInv, ReplacePointerFails, InstallInv, EmptyInv, FreshInv, At, files,
           Active, AfterRead
  <2>4. WatchInv' /\ MatchInv' /\ UndoInv'
    BY <1>2, <2>1
       DEF IInv, ReplacePointerFails, WatchInv, MatchInv, UndoInv, files,
           InstallerUnchanged, Clearing, AfterRead
  <2>5. ActiveInstalled' /\ FallbackInstalled' /\ FailedInstallUndone'
    BY <1>2, <2>1
       DEF IInv, ReplacePointerFails, ActiveInstalled, FallbackInstalled,
           FailedInstallUndone, At, files, InstallerUnchanged, Active, UndoInv
  <2> QED
    BY <2>2, <2>3, <2>4, <2>5 DEF IInv
<1> QED
  BY <1>1, <1>2

\* Nothing is pending.
LEMMA DisarmStep == ASSUME IInv, Disarm PROVE IInv'
<1>1. TypeOK'
  BY EndType DEF IInv, Disarm, InstallerUnchanged, TypeOK
<1>2. InstallInv' /\ EmptyInv' /\ FreshInv'
  BY DEF IInv, Disarm, InstallInv, EmptyInv, FreshInv, At, End, Active
<1>3. WatchInv' /\ MatchInv' /\ UndoInv'
  BY DEF IInv, Disarm, WatchInv, MatchInv, UndoInv, End, InstallerUnchanged,
         AfterRead
<1>4. ActiveInstalled' /\ FallbackInstalled' /\ FailedInstallUndone'
  BY DEF IInv, Disarm, ActiveInstalled, FallbackInstalled, FailedInstallUndone, At,
         End, InstallerUnchanged, Active, UndoInv
<1> QED
  BY <1>1, <1>2, <1>3, <1>4 DEF IInv

\* The files are parted.
LEMMA DisarmFailsStep == ASSUME IInv, DisarmFails PROVE IInv'
<1>1. TypeOK'
  BY MishapType, EndType DEF IInv, DisarmFails, InstallerUnchanged, TypeOK, files
<1>2. InstallInv' /\ EmptyInv' /\ FreshInv'
  BY DEF IInv, DisarmFails, InstallInv, EmptyInv, FreshInv, At, End, files, Active
<1>3. WatchInv' /\ MatchInv' /\ UndoInv'
  BY DEF IInv, DisarmFails, WatchInv, MatchInv, UndoInv, End, InstallerUnchanged,
         Active
<1>4. ActiveInstalled' /\ FallbackInstalled' /\ FailedInstallUndone'
  BY DEF IInv, DisarmFails, ActiveInstalled, FallbackInstalled, FailedInstallUndone,
         At, End, files, InstallerUnchanged, Active, UndoInv
<1> QED
  BY <1>1, <1>2, <1>3, <1>4 DEF IInv

\* No file changes.
LEMMA VerifyStep == ASSUME IInv, Verify PROVE IInv'
<1>1. TypeOK'
  BY DEF IInv, Verify, TypeOK, GoTo, files, InstallerUnchanged, Installs, Steps
<1>2. InstallInv' /\ EmptyInv' /\ FreshInv'
  BY DEF IInv, Verify, InstallInv, EmptyInv, FreshInv, At, GoTo, files,
         InstallerUnchanged, Active, AfterRead, Steps
<1>3. WatchInv' /\ MatchInv' /\ UndoInv'
  BY DEF IInv, Verify, WatchInv, MatchInv, UndoInv, TypeOK, At, GoTo, files,
         InstallerUnchanged, Clearing, AfterRead, Active, Installs
<1>4. ActiveInstalled' /\ FallbackInstalled' /\ FailedInstallUndone'
  BY DEF IInv, Verify, ActiveInstalled, FallbackInstalled, FailedInstallUndone, At,
         GoTo, files, InstallerUnchanged
<1> QED
  BY <1>1, <1>2, <1>3, <1>4 DEF IInv

\* No file changes.
LEMMA VerifyFailsStep == ASSUME IInv, VerifyFails PROVE IInv'
<1>1. TypeOK'
  BY MishapType
     DEF IInv, VerifyFails, TypeOK, GoTo, files, InstallerUnchanged, Installs, Steps
<1>2. InstallInv' /\ EmptyInv' /\ FreshInv'
  BY DEF IInv, VerifyFails, InstallInv, EmptyInv, FreshInv, At, GoTo, files,
         InstallerUnchanged, Active, AfterRead, Steps
<1>3. WatchInv' /\ MatchInv' /\ UndoInv'
  BY DEF IInv, VerifyFails, WatchInv, MatchInv, UndoInv, TypeOK, At, GoTo, files,
         InstallerUnchanged, Clearing, AfterRead, Active, Installs
<1>4. ActiveInstalled' /\ FallbackInstalled' /\ FailedInstallUndone'
  BY DEF IInv, VerifyFails, ActiveInstalled, FallbackInstalled, FailedInstallUndone,
         At, GoTo, files, InstallerUnchanged
<1> QED
  BY <1>1, <1>2, <1>3, <1>4 DEF IInv

\* No file changes.
LEMMA CommitStep == ASSUME IInv, Commit PROVE IInv'
<1>1. TypeOK'
  BY EndType DEF IInv, Commit, InstallerUnchanged, TypeOK, files
<1>2. InstallInv' /\ EmptyInv' /\ FreshInv'
  BY DEF IInv, Commit, InstallInv, EmptyInv, FreshInv, At, End, files, Active,
         AfterRead
<1>3. WatchInv' /\ MatchInv' /\ UndoInv'
  BY DEF IInv, Commit, WatchInv, MatchInv, UndoInv, At, End, files,
         InstallerUnchanged, Clearing, AfterRead
<1>4. ActiveInstalled' /\ FallbackInstalled' /\ FailedInstallUndone'
  BY DEF IInv, Commit, ActiveInstalled, FallbackInstalled, FailedInstallUndone, End,
         files, InstallerUnchanged
<1> QED
  BY <1>1, <1>2, <1>3, <1>4 DEF IInv

\* No file changes; an install that is not armed and has created its version found
\* no build active.
LEMMA CommitFailsStep == ASSUME IInv, CommitFails PROVE IInv'
<1>1. CASE installer.armed
  <2>1. TypeOK'
    BY MishapType, <1>1
       DEF IInv, CommitFails, TypeOK, GoTo, files, InstallerUnchanged, Installs,
           Steps
  <2>2. InstallInv' /\ EmptyInv' /\ FreshInv'
    BY <1>1
       DEF IInv, CommitFails, InstallInv, EmptyInv, FreshInv, At, GoTo, files,
           InstallerUnchanged, Active, AfterRead, Steps
  <2>3. WatchInv' /\ MatchInv' /\ UndoInv'
    BY <1>1
       DEF IInv, CommitFails, WatchInv, MatchInv, UndoInv, TypeOK, At, GoTo, files,
           InstallerUnchanged, Clearing, AfterRead, Active, Installs
  <2>4. ActiveInstalled' /\ FallbackInstalled' /\ FailedInstallUndone'
    BY <1>1
       DEF IInv, CommitFails, ActiveInstalled, FallbackInstalled,
           FailedInstallUndone, At, GoTo, files, InstallerUnchanged
  <2> QED
    BY <2>1, <2>2, <2>3, <2>4 DEF IInv
<1>2. CASE ~installer.armed
  <2>1. TypeOK'
    BY MishapType, <1>2
       DEF IInv, CommitFails, TypeOK, GoTo, files, InstallerUnchanged, Installs,
           Steps
  <2>2. InstallInv' /\ EmptyInv' /\ FreshInv'
    BY <1>2
       DEF IInv, CommitFails, InstallInv, EmptyInv, FreshInv, At, GoTo, files,
           InstallerUnchanged, Active, AfterRead, Steps
  <2>3. WatchInv' /\ MatchInv' /\ UndoInv'
    BY <1>2
       DEF IInv, CommitFails, WatchInv, MatchInv, UndoInv, TypeOK, At, GoTo, files,
           InstallerUnchanged, Clearing, AfterRead, Active, Installs
  <2>4. ActiveInstalled' /\ FallbackInstalled' /\ FailedInstallUndone'
    BY <1>2
       DEF IInv, CommitFails, ActiveInstalled, FallbackInstalled,
           FailedInstallUndone, At, GoTo, files, InstallerUnchanged
  <2> QED
    BY <2>1, <2>2, <2>3, <2>4 DEF IInv
<1> QED
  BY <1>1, <1>2

\* Nothing is pending.
LEMMA ClearForUndoStep == ASSUME IInv, ClearForUndo PROVE IInv'
<1>1. TypeOK'
  BY DEF IInv, ClearForUndo, TypeOK, GoTo, InstallerUnchanged, Installs, Steps
<1>2. InstallInv' /\ EmptyInv' /\ FreshInv'
  BY DEF IInv, ClearForUndo, InstallInv, EmptyInv, FreshInv, At, GoTo,
         InstallerUnchanged, Active, AfterRead, Steps
<1>3. WatchInv' /\ MatchInv' /\ UndoInv'
  BY DEF IInv, ClearForUndo, WatchInv, MatchInv, UndoInv, At, GoTo,
         InstallerUnchanged, AfterRead, Active, Steps
<1>4. ActiveInstalled' /\ FallbackInstalled' /\ FailedInstallUndone'
  BY DEF IInv, ClearForUndo, ActiveInstalled, FallbackInstalled,
         FailedInstallUndone, At, GoTo, InstallerUnchanged
<1> QED
  BY <1>1, <1>2, <1>3, <1>4 DEF IInv

\* The build that was read is still installed, and is not the fresh version.
LEMMA RestorePointerStep == ASSUME IInv, RestorePointer PROVE IInv'
<1>1. CASE installer.created
  <2>1. installer' = [installer EXCEPT !.step = "remove"]
    BY <1>1 DEF RestorePointer, AfterRestore, GoTo
  <2>2. TypeOK'
    BY <1>1
       DEF IInv, RestorePointer, TypeOK, AfterRestore, InstallerUnchanged, Installs,
           GoTo, Steps
  <2>3. InstallInv' /\ EmptyInv' /\ FreshInv'
    BY <1>1
       DEF IInv, RestorePointer, InstallInv, EmptyInv, FreshInv, TypeOK, At,
           AfterRestore, InstallerUnchanged, Active, AfterRead, Installs, GoTo,
           Steps
  <2>4. WatchInv' /\ MatchInv' /\ UndoInv'
    BY <1>1, <2>1
       DEF IInv, RestorePointer, WatchInv, MatchInv, UndoInv, TypeOK, At,
           InstallerUnchanged, AfterRead, Active, Installs, FreshInv
  <2>5. ActiveInstalled' /\ FallbackInstalled' /\ FailedInstallUndone'
    BY <1>1, <2>1
       DEF IInv, RestorePointer, ActiveInstalled, FallbackInstalled,
           FailedInstallUndone, At, InstallerUnchanged, InstallInv, Active
  <2> QED
    BY <2>2, <2>3, <2>4, <2>5 DEF IInv
<1>2. CASE ~installer.created
  <2>1. installer' = [installer EXCEPT !.step = "idle", !.outcome = "failed"]
    BY <1>2 DEF RestorePointer, AfterRestore, End
  <2>2. TypeOK'
    BY EndType, <1>2
       DEF IInv, RestorePointer, AfterRestore, InstallerUnchanged, TypeOK, Installs
  <2>3. InstallInv' /\ EmptyInv' /\ FreshInv'
    BY <1>2, <2>1
       DEF IInv, RestorePointer, InstallInv, EmptyInv, FreshInv, TypeOK, At, Active,
           AfterRead, Installs
  <2>4. WatchInv' /\ MatchInv' /\ UndoInv'
    BY <1>2, <2>1
       DEF IInv, RestorePointer, WatchInv, MatchInv, UndoInv, TypeOK, At,
           InstallerUnchanged, Clearing, AfterRead, Installs, InstallInv, EmptyInv
  <2>5. ActiveInstalled' /\ FallbackInstalled' /\ FailedInstallUndone'
    BY <1>2, <2>1
       DEF IInv, RestorePointer, ActiveInstalled, FallbackInstalled,
           FailedInstallUndone, TypeOK, At, InstallerUnchanged, Installs, Active,
           AfterRead, UndoInv
  <2> QED
    BY <2>2, <2>3, <2>4, <2>5 DEF IInv
<1> QED
  BY <1>1, <1>2

\* Nobody needs the fresh version any more.
LEMMA RemoveVersionStep == ASSUME IInv, RemoveVersion PROVE IInv'
<1>1. TypeOK'
  BY EndType DEF IInv, RemoveVersion, InstallerUnchanged, TypeOK
<1>2. InstallInv' /\ EmptyInv' /\ FreshInv'
  BY DEF IInv, RemoveVersion, InstallInv, EmptyInv, FreshInv, At, End, Active
<1>3. WatchInv' /\ MatchInv' /\ UndoInv'
  BY DEF IInv, RemoveVersion, WatchInv, MatchInv, UndoInv, At, End,
         InstallerUnchanged, Clearing, AfterRead
<1>4. ActiveInstalled' /\ FallbackInstalled' /\ FailedInstallUndone'
  BY DEF IInv, RemoveVersion, ActiveInstalled, FallbackInstalled,
         FailedInstallUndone, At, End, InstallerUnchanged, InstallInv, Active,
         FreshInv, UndoInv
<1> QED
  BY <1>1, <1>2, <1>3, <1>4 DEF IInv

\* No file changes.
LEMMA UndoFailsStep == ASSUME IInv, UndoFails PROVE IInv'
<1>1. TypeOK'
  BY MishapType, EndType DEF IInv, UndoFails, InstallerUnchanged, TypeOK, files
<1>2. InstallInv' /\ EmptyInv' /\ FreshInv'
  BY DEF IInv, UndoFails, InstallInv, EmptyInv, FreshInv, End, files, At, Active,
         AfterRead
<1>3. WatchInv' /\ MatchInv' /\ UndoInv'
  BY DEF IInv, UndoFails, WatchInv, MatchInv, UndoInv, End, files,
         InstallerUnchanged, Clearing, AfterRead
<1>4. ActiveInstalled' /\ FallbackInstalled' /\ FailedInstallUndone'
  BY DEF IInv, UndoFails, ActiveInstalled, FallbackInstalled, FailedInstallUndone,
         End, files, InstallerUnchanged
<1> QED
  BY <1>1, <1>2, <1>3, <1>4 DEF IInv

\* The files are parted where the transaction was between them.
LEMMA InstallerDiesStep == ASSUME IInv, InstallerDies PROVE IInv'
<1>1. TypeOK'
  BY MishapType, EndType DEF IInv, InstallerDies, InstallerUnchanged, TypeOK, files
<1>2. InstallInv' /\ EmptyInv' /\ FreshInv'
  BY DEF IInv, InstallerDies, InstallInv, EmptyInv, FreshInv, At, End, files,
         Active, AfterRead
<1>3. WatchInv' /\ MatchInv' /\ UndoInv'
  BY DEF IInv, InstallerDies, WatchInv, MatchInv, UndoInv, TypeOK, At, End, files,
         InstallerUnchanged, Clearing, AfterRead, Installs
<1>4. ActiveInstalled' /\ FallbackInstalled' /\ FailedInstallUndone'
  BY DEF IInv, InstallerDies, ActiveInstalled, FallbackInstalled,
         FailedInstallUndone, End, files, InstallerUnchanged
<1> QED
  BY <1>1, <1>2, <1>3, <1>4 DEF IInv

-------------------------------------------------------------------------------
(***************************************************************************)
(* Steps of a Guardian                                                     *)
(***************************************************************************)
\* What the Guardian is to watch is what is pending.
LEMMA StartGuardianStep ==
    ASSUME IInv, NEW g \in Guardians, StartGuardian(g)
    PROVE  IInv'
<1>1. TypeOK'
  BY DEF IInv, StartGuardian, TypeOK, Rest, Processes
<1>2. InstallInv' /\ EmptyInv' /\ FreshInv'
  BY DEF IInv, StartGuardian, InstallInv, EmptyInv, FreshInv, Rest, At, Active,
         AfterRead
<1>3. WatchInv' /\ MatchInv' /\ UndoInv'
  BY DEF IInv, StartGuardian, WatchInv, MatchInv, UndoInv, Clearing, AfterRead, At,
         Active
<1>4. ActiveInstalled' /\ FallbackInstalled' /\ FailedInstallUndone'
  BY DEF IInv, StartGuardian, ActiveInstalled, FallbackInstalled,
         FailedInstallUndone, Rest
<1> QED
  BY <1>1, <1>2, <1>3, <1>4 DEF IInv

\* No file changes.
LEMMA LoadStep == ASSUME IInv, NEW g \in Guardians, Load(g) PROVE IInv'
<1>1. CASE guardians[g].watch.candidate = pointer
  <2>1. TypeOK'
    BY <1>1 DEF IInv, Load, TypeOK, Moves, Rest, Processes
  <2>2. InstallInv' /\ EmptyInv' /\ FreshInv'
    BY <1>1
       DEF IInv, Load, Rest, Moves, TypeOK, InstallInv, EmptyInv, FreshInv,
           Processes, Active, AfterRead, At
  <2>3. WatchInv' /\ MatchInv' /\ UndoInv'
    BY <1>1
       DEF IInv, Load, Moves, TypeOK, WatchInv, MatchInv, UndoInv, Processes,
           Active, AfterRead, At, Clearing
  <2>4. ActiveInstalled' /\ FallbackInstalled' /\ FailedInstallUndone'
    BY <1>1
       DEF IInv, Load, Rest, Moves, TypeOK, ActiveInstalled, FallbackInstalled,
           FailedInstallUndone, Processes
  <2> QED
    BY <2>1, <2>2, <2>3, <2>4 DEF IInv
<1>2. CASE guardians[g].watch.candidate # pointer
  <2>1. guardians' = [guardians EXCEPT ![g] = Gone]
    BY <1>2 DEF Load, Exits
  <2>2. TypeOK'
    BY <1>2, <2>1 DEF IInv, Load, TypeOK, Rest, Processes, Gone
  <2>3. InstallInv' /\ EmptyInv' /\ FreshInv'
    BY <1>2
       DEF IInv, Load, InstallInv, EmptyInv, FreshInv, TypeOK, Exits, Rest, At,
           Active, AfterRead, Gone
  <2>4. WatchInv' /\ MatchInv' /\ UndoInv'
    BY <1>2
       DEF IInv, Load, WatchInv, MatchInv, UndoInv, TypeOK, Exits, Clearing,
           AfterRead, At, Active, Gone
  <2>5. ActiveInstalled' /\ FallbackInstalled' /\ FailedInstallUndone'
    BY <1>2
       DEF IInv, Load, ActiveInstalled, FallbackInstalled, FailedInstallUndone,
           TypeOK, Exits, Rest, Gone
  <2> QED
    BY <2>2, <2>3, <2>4, <2>5 DEF IInv
<1> QED
  BY <1>1, <1>2

\* No file changes.
LEMMA JudgeStep == ASSUME IInv, NEW g \in Guardians, Judge(g) PROVE IInv'
<1>1. TypeOK'
  BY DEF IInv, Judge, TypeOK, Moves, Rest, Processes
<1>2. InstallInv' /\ EmptyInv' /\ FreshInv'
  BY DEF IInv, Judge, InstallInv, EmptyInv, FreshInv, Moves, Rest, At, Active,
         AfterRead
<1>3. WatchInv' /\ MatchInv' /\ UndoInv'
  BY DEF IInv, Judge, WatchInv, MatchInv, UndoInv, Moves, Clearing, AfterRead, At,
         Active
<1>4. ActiveInstalled' /\ FallbackInstalled' /\ FailedInstallUndone'
  BY DEF IInv, Judge, ActiveInstalled, FallbackInstalled, FailedInstallUndone,
         Moves, Rest
<1> QED
  BY <1>1, <1>2, <1>3, <1>4 DEF IInv

\* Nothing is pending.
LEMMA PromoteStep == ASSUME IInv, NEW g \in Guardians, Promote(g) PROVE IInv'
<1>1. guardians[g] \in Processes
  BY DEF IInv, TypeOK
<1>2. [guardians[g] EXCEPT !.step = "plain", !.watch = None] \in Processes
  BY <1>1 DEF Processes
<1>3. guardians' =
        [guardians EXCEPT
           ![g] = [guardians[g] EXCEPT !.step = "plain", !.watch = None]]
  BY DEF Promote
<1>4. guardians' \in [Guardians -> Processes]
  BY <1>2, <1>3 DEF IInv, TypeOK
<1>5. TypeOK'
  BY <1>4 DEF IInv, Promote, TypeOK, Rest
<1>6. InstallInv' /\ EmptyInv' /\ FreshInv'
  BY DEF IInv, Promote, InstallInv, EmptyInv, FreshInv, TypeOK, Rest, At, Active,
         AfterRead
<1>7. WatchInv' /\ MatchInv' /\ UndoInv'
  BY DEF IInv, Promote, WatchInv, MatchInv, UndoInv, TypeOK, AfterRead, Active
<1>8. ActiveInstalled' /\ FallbackInstalled' /\ FailedInstallUndone'
  BY DEF IInv, Promote, ActiveInstalled, FallbackInstalled, FailedInstallUndone,
         TypeOK, Rest
<1> QED
  BY <1>5, <1>6, <1>7, <1>8 DEF IInv

\* No file changes.
LEMMA PromoteFailsStep ==
    ASSUME IInv, NEW g \in Guardians, PromoteFails(g)
    PROVE  IInv'
<1>1. TypeOK'
  BY MishapType DEF IInv, PromoteFails, TypeOK, Moves, Rest, Processes
<1>2. InstallInv' /\ EmptyInv' /\ FreshInv'
  BY DEF IInv, PromoteFails, InstallInv, EmptyInv, FreshInv, Moves, Rest, At,
         Active, AfterRead
<1>3. WatchInv' /\ MatchInv' /\ UndoInv'
  BY DEF IInv, PromoteFails, WatchInv, MatchInv, UndoInv, Moves, Clearing,
         AfterRead, At, Active
<1>4. ActiveInstalled' /\ FallbackInstalled' /\ FailedInstallUndone'
  BY DEF IInv, PromoteFails, ActiveInstalled, FallbackInstalled,
         FailedInstallUndone, Moves, Rest
<1> QED
  BY <1>1, <1>2, <1>3, <1>4 DEF IInv

\* No file changes.
LEMMA CandidateFailsStep ==
    ASSUME IInv, NEW g \in Guardians, CandidateFails(g)
    PROVE  IInv'
<1>1. TypeOK'
  BY DEF IInv, CandidateFails, TypeOK, Moves, Rest, Processes
<1>2. InstallInv' /\ EmptyInv' /\ FreshInv'
  BY DEF IInv, CandidateFails, InstallInv, EmptyInv, FreshInv, Moves, Rest, At,
         Active, AfterRead
<1>3. WatchInv' /\ MatchInv' /\ UndoInv'
  BY DEF IInv, CandidateFails, WatchInv, MatchInv, UndoInv, Moves, Clearing,
         AfterRead, At, Active
<1>4. ActiveInstalled' /\ FallbackInstalled' /\ FailedInstallUndone'
  BY DEF IInv, CandidateFails, ActiveInstalled, FallbackInstalled,
         FailedInstallUndone, Moves, Rest
<1> QED
  BY <1>1, <1>2, <1>3, <1>4 DEF IInv

\* The pointer names a fallback, which is installed and not a fresh version.
LEMMA RollBackStep == ASSUME IInv, NEW g \in Guardians, RollBack(g) PROVE IInv'
<1>1. installer' \in Installs
  BY DEF IInv, TypeOK, Installs, RollBack
<1>2. TypeOK'
  BY <1>1 DEF IInv, RollBack, TypeOK, Moves, Rest, Processes
<1>3. InstallInv'
  BY ActivationAssumption
     DEF IInv, RollBack, TypeOK, InstallInv, Active, AfterRead, At, Rest
<1>4. EmptyInv'
  BY ActivationAssumption DEF IInv, RollBack, TypeOK, EmptyInv, AfterRead
<1>5. FreshInv'
  BY DEF IInv, RollBack, Moves, FreshInv, WatchInv, Active
<1>6. WatchInv' /\ MatchInv' /\ UndoInv'
  BY DEF IInv, RollBack, WatchInv, MatchInv, UndoInv, TypeOK, Moves, Clearing
<1>7. ActiveInstalled' /\ FallbackInstalled' /\ FailedInstallUndone'
  BY DEF IInv, RollBack, ActiveInstalled, FallbackInstalled, FailedInstallUndone,
         Moves, Rest
<1> QED
  BY <1>2, <1>3, <1>4, <1>5, <1>6, <1>7 DEF IInv

\* No file changes.
LEMMA RollBackFailsStep ==
    ASSUME IInv, NEW g \in Guardians, RollBackFails(g)
    PROVE  IInv'
<1>1. TypeOK'
  BY MishapType DEF IInv, RollBackFails, TypeOK, Exits, Rest, Processes, Gone
<1>2. InstallInv' /\ EmptyInv' /\ FreshInv'
  BY DEF IInv, RollBackFails, InstallInv, EmptyInv, FreshInv, Exits, Rest, At,
         Active, AfterRead, Gone
<1>3. WatchInv' /\ MatchInv' /\ UndoInv'
  BY DEF IInv, RollBackFails, WatchInv, MatchInv, UndoInv, Exits, Clearing,
         AfterRead, At, Active, Gone
<1>4. ActiveInstalled' /\ FallbackInstalled' /\ FailedInstallUndone'
  BY DEF IInv, RollBackFails, ActiveInstalled, FallbackInstalled,
         FailedInstallUndone, Exits, Rest, Gone
<1> QED
  BY <1>1, <1>2, <1>3, <1>4 DEF IInv

\* Nothing is pending.
LEMMA ClearPendingStep ==
    ASSUME IInv, NEW g \in Guardians, ClearPending(g)
    PROVE  IInv'
<1>1. TypeOK'
  BY DEF IInv, ClearPending, TypeOK, Exits, Rest, Processes, Gone
<1>2. InstallInv' /\ EmptyInv' /\ FreshInv'
  BY DEF IInv, ClearPending, InstallInv, EmptyInv, FreshInv, Exits, Rest, At,
         Active, AfterRead, Gone
<1>3. WatchInv' /\ MatchInv' /\ UndoInv'
  BY DEF IInv, ClearPending, WatchInv, MatchInv, UndoInv, Exits, AfterRead, Active,
         Gone
<1>4. ActiveInstalled' /\ FallbackInstalled' /\ FailedInstallUndone'
  BY DEF IInv, ClearPending, ActiveInstalled, FallbackInstalled,
         FailedInstallUndone, Exits, Rest, Gone
<1> QED
  BY <1>1, <1>2, <1>3, <1>4 DEF IInv

\* The files are parted where the Guardian was between them.
LEMMA GuardianDiesStep ==
    ASSUME IInv, NEW g \in Guardians, GuardianDies(g)
    PROVE  IInv'
<1>1. TypeOK'
  BY MishapType DEF IInv, GuardianDies, TypeOK, Exits, Rest, Processes, Gone
<1>2. InstallInv' /\ EmptyInv' /\ FreshInv'
  BY DEF IInv, GuardianDies, InstallInv, EmptyInv, FreshInv, Exits, Rest, At,
         Active, AfterRead, Gone
<1>3. WatchInv' /\ MatchInv' /\ UndoInv'
  BY DEF IInv, GuardianDies, WatchInv, MatchInv, UndoInv, TypeOK, Exits, Processes,
         Gone, files, Active, AfterRead, At, Clearing
<1>4. ActiveInstalled' /\ FallbackInstalled' /\ FailedInstallUndone'
  BY DEF IInv, GuardianDies, ActiveInstalled, FallbackInstalled,
         FailedInstallUndone, Exits, Rest, Gone
<1> QED
  BY <1>1, <1>2, <1>3, <1>4 DEF IInv

\* No file changes.
LEMMA OwnerStopsStep == ASSUME IInv, NEW g \in Guardians, OwnerStops(g) PROVE IInv'
<1>1. TypeOK'
  BY DEF IInv, OwnerStops, TypeOK, Exits, Rest, Processes, Gone
<1>2. InstallInv' /\ EmptyInv' /\ FreshInv'
  BY DEF IInv, OwnerStops, InstallInv, EmptyInv, FreshInv, Exits, Rest, At, Active,
         AfterRead, Gone
<1>3. WatchInv' /\ MatchInv' /\ UndoInv'
  BY DEF IInv, OwnerStops, WatchInv, MatchInv, UndoInv, Exits, Clearing, AfterRead,
         At, Active, Gone
<1>4. ActiveInstalled' /\ FallbackInstalled' /\ FailedInstallUndone'
  BY DEF IInv, OwnerStops, ActiveInstalled, FallbackInstalled, FailedInstallUndone,
         Exits, Rest, Gone
<1> QED
  BY <1>1, <1>2, <1>3, <1>4 DEF IInv

\* No file changes.
LEMMA ShellClosesStep ==
    ASSUME IInv, NEW g \in Guardians, ShellCloses(g)
    PROVE  IInv'
<1>1. guardians[g] \in Processes
  BY DEF IInv, TypeOK
<1>2. [guardians[g] EXCEPT !.owned = FALSE] \in Processes
  BY <1>1 DEF Processes
<1>3. TypeOK'
  BY MishapType, <1>2 DEF IInv, ShellCloses, TypeOK, Rest
<1>4. InstallInv' /\ EmptyInv' /\ FreshInv'
  BY DEF IInv, ShellCloses, InstallInv, EmptyInv, FreshInv, Rest, At, Active,
         AfterRead
<1>5. WatchInv' /\ MatchInv' /\ UndoInv'
  BY DEF IInv, ShellCloses, WatchInv, MatchInv, UndoInv, Clearing, AfterRead, At,
         Active
<1>6. ActiveInstalled' /\ FallbackInstalled' /\ FailedInstallUndone'
  BY DEF IInv, ShellCloses, ActiveInstalled, FallbackInstalled, FailedInstallUndone,
         Rest
<1> QED
  BY <1>3, <1>4, <1>5, <1>6 DEF IInv

-------------------------------------------------------------------------------
(***************************************************************************)
(* The theorems                                                            *)
(***************************************************************************)
\* The installer keeps the invariant.
LEMMA InstallerKeepsIInv == ASSUME IInv, InstallerStep \/ InstallerMishap PROVE IInv'
  BY StageStep, ProtectStep, ReadPointerStep, WritePendingStep, ReplacePointerStep,
     DisarmStep, VerifyStep, CommitStep, ClearForUndoStep, RestorePointerStep,
     RemoveVersionStep, StageFailsStep, ProtectFailsStep, WritePendingFailsStep,
     ReplacePointerFailsStep, DisarmFailsStep, VerifyFailsStep, CommitFailsStep,
     UndoFailsStep, InstallerDiesStep
     DEF InstallerStep, InstallerMishap

\* A Guardian keeps the invariant.
LEMMA GuardianKeepsIInv ==
    ASSUME IInv, NEW g \in Guardians, GuardianStep(g) \/ GuardianMishap(g)
    PROVE  IInv'
  BY StartGuardianStep, LoadStep, JudgeStep, PromoteStep, RollBackStep, ClearPendingStep,
     OwnerStopsStep, PromoteFailsStep, CandidateFailsStep, RollBackFailsStep,
     GuardianDiesStep, ShellClosesStep
     DEF GuardianStep, GuardianMishap

\* The initial state satisfies the invariant.
LEMMA InitIInv == Init => IInv
<1> SUFFICES ASSUME Init PROVE IInv
  OBVIOUS
<1>1. TypeOK
  <2>1. installer \in Installs
    BY DEF Init, Installs, Steps
  <2>2. guardians \in [Guardians -> Processes]
    BY DEF Init, Processes, Gone
  <2>3. installs \in 0..MaxInstalls /\ mishaps \in 0..MaxMishaps
    BY ActivationAssumption DEF Init
  <2> QED
    BY <2>1, <2>2, <2>3 DEF Init, TypeOK
<1>2. InstallInv /\ EmptyInv /\ FreshInv
  BY DEF Init, InstallInv, EmptyInv, FreshInv, Active, AfterRead, At, Steps
<1>3. WatchInv /\ MatchInv /\ UndoInv
  BY DEF Init, WatchInv, MatchInv, UndoInv, Active, Gone
<1>4. ActiveInstalled /\ FallbackInstalled /\ FailedInstallUndone
  BY DEF Init, ActiveInstalled, FallbackInstalled, FailedInstallUndone, Gone
<1> QED
  BY <1>1, <1>2, <1>3, <1>4 DEF IInv

\* Every state that installers and Guardians can reach satisfies IInv, for any
\* builds, Guardians, installs and mishaps.
THEOREM Invariance == Spec => []IInv
<1>1. IInv /\ UNCHANGED vars => IInv'
  BY DEF vars, files, IInv, TypeOK, InstallInv, EmptyInv, FreshInv, WatchInv, MatchInv,
         UndoInv, ActiveInstalled, FallbackInstalled, FailedInstallUndone, Active,
         AfterRead, At, Clearing
<1>2. IInv /\ [Next]_vars => IInv'
  BY <1>1, BeginStep, InstallerKeepsIInv, GuardianKeepsIInv DEF Next
<1> QED
  BY <1>2, InitIInv, PTL DEF Spec

\* The build that current.json names is installed (from_flat_payload,
\* InstallActivation::rollback, ActivationWatch::rollback).
THEOREM ActiveStays == Spec => []ActiveInstalled
<1>1. IInv => ActiveInstalled
  BY DEF IInv
<1> QED
  BY <1>1, Invariance, PTL

\* Every build that somebody may roll back to is installed (RollbackPending,
\* ActivationWatch, InstallActivation.previous_pointer).
THEOREM FallbackStays == Spec => []FallbackInstalled
<1>1. IInv => FallbackInstalled
  BY DEF IInv
<1> QED
  BY <1>1, Invariance, PTL

\* A Guardian can load the pending activation whenever nobody is at work on the two
\* files and no mishap has parted them (ActivationWatch::load).
THEOREM FilesAgree == Spec => []PendingMatches
<1>1. IInv => PendingMatches
  BY DEF IInv, MatchInv, PendingMatches, AtRest, Clearing
<1> QED
  BY <1>1, Invariance, PTL

\* A failed install leaves the build active that was active before
\* (InstallActivation::rollback), unless a Guardian rolled back meanwhile.
THEOREM Undone == Spec => []FailedInstallUndone
<1>1. IInv => FailedInstallUndone
  BY DEF IInv
<1> QED
  BY <1>1, Invariance, PTL

\* The variables keep their types.
THEOREM TypeCorrect == Spec => []TypeOK
<1>1. IInv => TypeOK
  BY DEF IInv
<1> QED
  BY <1>1, Invariance, PTL

===============================================================================
