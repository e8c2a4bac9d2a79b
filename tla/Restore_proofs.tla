--------------------------- MODULE Restore_proofs ---------------------------
(***************************************************************************)
(* Proofs about Restore, for every set of rows and every combination of    *)
(* faults.  TypeOK and SwapInv are inductive; OriginalInv holds only       *)
(* together with OriginalRecoverable, which is all that survives an        *)
(* interruption and so what the next call starts from.                     *)
(***************************************************************************)
EXTENDS Restore, TLAPS

\* What a connection reads is a database or damaged, and folding the log into
\* the file leaves a file of the same kinds.
LEMMA VisibleType ==
    ASSUME TypeOK
    PROVE  /\ Visible \in {Torn} \union Image
           /\ Present \in File
           /\ main # Torn => Visible \in Image /\ Readable(Visible)
           /\ LastClose => main' \in File /\ wal' = NoFile
<1> USE SpecialFiles DEF TypeOK, File, Image
<1>1. Logged \in Image
  BY DEF Logged
<1>2. main # Torn => Opened \in Image
  BY DEF Opened
<1>3. main # Torn => Visible \in Image
  BY <1>1, <1>2 DEF Visible
<1>4. Visible \in {Torn} \union Image
  BY <1>3 DEF Visible
<1>5. Present \in File
  BY <1>4 DEF Present
<1> QED
  BY <1>3, <1>4, <1>5 DEF LastClose, Readable

\* Restore's own variables stay what they are, whatever goes wrong: no
\* interruption leaves a file of another kind or restore() at no statement.
THEOREM TypeCorrect == Spec => []TypeOK
<1>1. Init => TypeOK
  BY SpecialFiles DEF Init, TypeOK, File, Image, PC, Results
<1>2. TypeOK /\ [Next]_vars => TypeOK'
  <2> SUFFICES ASSUME TypeOK, [Next]_vars PROVE TypeOK'
    OBVIOUS
  <2> USE SpecialFiles DEF TypeOK, PC, Results, Step, Return, files, observed
  <2>1. CASE AppClose
    BY <2>1, VisibleType DEF AppClose
  <2>2. ASSUME NEW r \in Row, AppCommit(r) PROVE TypeOK'
    BY <2>2 DEF AppCommit, Opened, Logged, File, Image
  <2>3. ASSUME NEW s \in File, NEW confirm \in BOOLEAN, NEW known \in BOOLEAN,
               Refuse(s, confirm, known)
        PROVE  TypeOK'
    BY <2>3 DEF Refuse
  <2>4. ASSUME NEW s \in File, NEW confirm \in BOOLEAN, NEW known \in BOOLEAN,
               Call(s, confirm, known)
        PROVE  TypeOK'
    BY <2>4, VisibleType DEF Call, Admissible, Readable, File
  <2>5. CASE Checkpoint
    BY <2>5, VisibleType DEF Checkpoint, File, Image
  <2>6. CASE Release
    BY <2>6, VisibleType DEF Release
  <2>7. CASE CopyAside
    BY <2>7 DEF CopyAside, File
  <2>8. CASE CopiedAside \/ DropSidecars
    BY <2>8 DEF CopiedAside, DropSidecars
  <2>9. CASE UnlinkTarget \/ TouchTarget
    BY <2>9 DEF UnlinkTarget, TouchTarget, Opened, File, Image
  <2>10. CASE CopyIn
    BY <2>10 DEF CopyIn, File
  <2>11. CASE CopiedIn
    BY <2>11 DEF CopiedIn, File
  <2>12. CASE VerifyOk
    BY <2>12 DEF VerifyOk, Logged, Image
  <2>13. CASE Finish
    BY <2>13, VisibleType DEF Finish
  <2>14. CASE DropAside
    BY <2>14 DEF DropAside, File
  <2>15. CASE VerifyBad \/ RollbackRelease
    BY <2>15 DEF VerifyBad, RollbackRelease
  <2>16. CASE PutBack \/ PuttingBack
    BY <2>16 DEF PutBack, PuttingBack, File
  <2>17. CASE Forget \/ RemoveTarget
    BY <2>17 DEF Forget, RemoveTarget, File
  <2>18. CASE Environment
    <3>1. CASE Intrude
      BY <3>1 DEF Intrude, File
    <3>2. CASE CopyFails \/ Crash \/ VerifyBusy \/ SourcePruned
      BY <3>2 DEF CopyFails, Crash, VerifyBusy, SourcePruned, File
    <3>3. CASE Join
      BY <3>3 DEF Join, Logged, Image
    <3> QED
      BY <2>18, <3>1, <3>2, <3>3 DEF Environment
  <2>19. CASE UNCHANGED vars
    BY <2>19 DEF vars
  <2> QED
    BY <2>1, <2>2, <2>3, <2>4, <2>5, <2>6, <2>7, <2>8, <2>9, <2>10, <2>11, <2>12,
       <2>13, <2>14, <2>15, <2>16, <2>17, <2>18, <2>19
    DEF Next, Application, Checks, Swap, Rollback
<1> QED
  BY <1>1, <1>2, PTL DEF Spec

-----------------------------------------------------------------------------

\* When a step leaves what a connection reads as it was.
LEMMA VisiblePrime ==
    ASSUME TypeOK, TypeOK'
    PROVE  /\ main' = main /\ wal' = wal => Visible' = Visible
           /\ main # Torn /\ main' = Visible /\ wal' = {} => Visible' = Visible
           /\ main' # NoFile /\ wal' = NoFile => Visible' = main'
           /\ (wal # NoFile => Readable(main)) /\ LastClose => Visible' = Visible
<1> USE SpecialFiles
<1>1. main' = main /\ wal' = wal => Visible' = Visible
  BY DEF Visible, Opened, Logged
<1>2. main # Torn /\ main' = Visible /\ wal' = {} => Visible' = Visible
  BY VisibleType DEF Visible, Opened, Logged, Image, Readable
<1>3. main' # NoFile /\ wal' = NoFile => Visible' = main'
  BY DEF Visible, Opened, Logged, TypeOK, File, Image
<1>4. ASSUME wal # NoFile => Readable(main), LastClose PROVE Visible' = Visible
  <2>1. CASE wal = NoFile
    BY <1>4, <2>1 DEF LastClose, Visible, Opened, Logged
  <2>2. CASE wal # NoFile
    BY <1>4, <2>2, <1>3, VisibleType DEF LastClose, Readable
  <2> QED
    BY <2>1, <2>2
<1> QED
  BY <1>1, <1>2, <1>3, <1>4

\* restore() never verifies a file under a log of the one it replaced.
THEOREM SwapInvariant == Spec => []SwapInv
<1>1. Init => SwapInv
  BY DEF Init, SwapInv, Swapping, Exposed
<1>2. TypeOK /\ TypeOK' /\ SwapInv /\ [Next]_vars => SwapInv'
  <2> SUFFICES ASSUME TypeOK, TypeOK', SwapInv, [Next]_vars PROVE SwapInv'
    OBVIOUS
  <2> USE SpecialFiles DEF SwapInv, Swapping, Exposed, Step, Return, files, observed
  <2>1. CASE AppClose
    BY <2>1, VisibleType DEF AppClose, LastClose
  <2>2. ASSUME NEW r \in Row, AppCommit(r) PROVE SwapInv'
    BY <2>2 DEF AppCommit, Opened, Readable, TypeOK, File, Image
  <2>3. CASE Checks
    BY <2>3, VisiblePrime DEF Checks, Refuse, Call, Readable
  <2>4. CASE Checkpoint
    BY <2>4, VisibleType DEF Checkpoint
  <2>5. CASE Release
    BY <2>5, VisibleType DEF Release
  <2>6. CASE CopyAside \/ CopiedAside \/ DropSidecars
    BY <2>6 DEF CopyAside, CopiedAside, DropSidecars
  <2>7. CASE UnlinkTarget \/ TouchTarget
    BY <2>7 DEF UnlinkTarget, TouchTarget
  <2>8. CASE CopyIn \/ CopiedIn
    BY <2>8 DEF CopyIn, CopiedIn
  <2>9. CASE VerifyOk
    <3>1. wal = NoFile /\ Readable(main)
      BY <2>9 DEF VerifyOk, Readable, TypeOK, Image
    <3>2. Visible' = main
      BY <2>9, <3>1 DEF VerifyOk, Visible, Opened, Logged, Readable, TypeOK, File, Image
    <3> QED
      BY <2>9, <3>1, <3>2 DEF VerifyOk, Readable
  <2>10. CASE Finish
    <3>1. Visible' = Visible
      BY <2>10, VisiblePrime DEF Finish
    <3>2. main' # NoFile /\ (wal' = NoFile \/ disturbed)
      BY <2>10, VisibleType DEF Finish, LastClose, Readable, Image
    <3>3. wal' # NoFile => Readable(main)'
      BY <2>10 DEF Finish, LastClose, Readable
    <3> QED
      BY <2>10, <3>1, <3>2, <3>3 DEF Finish
  <2>11. CASE DropAside
    BY <2>11, VisiblePrime DEF DropAside
  <2>12. CASE Rollback
    BY <2>12 DEF Rollback, VerifyBad, RollbackRelease, PutBack, PuttingBack, Forget,
       RemoveTarget
  <2>13. CASE Environment
    <3>1. CASE CopyFails \/ Crash \/ VerifyBusy \/ SourcePruned
      BY <3>1, VisiblePrime DEF CopyFails, Crash, VerifyBusy, SourcePruned
    <3>2. CASE Intrude
      BY <3>2 DEF Intrude, Image
    <3>3. CASE Join
      BY <3>3 DEF Join, Readable
    <3> QED
      BY <2>13, <3>1, <3>2, <3>3 DEF Environment
  <2>14. CASE UNCHANGED vars
    BY <2>14, VisiblePrime DEF vars
  <2> QED
    BY <2>1, <2>2, <2>3, <2>4, <2>5, <2>6, <2>7, <2>8, <2>9, <2>10, <2>11, <2>12,
       <2>13, <2>14
    DEF Next, Application, Swap
<1> QED
  BY <1>1, <1>2, TypeCorrect, PTL DEF Spec

\* A restore that returns has left exactly the backup's rows and no log, even
\* when another process kept the checkpoint from completing, unless others have
\* opened the path during the swap: then the last dispose() removes no log.
THEOREM RestoreKeepsItsPromise == Spec => RestoredIsBackup
<1>1. TypeOK /\ TypeOK' /\ SwapInv /\ [Next]_vars
        => [Return("dropAside", "restored") =>
              (Visible' = wanted /\ wal' = NoFile) \/ disturbed]_vars
  <2> SUFFICES ASSUME TypeOK, TypeOK', SwapInv, [Next]_vars, Return("dropAside", "restored")
               PROVE  (Visible' = wanted /\ wal' = NoFile) \/ disturbed
    BY DEF vars
  <2>1. pc = "dropAside" /\ pc' = "idle" /\ result' = "restored"
    BY DEF Return, Step
  <2>2. CASE DropAside
    BY <2>1, <2>2, VisiblePrime DEF DropAside, SwapInv
  <2>3. CASE Environment
    BY <2>1, <2>3 DEF Environment, CopyFails, Crash, VerifyBusy, Intrude, Join, SourcePruned,
       Step, Return
  <2> QED
    BY <2>1, <2>2, <2>3 DEF Next, Application, Checks, Swap, Rollback, AppClose, AppCommit,
       Refuse, Call, Checkpoint, Release, CopyAside, CopiedAside, DropSidecars, UnlinkTarget,
       TouchTarget, CopyIn, CopiedIn, VerifyOk, Finish, VerifyBad, RollbackRelease, PutBack,
       PuttingBack, Forget, RemoveTarget, Step, Return, vars
<1> QED
  BY <1>1, TypeCorrect, SwapInvariant, PTL DEF Spec, RestoredIsBackup

-----------------------------------------------------------------------------
(* The database that was restored over *)

\* What the statements of restore() may rely on, together with the promise
\* itself, which is all that survives an interruption.
LEMMA OriginalInvariant == Spec => [](OriginalInv /\ OriginalRecoverable)
<1>1. Init => OriginalInv /\ OriginalRecoverable
  BY DEF Init, OriginalInv, OriginalRecoverable, Swapping, Exposed
<1>2. TypeOK /\ TypeOK' /\ SwapInv /\ OriginalInv /\ OriginalRecoverable /\ [Next]_vars
        => OriginalInv' /\ OriginalRecoverable'
  <2> SUFFICES ASSUME TypeOK, TypeOK', SwapInv, OriginalInv, OriginalRecoverable, [Next]_vars
               PROVE  OriginalInv' /\ OriginalRecoverable'
    OBVIOUS
  <2> USE SpecialFiles DEF SwapInv, OriginalInv, OriginalRecoverable, Swapping, Exposed, Holds, Content,
      Opened, Step, Return, files, observed
  <2>1. CASE AppClose
    BY <2>1, VisibleType, VisiblePrime DEF AppClose, LastClose
  <2>2. ASSUME NEW r \in Row, AppCommit(r) PROVE OriginalInv' /\ OriginalRecoverable'
    BY <2>2 DEF AppCommit, Visible, Logged, Readable, TypeOK, File, Image
  <2>3. ASSUME NEW s \in File, NEW confirm \in BOOLEAN, NEW known \in BOOLEAN,
               Refuse(s, confirm, known)
        PROVE  OriginalInv' /\ OriginalRecoverable'
    BY <2>3, VisiblePrime DEF Refuse
  <2>4. ASSUME NEW s \in File, NEW confirm \in BOOLEAN, NEW known \in BOOLEAN,
               Call(s, confirm, known)
        PROVE  OriginalInv' /\ OriginalRecoverable'
    <3>1. Visible' = Visible /\ original' = Present
      BY <2>4, VisiblePrime DEF Call
    <3>2. main = NoFile => Visible = {}
      BY DEF Visible, Logged, Readable
    <3>3. main # NoFile => Present = Visible /\ Visible # NoFile
      BY VisibleType DEF Present, Image
    <3> QED
      BY <2>4, <3>1, <3>2, <3>3 DEF Call, Present, Readable
  <2>5. CASE Checkpoint
    BY <2>5, VisibleType, VisiblePrime DEF Checkpoint, Image
  <2>6. CASE Release
    <3>1. Visible' = Visible
      BY <2>6, VisiblePrime DEF Release
    <3>2. main # NoFile => main' # NoFile
      BY <2>6, VisibleType DEF Release, LastClose, Image
    <3>3. pc = "release" /\ pc' = "copyAside" /\ (~missed' => Visible' = Opened')
      BY <2>6 DEF Release
    <3>4. UNCHANGED <<original, unsettled, aside, hadOriginal>>
      BY <2>6 DEF Release
    <3> QED
      BY <3>1, <3>2, <3>3, <3>4 DEF Readable
  <2>7. CASE CopyAside
    <3>1. Visible' = Visible /\ main' = main
      BY <2>7, VisiblePrime DEF CopyAside
    <3> QED
      BY <2>7, <3>1 DEF CopyAside, Readable
  <2>8. CASE CopiedAside \/ DropSidecars
    <3>1. Visible = Opened => Visible' = Visible /\ main' = main
      BY <2>8, VisiblePrime DEF CopiedAside, DropSidecars, Visible, Logged, TypeOK, File, Image
    <3> QED
      BY <2>8, <3>1 DEF CopiedAside, DropSidecars, Readable
  <2>9. CASE UnlinkTarget \/ TouchTarget
    BY <2>9, VisiblePrime DEF UnlinkTarget, TouchTarget, Readable
  <2>10. CASE CopyIn \/ CopiedIn
    BY <2>10 DEF CopyIn, CopiedIn, Readable
  <2>11. CASE VerifyOk \/ Finish \/ DropAside
    BY <2>11 DEF VerifyOk, Finish, DropAside
  <2>12. CASE VerifyBad \/ RollbackRelease
    BY <2>12 DEF VerifyBad, RollbackRelease, Readable
  <2>13. CASE PutBack
    BY <2>13 DEF PutBack, Readable
  <2>14. CASE PuttingBack
    BY <2>14 DEF PuttingBack, Readable, TypeOK, Image
  <2>15. CASE Forget \/ RemoveTarget
    BY <2>15 DEF Forget, RemoveTarget
  <2>16. CASE Environment
    <3>1. CASE Intrude
      BY <3>1 DEF Intrude, Readable
    <3>4. CASE Join
      BY <3>4 DEF Join
    <3>2. CASE CopyFails \/ Crash \/ VerifyBusy
      BY <3>2, VisiblePrime DEF CopyFails, Crash, VerifyBusy, Readable
    <3>3. CASE SourcePruned
      BY <3>3, VisiblePrime DEF SourcePruned
    <3> QED
      BY <2>16, <3>1, <3>2, <3>3, <3>4 DEF Environment
  <2>17. CASE UNCHANGED vars
    BY <2>17, VisiblePrime DEF vars
  <2> QED
    BY <2>1, <2>2, <2>3, <2>4, <2>5, <2>6, <2>7, <2>8, <2>9, <2>10, <2>11, <2>12,
       <2>13, <2>14, <2>15, <2>16, <2>17
    DEF Next, Application, Checks, Swap, Rollback
<1> QED
  BY <1>1, <1>2, TypeCorrect, SwapInvariant, PTL DEF Spec

\* An interrupted restore() leaves the original at its path or whole in the
\* .pre-restore copy.
THEOREM OriginalIsRecoverable == Spec => []OriginalRecoverable
BY OriginalInvariant, PTL

\* Every statement of restore() finds the files as it relies on them.
THEOREM CallsAreConsistent == Spec => []CallInv
BY OriginalInvariant, SwapInvariant, PTL DEF CallInv

\* What Forget and RemoveTarget leave at the path is the original.
LEMMA RolledBack ==
    ASSUME TypeOK, TypeOK', SwapInv, OriginalInv, ~missed, ~disturbed, Forget \/ RemoveTarget
    PROVE  Visible' = Content(original)
<1> USE SpecialFiles DEF Step, Return, SwapInv, OriginalInv, Swapping, Exposed, Content, Opened
<1>1. wal' = NoFile
  BY DEF Forget, RemoveTarget
<1>2. Opened' = Content(original)
  BY DEF Forget, RemoveTarget
<1> QED
  BY <1>1, <1>2 DEF Visible, Logged, TypeOK, File, Image

\* A restore() that reports the original was put back has put back all of it.
THEOREM PutBackKeepsItsPromise == Spec => PutBackIsComplete
<1>1. TypeOK /\ TypeOK' /\ SwapInv /\ OriginalInv /\ [Next]_vars
        => [PutsBack => Visible' = Content(original) \/ missed \/ disturbed]_vars
  <2> SUFFICES ASSUME TypeOK, TypeOK', SwapInv, OriginalInv, [Next]_vars, PutsBack, ~missed,
                      ~disturbed
               PROVE  Visible' = Content(original)
    BY DEF vars
  <2>1. Forget \/ RemoveTarget
    BY DEF PutsBack, Next, Application, Checks, Swap, Rollback, Environment, AppClose,
       AppCommit, Refuse, Call, Checkpoint, Release, CopyAside, CopiedAside, DropSidecars,
       UnlinkTarget, TouchTarget, CopyIn, CopiedIn, VerifyOk, Finish, DropAside, VerifyBad,
       RollbackRelease, PutBack, PuttingBack, CopyFails, Crash, VerifyBusy, Intrude, Join, SourcePruned, Step,
       Return, vars
  <2> QED
    BY <2>1, RolledBack
<1> QED
  BY <1>1, TypeCorrect, SwapInvariant, OriginalInvariant, PTL DEF Spec, PutBackIsComplete

\* The .pre-restore copy is deleted only once the path holds the backup or the
\* original again.
THEOREM AsideKeepsItsPromise == Spec => AsideOutlivesSwap
<1>1. TypeOK /\ TypeOK' /\ SwapInv /\ OriginalInv /\ [Next]_vars
        => [aside # NoFile /\ aside' = NoFile
              => Visible' \in {wanted, Content(original)} \/ missed \/ disturbed]_vars
  <2> SUFFICES ASSUME TypeOK, TypeOK', SwapInv, OriginalInv, [Next]_vars,
                      aside # NoFile, aside' = NoFile, ~missed, ~disturbed
               PROVE  Visible' \in {wanted, Content(original)}
    BY DEF vars
  <2>1. CASE Forget
    BY <2>1, RolledBack
  <2>2. CASE DropAside
    BY <2>2, VisiblePrime DEF DropAside, Return, Step, SwapInv
  <2>3. ~CopyAside /\ ~CopiedAside
    BY SpecialFiles DEF CopyAside, CopiedAside, Step, OriginalInv, TypeOK, Image
  <2>4. ~UNCHANGED vars
    BY DEF vars, files
  <2> QED
    BY <2>1, <2>2, <2>3, <2>4 DEF Next, Application, Checks, Swap, Rollback, Environment,
       AppClose, AppCommit, Refuse, Call, Checkpoint, Release, DropSidecars, UnlinkTarget,
       TouchTarget, CopyIn, CopiedIn, VerifyOk, Finish, VerifyBad, RollbackRelease, PutBack,
       PuttingBack, RemoveTarget, CopyFails, Crash, VerifyBusy, Intrude, Join, SourcePruned, observed, files
<1> QED
  BY <1>1, TypeCorrect, SwapInvariant, OriginalInvariant, PTL DEF Spec, AsideOutlivesSwap

=============================================================================
