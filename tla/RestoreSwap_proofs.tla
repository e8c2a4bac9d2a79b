------------------------- MODULE RestoreSwap_proofs -------------------------
(***************************************************************************)
(* Proof that restore() implements Swap, for any rows and faults: initial  *)
(* states map to initial states, and each step to a step or a stutter.     *)
(***************************************************************************)
EXTENDS RestoreSwap, Restore_proofs

\* Beyond what the statements of restore() rely on: the call has something to
\* fall back on, and misses commits only where a reader may pin the log.
SavedInv ==
    /\ hadOriginal /\ pc \in {"dropSidecars"} \union Exposed => aside # NoFile
    /\ missed => "checkpoint" \in Faults

RInv == TypeOK /\ SwapInv /\ OriginalInv /\ SavedInv

LEMMA SavedInductive == Spec => []RInv
<1>1. Init => SavedInv
  BY DEF Init, SavedInv, Exposed, Swapping
<1>2. TypeOK /\ SwapInv /\ OriginalInv /\ SavedInv /\ [Next]_vars => SavedInv'
  <2> SUFFICES ASSUME TypeOK, SwapInv, OriginalInv, SavedInv, [Next]_vars
               PROVE  SavedInv'
    OBVIOUS
  <2> USE SpecialFiles DEF SavedInv, Exposed, Swapping, Step, Return, files, observed
  <2>1. CASE Application
    BY <2>1 DEF Application, AppClose, AppCommit
  <2>2. CASE Checks
    BY <2>2 DEF Checks, Refuse, Call
  <2>3. CASE Checkpoint
    BY <2>3 DEF Checkpoint
  <2>10. CASE Release
    <3>1. CASE LastClose
      BY <2>10, <3>1, VisiblePrime, VisibleType DEF Release, SwapInv, LastClose, Visible, Opened, Logged, TypeOK, File, Image
    <3>2. CASE ~LastClose
      BY <2>10, <3>2 DEF Release
    <3> QED
      BY <3>1, <3>2
  <2>11. CASE CopyAside
    BY <2>11 DEF CopyAside
  <2>4. CASE CopiedAside
    BY <2>4 DEF CopiedAside, OriginalInv
  <2>5. CASE DropSidecars \/ UnlinkTarget \/ TouchTarget \/ CopyIn \/ CopiedIn
    BY <2>5 DEF DropSidecars, UnlinkTarget, TouchTarget, CopyIn, CopiedIn
  <2>6. CASE VerifyOk \/ Finish \/ DropAside
    BY <2>6 DEF VerifyOk, Finish, DropAside
  <2>7. CASE Rollback
    BY <2>7 DEF Rollback, VerifyBad, RollbackRelease, PutBack, PuttingBack, Forget, RemoveTarget
  <2>8. CASE Environment
    BY <2>8 DEF Environment, CopyFails, Crash, VerifyBusy, Intrude, Join, SourcePruned
  <2>9. CASE UNCHANGED vars
    BY <2>9 DEF vars
  <2> QED
    BY <2>1, <2>2, <2>3, <2>4, <2>5, <2>6, <2>7, <2>8, <2>9, <2>10, <2>11 DEF Next, Swap
<1>3. Spec => []TypeOK /\ []SwapInv /\ []OriginalInv
  BY TypeCorrect, SwapInvariant, CallsAreConsistent, PTL DEF CallInv
<1> QED
  BY <1>1, <1>2, <1>3, PTL DEF Spec, RInv

-----------------------------------------------------------------------------

SavedOf == IF hadOriginal THEN aside ELSE {}

\* The phase a statement belongs to, now and after the step.
LEMMA PhaseAt ==
    ASSUME TypeOK, TypeOK'
    PROVE  /\ pc = "idle" => PhaseOf = "idle"
           /\ pc \in {"checkpoint", "release", "copyAside", "copyingAside"} => PhaseOf = "saving"
           /\ pc \in {"dropSidecars", "unlinkTarget"} \union Swapping => PhaseOf = "exposed"
           /\ pc \in {"finish", "dropAside"} => PhaseOf = "restored"
           /\ pc = "forget" => PhaseOf = "putBack"
           /\ pc # "idle" => PhaseOf # "idle"
           /\ pc' = "idle" => PhaseOf' = "idle"
           /\ pc' \in {"checkpoint", "release", "copyAside", "copyingAside"} => PhaseOf' = "saving"
           /\ pc' \in {"dropSidecars", "unlinkTarget"} \union Swapping => PhaseOf' = "exposed"
           /\ pc' \in {"finish", "dropAside"} => PhaseOf' = "restored"
           /\ pc' = "forget" => PhaseOf' = "putBack"
           /\ pc' = pc => PhaseOf' = PhaseOf
  BY DEF TypeOK, PC, PhaseOf, Swapping

\* How a call ended, as Swap tells it.
LEMMA OutcomeAt ==
    /\ result' = result => OutcomeOf' = OutcomeOf
    /\ result' \in {"error", "crashed"} => OutcomeOf' = "interrupted"
    /\ result' \in {"refused", "restored", "putBack"} => OutcomeOf' = result'
  BY DEF OutcomeOf

LEMMA SavedAt ==
    ASSUME TypeOK, TypeOK'
    PROVE  /\ hadOriginal' = hadOriginal /\ aside' = aside => SavedOf' = SavedOf
           /\ SavedOf \in File
           /\ SavedOf' \in File
           /\ hadOriginal' => SavedOf' = aside'
           /\ ~hadOriginal' => SavedOf' = {}
           /\ hadOriginal => SavedOf = aside
           /\ ~hadOriginal => SavedOf = {}
  BY DEF TypeOK, SavedOf, File, Image

\* restore() keeps its promise: every behaviour of its statements, with the
\* faults around them, is one of Swap.
THEOREM RestoreImplementsSwap == Spec => KeepsPromise
<1>1. Init /\ TypeOK => Promise!Init
  <2> SUFFICES ASSUME Init, TypeOK PROVE Promise!Init
    OBVIOUS
  <2>1. Visible \in File
    BY VisibleType DEF File
  <2>2. PhaseOf = "idle" /\ OutcomeOf = "none"
    BY DEF Init, PhaseOf, OutcomeOf
  <2>3. (IF hadOriginal THEN aside ELSE {}) \in File
    BY DEF Init, File, Image
  <2>4. wanted \in SUBSET Row /\ disturbed = FALSE
    BY DEF Init
  <2> QED
    BY <2>1, <2>2, <2>3, <2>4 DEF Promise!Init, Promise!Image
<1>2. RInv /\ RInv' /\ [Next]_vars => [Promise!Next]_Promise!vars
  <2> SUFFICES ASSUME RInv, RInv', [Next]_vars PROVE [Promise!Next]_Promise!vars
    OBVIOUS
  <2>0. TypeOK /\ TypeOK' /\ SwapInv /\ SwapInv' /\ OriginalInv /\ SavedInv
    BY DEF RInv
  <2>t. Visible' \in File
    <3>1. Visible' \in {Torn} \union Image
      BY <2>0, SpecialFiles DEF TypeOK, File, Image, Visible, Opened, Logged
    <3> QED
      BY <3>1 DEF File
  <2> DEFINE same == UNCHANGED <<Visible, SavedOf, PhaseOf, wanted, OutcomeOf, disturbed>>
  <2>s. same => [Promise!Next]_Promise!vars
    BY DEF Promise!vars, SavedOf
  <2> HIDE DEF same
  <2> USE <2>0 DEF Step, Return, files, observed
  <2>1. CASE AppClose
    <3>1. Visible' = Visible
      BY <2>1, VisiblePrime DEF AppClose, SwapInv
    <3> QED
      BY <2>1, <2>s, <3>1, PhaseAt, OutcomeAt, SavedAt DEF AppClose, same
  <2>2. ASSUME NEW r \in Row, AppCommit(r) PROVE Promise!Commit(r)
    <3>1. Visible # Torn /\ Visible' = Visible \union {r}
      BY <2>2, SpecialFiles DEF AppCommit, Visible, Opened, Logged, TypeOK, File, Image
    <3> QED
      BY <2>2, <3>1, PhaseAt, OutcomeAt, SavedAt DEF AppCommit, Promise!Commit, SavedOf
  <2>3. CASE Checks
    <3>1. PICK s \in File, confirm \in BOOLEAN, known \in BOOLEAN :
              Refuse(s, confirm, known) \/ Call(s, confirm, known)
      BY <2>3 DEF Checks
    <3>2. Visible' = Visible
      BY <3>1, VisiblePrime DEF Refuse, Call
    <3>3. CASE Refuse(s, confirm, known)
      <4>1. Promise!Refuse
        BY <3>2, <3>3, PhaseAt, OutcomeAt, SavedAt DEF Refuse, Promise!Refuse, SavedOf
      <4> QED
        BY <4>1 DEF Promise!Next
    <3>4. CASE Call(s, confirm, known)
      <4>1. s \in Promise!Image /\ Promise!Begin(s)
        BY <3>2, <3>4, PhaseAt, OutcomeAt, SavedAt
        DEF Call, Promise!Begin, Promise!Image, SavedOf, Admissible, Readable, File, Image
      <4> QED
        BY <4>1 DEF Promise!Next
    <3> QED
      BY <3>1, <3>3, <3>4
  <2>4. CASE Checkpoint
    <3>1. Visible' = Visible
      BY <2>4, VisiblePrime DEF Checkpoint
    <3> QED
      BY <2>4, <2>s, <3>1, PhaseAt, OutcomeAt, SavedAt DEF Checkpoint, same
  <2>5. CASE Release
    <3>1. Visible' = Visible
      BY <2>5, VisiblePrime DEF Release, SwapInv
    <3> QED
      BY <2>5, <2>s, <3>1, PhaseAt, OutcomeAt, SavedAt DEF Release, same
  <2>6. CASE CopyAside
    <3>1. Visible' = Visible
      BY <2>6, VisiblePrime DEF CopyAside
    <3>2. CASE main # NoFile
      <4>1. Promise!Saving
        BY <2>6, <3>1, <3>2, PhaseAt, OutcomeAt, SavedAt DEF CopyAside, Promise!Saving, SavedOf
      <4> QED
        BY <4>1 DEF Promise!Next
    <3>3. CASE main = NoFile
      <4>1. Visible = {}
        BY <3>3, SpecialFiles DEF SwapInv, Readable, Visible, Opened, Logged
      <4>2. Promise!Save
        BY <2>6, <3>1, <3>3, <4>1, PhaseAt, OutcomeAt, SavedAt DEF CopyAside, Promise!Save, SavedOf
      <4> QED
        BY <4>2 DEF Promise!Next
    <3> QED
      BY <3>2, <3>3
  <2>7. CASE CopiedAside
    <3>1. Visible' = Visible
      BY <2>7, VisiblePrime DEF CopiedAside
    <3>2. hadOriginal /\ main # NoFile
      BY <2>7 DEF CopiedAside, OriginalInv
    <3>3. ~missed => main = Visible
      BY <2>7, <3>2 DEF CopiedAside, OriginalInv, Opened
    <3>7. wal = NoFile => main = Visible
      BY <3>2 DEF Visible, Opened, Logged, TypeOK, File, Image
    <3>4. missed /\ wal # NoFile
            => "checkpoint" \in Faults /\ main \in SUBSET Row /\ main \subseteq Visible
      BY <2>7, <3>2, SpecialFiles
      DEF CopiedAside, SwapInv, OriginalInv, SavedInv, Readable, Visible, Opened, Logged, TypeOK, File, Image
    <3>5. SavedOf' = main
      BY <2>7, <3>2, SavedAt DEF CopiedAside
    <3>6. Promise!Save
      BY <2>7, <3>1, <3>3, <3>4, <3>5, <3>7, PhaseAt, OutcomeAt DEF CopiedAside, Promise!Save, Promise!Image, SavedOf
    <3> QED
      BY <3>6 DEF Promise!Next
  <2>8. CASE DropSidecars \/ UnlinkTarget \/ TouchTarget \/ CopiedIn
    <3>1. Promise!Expose
      BY <2>8, <2>t, PhaseAt, OutcomeAt, SavedAt
      DEF DropSidecars, UnlinkTarget, TouchTarget, CopiedIn, Promise!Expose, SavedOf, Swapping
    <3> QED
      BY <3>1 DEF Promise!Next
  <2>9. CASE CopyIn
    <3>1. CASE source # NoFile
      <4>1. Promise!Expose
        BY <2>9, <3>1, <2>t, PhaseAt, OutcomeAt, SavedAt DEF CopyIn, Promise!Expose, SavedOf, Swapping
      <4> QED
        BY <4>1 DEF Promise!Next
    <3>2. CASE source = NoFile
      <4>1. Visible' = Visible
        BY <2>9, <3>2, VisiblePrime DEF CopyIn
      <4>2. Promise!Interrupt
        BY <2>9, <3>2, <4>1, PhaseAt, OutcomeAt, SavedAt DEF CopyIn, Promise!Interrupt, SavedOf
      <4> QED
        BY <4>2 DEF Promise!Next
    <3> QED
      BY <3>1, <3>2
  <2>10. CASE VerifyOk
    <3>1. Visible' = wanted \/ (disturbed /\ Visible' = Visible)
      BY <2>10 DEF VerifyOk, SwapInv, Exposed, Swapping, Visible, Opened, Logged
    <3>2. Promise!Restored
      BY <2>10, <3>1, PhaseAt, OutcomeAt, SavedAt DEF VerifyOk, Promise!Restored, SavedOf, Swapping
    <3> QED
      BY <3>2 DEF Promise!Next
  <2>11. CASE Finish
    <3>1. Visible' = Visible
      BY <2>11, VisiblePrime DEF Finish, SwapInv
    <3> QED
      BY <2>11, <2>s, <3>1, PhaseAt, OutcomeAt, SavedAt DEF Finish, same
  <2>12. CASE DropAside
    <3>1. Visible' = Visible
      BY <2>12, VisiblePrime DEF DropAside
    <3>2. Promise!Return
      BY <2>12, <3>1, PhaseAt, OutcomeAt, SavedAt DEF DropAside, Promise!Return, SavedOf
    <3> QED
      BY <3>2 DEF Promise!Next
  <2>13. CASE VerifyBad \/ RollbackRelease \/ PutBack
    <3>1. Promise!Expose
      BY <2>13, <2>t, PhaseAt, OutcomeAt, SavedAt
      DEF VerifyBad, RollbackRelease, PutBack, Promise!Expose, SavedOf, Swapping
    <3> QED
      BY <3>1 DEF Promise!Next
  <2>14. CASE PuttingBack
    <3>1. hadOriginal /\ aside # NoFile /\ wal' = NoFile
      BY <2>14 DEF PuttingBack, OriginalInv, SavedInv, SwapInv, Exposed, Swapping
    <3>2. Visible' = aside
      BY <2>14, <3>1, VisiblePrime DEF PuttingBack
    <3>3. Promise!PutBack
      BY <2>14, <3>1, <3>2, PhaseAt, OutcomeAt, SavedAt DEF PuttingBack, Promise!PutBack, SavedOf, Swapping
    <3> QED
      BY <3>3 DEF Promise!Next
  <2>15. CASE Forget
    <3>1. Visible' = Visible
      BY <2>15, VisiblePrime DEF Forget
    <3>2. Promise!Return
      BY <2>15, <3>1, PhaseAt, OutcomeAt, SavedAt DEF Forget, Promise!Return, SavedOf
    <3> QED
      BY <3>2 DEF Promise!Next
  <2>16. CASE RemoveTarget
    <3>1. Visible' = {}
      BY <2>16, SpecialFiles DEF RemoveTarget, SwapInv, Exposed, Swapping, Visible, Opened, Logged
    <3>2. Promise!PutBackNothing
      BY <2>16, <3>1, PhaseAt, OutcomeAt, SavedAt DEF RemoveTarget, Promise!PutBackNothing, SavedOf, Swapping
    <3> QED
      BY <3>2 DEF Promise!Next
  <2>17. CASE CopyFails \/ Crash \/ VerifyBusy
    <3>1. Visible' = Visible
      BY <2>17, VisiblePrime DEF CopyFails, Crash, VerifyBusy
    <3>2. Promise!Interrupt
      BY <2>17, <3>1, PhaseAt, OutcomeAt, SavedAt
      DEF CopyFails, Crash, VerifyBusy, Promise!Interrupt, SavedOf
    <3> QED
      BY <3>2 DEF Promise!Next
  <2>21. CASE Intrude
    <3>1. PhaseOf \in {"exposed", "restored", "putBack"}
      BY <2>21, PhaseAt DEF Intrude, Exposed
    <3>2. Promise!Intrude
      BY <2>21, <2>t, <3>1, PhaseAt, OutcomeAt, SavedAt DEF Intrude, Promise!Intrude, SavedOf
    <3> QED
      BY <3>2 DEF Promise!Next
  <2>22. CASE Join
    <3>1. Promise!Intrude
      BY <2>22, <2>t, PhaseAt, OutcomeAt, SavedAt DEF Join, Promise!Intrude, SavedOf
    <3> QED
      BY <3>1 DEF Promise!Next
  <2>18. CASE SourcePruned
    <3>1. Visible' = Visible
      BY <2>18, VisiblePrime DEF SourcePruned
    <3> QED
      BY <2>18, <2>s, <3>1, PhaseAt, OutcomeAt, SavedAt DEF SourcePruned, same
  <2>19. CASE UNCHANGED vars
    <3>1. Visible' = Visible
      BY <2>19, VisiblePrime DEF vars
    <3> QED
      BY <2>19, <2>s, <3>1, PhaseAt, OutcomeAt, SavedAt DEF vars, same
  <2>20. (\E r \in Row : AppCommit(r)) => Promise!Next
    BY <2>2 DEF Promise!Next
  <2> QED
    BY <2>1, <2>20, <2>3, <2>4, <2>5, <2>6, <2>7, <2>8, <2>9, <2>10, <2>11, <2>12, <2>13,
       <2>14, <2>15, <2>16, <2>17, <2>18, <2>19, <2>21, <2>22
    DEF Next, Application, Swap, Rollback, Environment
<1>3. RInv => TypeOK
  BY DEF RInv
<1> QED
  BY <1>1, <1>2, <1>3, SavedInductive, PTL DEF Spec, KeepsPromise, Promise!Spec
=============================================================================
