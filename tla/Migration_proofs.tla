-------------------------- MODULE Migration_proofs --------------------------
(***************************************************************************)
(* Proofs about Migration, for any runners: that no file ever holds a      *)
(* schema other than the one its version row names, that the backup of a   *)
(* migration is there when it fails, and what the two ways of returning    *)
(* leave at the path, with the exceptions that the properties name.        *)
(***************************************************************************)
EXTENDS Migration, FiniteSetTheorems, SequenceTheorems, TLAPS

-----------------------------------------------------------------------------
(* Files and backups *)

\* The file system is not empty.
LEMMA InodeExists == Inode # {}
<1>1. Cardinality(Runner) \in Nat /\ Cardinality(Inode) >= Cardinality(Runner) + 2
  BY Processes, FS_CardinalityType
<1>2. Cardinality({}) = 0
  BY FS_EmptySet
<1> QED
  BY <1>1, <1>2

\* A runner reads a file there is.
LEMMA ReadsInode ==
    ASSUME TypeOK, NEW w \in Runner
    PROVE  Reads(w) \in Inode
BY DEF TypeOK, Reads

\* What the file that a runner reads, and the one at the path, are made of.
LEMMA FileType ==
    ASSUME TypeOK
    PROVE  /\ \A i \in Inode : file[i] \in Content /\ file[i].rev \in Revision
           /\ path \in Inode
           /\ \A w \in Runner : Reads(w) \in Inode
           /\ \A k \in DOMAIN backups : backups[k] \in Backup /\ backups[k].content \in Content
<1>1. \A i \in Inode : file[i] \in Content /\ file[i].rev \in Revision
  BY DEF TypeOK, Content
<1>2. \A k \in DOMAIN backups : backups[k] \in Backup
  BY LenProperties DEF TypeOK
<1>3. \A k \in DOMAIN backups : backups[k].content \in Content
  BY <1>2 DEF Backup
<1> QED
  BY <1>1, <1>2, <1>3, ReadsInode DEF TypeOK

\* Rotation leaves some of the backups.
LEMMA RotatedKeeps ==
    ASSUME NEW S, NEW seq \in Seq(S), NEW e \in S
    PROVE  LET new == Append(seq, e) IN
           /\ Rotated(new) \in Seq(S)
           /\ \A k \in DOMAIN Rotated(new) : Rotated(new)[k] = e
                 \/ \E j \in DOMAIN seq : Rotated(new)[k] = seq[j]
<1> DEFINE new == Append(seq, e)
           m == Len(new) - Keep + 1
<1>1. /\ new \in Seq(S) /\ Len(new) = Len(seq) + 1 /\ new[Len(new)] = e
      /\ \A j \in 1..Len(seq) : new[j] = seq[j]
  BY AppendProperties
<1>2. Keep \in Nat /\ Len(seq) \in Nat
  BY Bounds, LenProperties
<1>3. \A k \in 1..Len(new) : new[k] = e \/ \E j \in DOMAIN seq : new[k] = seq[j]
  BY <1>1, <1>2, LenProperties
<1>4. CASE Len(new) <= Keep
  <2>1. Rotated(new) = new
    BY <1>4 DEF Rotated
  <2> QED
    BY <1>1, <1>2, <1>3, <2>1, LenProperties
<1>5. CASE Len(new) > Keep
  <2>1. Rotated(new) = SubSeq(new, m, Len(new))
    BY <1>1, <1>2, <1>5 DEF Rotated
  <2>2. m \in 1..(Len(new) + 1) /\ Len(new) \in Nat
    BY <1>1, <1>2, <1>5
  <2>3. /\ Rotated(new) \in Seq(S)
        /\ Len(Rotated(new)) = Keep
        /\ \A k \in 1..Keep : Rotated(new)[k] = new[m + k - 1]
    <3>1. m \in Int /\ Len(new) \in Int /\ Len(new) - m + 1 = Keep /\ (m <= Len(new) \/ Keep = 0)
      BY <1>2, <2>2
    <3>2. \A i \in m..Len(new) : new[i] \in S
      BY <1>1, <2>2, LenProperties
    <3> HIDE DEF new, m
    <3>3. /\ SubSeq(new, m, Len(new)) \in Seq(S)
          /\ Len(SubSeq(new, m, Len(new))) = IF m <= Len(new) THEN Len(new) - m + 1 ELSE 0
          /\ \A k \in 1 .. Len(new) - m + 1 : SubSeq(new, m, Len(new))[k] = new[m + k - 1]
      BY <3>1, <3>2, SubSeqProperties
    <3> QED
      BY <1>2, <2>1, <3>1, <3>3
  <2>4. \A k \in 1..Keep : m + k - 1 \in 1..Len(new)
    BY <1>1, <1>2, <1>5
  <2>5. DOMAIN Rotated(new) = 1..Keep
    BY <2>3, LenProperties
  <2> HIDE DEF new, m
  <2>8. \A k \in 1..Keep : Rotated(new)[k] = e \/ \E j \in DOMAIN seq : Rotated(new)[k] = seq[j]
    <3> TAKE k \in 1..Keep
    <3>1. new[m + k - 1] = e \/ \E j \in DOMAIN seq : new[m + k - 1] = seq[j]
      BY <1>3, <2>4
    <3> QED
      BY <2>3, <3>1
  <2> USE DEF new
  <2> QED
    BY <2>3, <2>5, <2>8
<1> QED
  BY <1>1, <1>2, <1>4, <1>5

-----------------------------------------------------------------------------
(* Any number of runners *)

\* A plan has revisions left, all of them revisions of this build.
PlanInv == \A w \in Runner : pc[w] = "revise" =>
    /\ heads[w] \in Revision
    /\ IF call[w].direction = "upgrade" THEN heads[w] < call[w].target
       ELSE heads[w] > call[w].target

IInv == TypeOK /\ PlanInv /\ SchemaMatchesRevision

\* What one revision does to a file.
LEMMA ReviseEffect ==
    ASSUME IInv, NEW w \in Runner, Revise(w)
    PROVE  LET i == Reads(w)
               next == NextRevision(w)
           IN
           /\ i \in Inode
           /\ next \in Revision
           /\ file' = [file EXCEPT ![i] = Revised(w, file[i])]
           /\ Revised(w, file[i]) \in Content
           /\ Revised(w, file[i]).rev = next
           /\ Revised(w, file[i]).applied = 1..next
           /\ Revised(w, file[i]).rows = file[i].rows
<1> DEFINE i == Reads(w)
           next == NextRevision(w)
<1>1. i \in Inode /\ file[i] \in Content
  BY ReadsInode DEF IInv, TypeOK
<1>2. Newest \in Nat /\ heads[w] \in Revision /\ call[w].target \in 0..Newest
  BY Revisions DEF Revise, Goto, IInv, PlanInv, TypeOK, Calls
<1>3. /\ call[w].direction = "upgrade" => next = heads[w] + 1 /\ heads[w] < call[w].target
      /\ call[w].direction # "upgrade" => next = heads[w] - 1 /\ heads[w] > call[w].target
  BY DEF Revise, Goto, IInv, PlanInv, NextRevision
<1>4. next \in Revision
  BY <1>2, <1>3 DEF Revision
<1>5. file[i].applied = 1..heads[w]
  BY <1>1 DEF Revise, IInv, SchemaMatchesRevision
<1>6. Scripted(w, file[i].applied) = 1..next
  <2>1. heads[w] \in Nat /\ next \in Nat
    BY <1>2, <1>4 DEF Revision
  <2>2. CASE call[w].direction = "upgrade"
    <3>1. next = heads[w] + 1 /\ Scripted(w, file[i].applied) = (1..heads[w]) \union {next}
      BY <1>3, <1>5, <2>2 DEF Scripted
    <3> HIDE DEF next
    <3> QED
      BY <2>1, <3>1
  <2>3. CASE call[w].direction # "upgrade"
    <3>1. heads[w] = next + 1 /\ Scripted(w, file[i].applied) = (1..heads[w]) \ {heads[w]}
      BY <1>2, <1>3, <1>5, <2>1, <2>3 DEF Scripted
    <3> HIDE DEF next
    <3> QED
      BY <2>1, <3>1
  <2> QED
    BY <2>2, <2>3
<1>7. file' = [file EXCEPT ![i] = Revised(w, file[i])]
  BY DEF Revise
<1>8. Revised(w, file[i]) = [rev |-> next, applied |-> 1..next, rows |-> file[i].rows]
  BY <1>6 DEF Revised
<1>9. 1..next \in SUBSET Revision /\ file[i].rows \in SUBSET Row
  BY <1>1, <1>2, <1>4 DEF Revision, Content
<1> QED
  BY <1>1, <1>4, <1>7, <1>8, <1>9 DEF Content

\* What a migration's backup adds to the files, and rotation leaves of them.
LEMMA BackupEffect ==
    ASSUME TypeOK, NEW w \in Runner, TakeBackup(w)
    PROVE  LET new == [stamp |-> clock', name |-> from[w], content |-> file[path]] IN
           /\ new \in Backup
           /\ backups' \in Seq(Backup)
           /\ \A k \in DOMAIN backups' : backups'[k] = new
                 \/ \E j \in DOMAIN backups : backups'[k] = backups[j]
<1> DEFINE new == [stamp |-> clock', name |-> from[w], content |-> file[path]]
<1>1. new \in Backup
  BY DEF TypeOK, TakeBackup, Backup
<1>2. backups \in Seq(Backup) /\ backups' = Rotated(Append(backups, new))
  BY DEF TypeOK, TakeBackup
<1> HIDE DEF new
<1>3. /\ backups' \in Seq(Backup)
      /\ \A k \in DOMAIN backups' : backups'[k] = new
            \/ \E j \in DOMAIN backups : backups'[k] = backups[j]
  BY <1>1, <1>2, RotatedKeeps
<1> QED
  BY <1>1, <1>3 DEF new

\* What a commit of an application does to a file.
LEMMA RowsEffect ==
    ASSUME TypeOK, NEW r \in Row, AppCommit(r)
    PROVE  /\ file' = [file EXCEPT ![path] = [rev |-> file[path].rev, applied |-> file[path].applied,
                                              rows |-> file[path].rows \union {r}]]
           /\ file' \in [Inode -> Content]
<1>1. path \in Inode /\ file[path] \in Content
  BY DEF TypeOK
<1>2. [rev |-> file[path].rev, applied |-> file[path].applied, rows |-> file[path].rows \union {r}]
        \in Content
  BY <1>1 DEF Content
<1> QED
  BY <1>2 DEF AppCommit, TypeOK

LEMMA TypeStep ==
    ASSUME IInv, [Next]_vars
    PROVE  TypeOK'
<1> USE DEF TypeOK, PC, Exposed, Goto, Return, Overtakes, locals, observed
<1>1. ASSUME NEW w \in Runner, NEW c \in Arguments, Call(w, c) PROVE TypeOK'
  <2>1. c \in Calls /\ Reads(w) \in Inode /\ file[Reads(w)].rev \in Revision /\ file[path] \in Content
    BY FileType DEF IInv, Arguments
  <2> QED
    BY <1>1, <2>1 DEF IInv, Call, Results
<1>2. ASSUME NEW w \in Runner, CallBusy(w) PROVE TypeOK'
  <2>1. Reads(w) \in Inode
    BY FileType DEF IInv
  <2> QED
    BY <1>2, <2>1 DEF IInv, CallBusy, Results
<1>3. ASSUME NEW w \in Runner, TakeBackup(w) PROVE TypeOK'
  <2>1. backups' \in Seq(Backup)
    BY <1>3, BackupEffect DEF IInv
  <2>2. clock' \in Nat /\ saved' \in [Runner -> Nat]
    BY <1>3 DEF IInv, TakeBackup
  <2>3. pc' \in [Runner -> PC] /\ result' \in [Runner -> Results]
    BY <1>3 DEF IInv, TakeBackup, Results
  <2>4. UNCHANGED <<file, path, conn, locked, call, from, heads, before, raced, reached, committed>>
    BY <1>3 DEF TakeBackup
  <2> QED
    BY <2>1, <2>2, <2>3, <2>4 DEF IInv
<1>4. ASSUME NEW w \in Runner, Begin(w) PROVE TypeOK'
  <2>1. Reads(w) \in Inode /\ file[Reads(w)].rev \in Int
    BY ReadsInode, Revisions DEF IInv, Content, Revision
  <2>2. /\ conn' \in [Runner -> SUBSET Inode] /\ heads' \in [Runner -> Int]
    BY <1>4, <2>1 DEF IInv, Begin
  <2>3. pc' \in [Runner -> PC]
    BY <1>4 DEF IInv, Begin
  <2>4. locked' \in [Runner -> BOOLEAN]
    BY <1>4 DEF IInv, Begin
  <2> QED
    BY <1>4, <2>2, <2>3, <2>4 DEF IInv, Begin
<1>5. ASSUME NEW w \in Runner, Revise(w) PROVE TypeOK'
  <2>1. file' \in [Inode -> Content]
    BY <1>5, ReviseEffect DEF IInv
  <2>2. NextRevision(w) \in Int
    BY <1>5, ReviseEffect, Revisions DEF Revision
  <2> QED
    BY <1>5, <2>1, <2>2 DEF IInv, Revise
<1>6. ASSUME NEW w \in Runner, NextBegin(w) \/ Raise(w) \/ Busy(w) PROVE TypeOK'
  BY <1>6 DEF IInv, NextBegin, Raise, Busy
<1>7. ASSUME NEW w \in Runner, Restore(w) PROVE TypeOK'
  <2>1. \A k \in DOMAIN backups : backups[k].content \in Content
    BY FileType DEF IInv
  <2> QED
    BY <1>7, <2>1 DEF IInv, Restore, Results
<1>8. ASSUME NEW w \in Runner, BackupFails(w) \/ RestoreRefused(w) \/ NotRestored(w)
      PROVE  TypeOK'
  BY <1>8 DEF IInv, BackupFails, RestoreRefused, NotRestored, Results
<1>13. ASSUME NEW w \in Runner, Reached(w) PROVE TypeOK'
  <2>1. Reads(w) \in Inode
    BY FileType DEF IInv
  <2> QED
    BY <1>13, <2>1 DEF IInv, Reached, Results
<1>9. ASSUME NEW w \in Runner, Outcome(w) PROVE TypeOK'
  <2>1. file[Reads(w)].rev \in Revision
    BY FileType DEF IInv
  <2> QED
    BY <1>9, <2>1 DEF IInv, Outcome, Results
<1>10. ASSUME NEW w \in Runner, Crash(w) PROVE TypeOK'
  BY <1>10 DEF IInv, Crash, Results
<1>11. ASSUME NEW r \in Row, AppCommit(r) PROVE TypeOK'
  <2>1. file' \in [Inode -> Content]
    BY <1>11, RowsEffect DEF IInv
  <2> QED
    BY <1>11, <2>1 DEF IInv, AppCommit
<1>12. CASE UNCHANGED vars
  BY <1>12 DEF IInv, vars
<1> QED
  BY <1>1, <1>2, <1>3, <1>4, <1>5, <1>6, <1>7, <1>8, <1>9, <1>10, <1>11, <1>12, <1>13 DEF Next, Run

LEMMA PlanStep ==
    ASSUME IInv, TypeOK', [Next]_vars
    PROVE  PlanInv'
<1> USE DEF IInv, TypeOK, PlanInv, Goto, Return, locals, observed
<1>1. ASSUME NEW w \in Runner, Begin(w) PROVE PlanInv'
  <2>1. file[Reads(w)].rev \in Revision /\ call[w].direction \in {"upgrade", "downgrade"}
        /\ call[w].target \in 0..Newest
    BY ReadsInode DEF Content, Calls
  <2> QED
    BY <1>1, <2>1, Revisions DEF Begin, Revision
<1>2. ASSUME NEW w \in Runner, Revise(w) PROVE PlanInv'
  <2>1. NextRevision(w) \in Revision
    BY <1>2, ReviseEffect
  <2> QED
    BY <1>2, <2>1, Revisions DEF Revise, NextRevision, Revision, Calls
<1>3. ASSUME NEW w \in Runner, NEW c \in Arguments, Call(w, c) PROVE PlanInv'
  BY <1>3 DEF Call
<1>4. ASSUME NEW w \in Runner,
             \/ CallBusy(w) \/ TakeBackup(w) \/ BackupFails(w)
             \/ NextBegin(w) \/ Raise(w) \/ Busy(w)
      PROVE  PlanInv'
  BY <1>4 DEF CallBusy, TakeBackup, BackupFails, NextBegin, Raise, Busy
<1>5. ASSUME NEW w \in Runner,
             Restore(w) \/ RestoreRefused(w) \/ Reached(w) \/ NotRestored(w) \/ Outcome(w)
      PROVE  PlanInv'
  BY <1>5 DEF Restore, RestoreRefused, Reached, NotRestored, Outcome
<1>6. ASSUME NEW w \in Runner, Crash(w) PROVE PlanInv'
  BY <1>6 DEF Crash
<1>7. ASSUME NEW r \in Row, AppCommit(r) PROVE PlanInv'
  BY <1>7 DEF AppCommit
<1>8. CASE UNCHANGED vars
  BY <1>8 DEF vars
<1> QED
  BY <1>1, <1>2, <1>3, <1>4, <1>5, <1>6, <1>7, <1>8 DEF Next, Run

LEMMA SchemaStep ==
    ASSUME IInv, TypeOK', [Next]_vars
    PROVE  SchemaMatchesRevision'
<1> USE DEF IInv, TypeOK, SchemaMatchesRevision, locals, observed
<1>1. ASSUME NEW w \in Runner, TakeBackup(w) PROVE SchemaMatchesRevision'
  <2> DEFINE new == [stamp |-> clock', name |-> from[w], content |-> file[path]]
  <2>1. \A k \in DOMAIN backups' : backups'[k] = new \/ \E j \in DOMAIN backups : backups'[k] = backups[j]
    BY <1>1, BackupEffect
  <2>2. new.content = file[path] /\ path \in Inode
    OBVIOUS
  <2>3. UNCHANGED file
    BY <1>1 DEF TakeBackup
  <2> HIDE DEF new
  <2> QED
    BY <2>1, <2>2, <2>3
<1>2. ASSUME NEW w \in Runner, Revise(w) PROVE SchemaMatchesRevision'
  <2>1. UNCHANGED backups
    BY <1>2 DEF Revise
  <2> QED
    BY <1>2, <2>1, ReviseEffect
<1>3. ASSUME NEW w \in Runner, Restore(w) PROVE SchemaMatchesRevision'
  BY <1>3 DEF Restore
<1>4. ASSUME NEW r \in Row, AppCommit(r) PROVE SchemaMatchesRevision'
  <2>1. UNCHANGED backups
    BY <1>4 DEF AppCommit
  <2>2. path \in Inode /\ file'[path].applied = file[path].applied /\ file'[path].rev = file[path].rev
        /\ \A i \in Inode \ {path} : file'[i] = file[i]
    BY <1>4, RowsEffect
  <2> QED
    BY <2>1, <2>2
<1>5. CASE UNCHANGED <<file, backups>>
  BY <1>5
<1> QED
  BY <1>1, <1>2, <1>3, <1>4, <1>5 DEF Next, Run, Call, CallBusy, BackupFails, Begin, NextBegin,
     Raise, Busy, RestoreRefused, Reached, NotRestored, Outcome, Crash, vars

\* Types, plans and schemas hold together.
LEMMA Inductive == Spec => []IInv
<1>1. Init => IInv
  <2> SUFFICES ASSUME Init PROVE IInv
    OBVIOUS
  <2>1. PICK r \in First : /\ file = [i \in Inode |-> Fresh(r)]
                           /\ before = [w \in Runner |-> Fresh(r)]
                           /\ reached = r
    BY DEF Init
  <2>2. r \in Revision /\ Newest \in Nat
    BY Revisions DEF Revision
  <2>3. Fresh(r) \in Content /\ Fresh(r).applied = 1..Fresh(r).rev
    BY <2>2 DEF Fresh, Content, Revision
  <2>4. path \in Inode
    BY InodeExists DEF Init
  <2>5. [direction |-> "upgrade", target |-> Newest, backup |-> TRUE] \in Calls
    BY <2>2 DEF Calls
  <2>6. 0 \in Revision
    BY <2>2 DEF Revision
  <2>7. TypeOK
    BY <2>1, <2>2, <2>3, <2>4, <2>5, <2>6 DEF Init, TypeOK, PC, Results
  <2> QED
    BY <2>1, <2>3, <2>7 DEF Init, IInv, PlanInv, SchemaMatchesRevision
<1>2. IInv /\ [Next]_vars => IInv'
  BY TypeStep, PlanStep, SchemaStep DEF IInv
<1> QED
  BY <1>1, <1>2, PTL DEF Spec

\* The state of runners and files is of its types, whatever runs concurrently.
THEOREM TypeCorrect == Spec => []TypeOK
<1>1. IInv => TypeOK
  BY DEF IInv
<1> QED
  BY <1>1, Inductive, PTL

\* Every file and every backup holds the schema that its version row names.
THEOREM SchemaStaysWhole == Spec => []SchemaMatchesRevision
<1>1. IInv => SchemaMatchesRevision
  BY DEF IInv
<1> QED
  BY <1>1, Inductive, PTL

-----------------------------------------------------------------------------
(* The time stamps of the backups *)

\* The backups are the newest of those taken until time c, Keep of them or all.
Stamped(seq, c) ==
    /\ Len(seq) <= Keep /\ Len(seq) <= c
    /\ Len(seq) = Keep \/ Len(seq) = c
    /\ \A k \in 1..Len(seq) : seq[k].stamp = c - Len(seq) + k

LEMMA RotatedStamps ==
    ASSUME NEW seq \in Seq(Backup), NEW c \in Nat, NEW e \in Backup,
           Stamped(seq, c), e.stamp = c + 1
    PROVE  Stamped(Rotated(Append(seq, e)), c + 1)
<1> DEFINE new == Append(seq, e)
           n == Len(seq)
<1>1. /\ new \in Seq(Backup) /\ Len(new) = n + 1 /\ new[n + 1] = e
      /\ \A j \in 1..n : new[j] = seq[j]
  BY AppendProperties
<1>2. /\ Keep \in Nat /\ n \in Nat /\ n <= Keep /\ n <= c /\ (n = Keep \/ n = c)
      /\ \A k \in 1..n : seq[k].stamp = c - n + k
  BY Bounds, LenProperties DEF Stamped
<1>3. \A j \in 1..(n + 1) : new[j] \in Backup
  BY <1>1, LenProperties
<1> HIDE DEF new, n
<1>4. \A j \in 1..(n + 1) : new[j].stamp = c - n + j
  <2> TAKE j \in 1..(n + 1)
  <2>1. CASE j = n + 1
    BY <1>1, <1>2, <2>1
  <2>2. CASE j \in 1..n
    BY <1>1, <1>2, <2>2
  <2> QED
    BY <1>2, <2>1, <2>2
<1>5. CASE n < Keep
  <2>1. Rotated(new) = new /\ n = c
    BY <1>1, <1>2, <1>5 DEF Rotated
  <2> QED
    BY <1>1, <1>2, <1>4, <1>5, <2>1 DEF Stamped, new
<1>6. CASE n = Keep
  <2>1. Rotated(new) = SubSeq(new, 2, n + 1)
    BY <1>1, <1>2, <1>6 DEF Rotated
  <2>2. /\ Len(SubSeq(new, 2, n + 1)) = IF 2 <= n + 1 THEN (n + 1) - 2 + 1 ELSE 0
        /\ \A k \in 1 .. (n + 1) - 2 + 1 : SubSeq(new, 2, n + 1)[k] = new[2 + k - 1]
    <3>1. 2 \in Int /\ n + 1 \in Int /\ \A i \in 2..(n + 1) : new[i] \in Backup
      BY <1>2, <1>3
    <3> QED
      BY <3>1, SubSeqProperties
  <2>3. Len(Rotated(new)) = n
    BY <1>2, <2>1, <2>2
  <2>4. ASSUME NEW k \in 1..n PROVE Rotated(new)[k].stamp = (c + 1) - n + k
    <3>1. k \in 1 .. (n + 1) - 2 + 1 /\ 2 + k - 1 = k + 1 /\ k + 1 \in 1..(n + 1)
      BY <1>2
    <3>2. Rotated(new)[k] = new[k + 1]
      BY <2>1, <2>2, <3>1
    <3>3. new[k + 1].stamp = c - n + (k + 1)
      BY <1>4, <3>1
    <3> QED
      BY <1>2, <3>2, <3>3
  <2>5. n <= c + 1
    BY <1>2
  <2> QED
    BY <1>6, <2>3, <2>4, <2>5 DEF Stamped, new
<1> QED
  BY <1>2, <1>5, <1>6

\* Which backup is there is a matter of how many were taken after it.
LEMMA StampedKeeps ==
    ASSUME NEW seq \in Seq(Backup), NEW c \in Nat, Stamped(seq, c),
           NEW t \in 1..c, c < t + Keep
    PROVE  \E k \in DOMAIN seq : seq[k].stamp = t
<1>1. /\ Keep \in Nat /\ Len(seq) \in Nat /\ (Len(seq) = Keep \/ Len(seq) = c) /\ DOMAIN seq = 1..Len(seq)
      /\ \A k \in 1..Len(seq) : seq[k].stamp = c - Len(seq) + k
  BY Bounds, LenProperties DEF Stamped
<1>2. t \in Nat /\ t >= 1 /\ t <= c
  OBVIOUS
<1> DEFINE n == Len(seq)
           k == t - c + n
<1>3. n \in Nat /\ Keep \in Nat /\ (n = Keep \/ n = c)
  BY <1>1
<1> HIDE DEF n
<1>4. k \in 1..n /\ c - n + k = t
  BY <1>2, <1>3
<1> HIDE DEF k
<1> QED
  BY <1>1, <1>4 DEF n


-----------------------------------------------------------------------------
(* What a call may rely on, whatever the other runners do *)

\* The database at the path is the one the call of runner w was made on.
Same(w) ==
    /\ file[path].rev = before[w].rev
    /\ before[w].rows \subseteq file[path].rows

\* What a call of runner w will be put back to: the database it was made on.
Dependable(w, b) ==
    /\ b.content.rev = before[w].rev
    /\ before[w].rows \subseteq b.content.rows
    /\ "idle" \notin raced[w] => b.name = b.content.rev

\* The database is where the outcome will find it.
AtTarget(w) ==
    \/ file[path].rev = call[w].target
    \/ call[w].direction = "upgrade" /\ file[path].rev > call[w].target

\* Nobody overtook the call where it is now, or before the backup was taken.
CallInv(w) ==
    /\ saved[w] <= clock
    /\ before[w].applied = 1..before[w].rev
    /\ pc[w] = "backup" /\ "backup" \notin raced[w] =>
         Same(w) /\ ("idle" \notin raced[w] => from[w] = before[w].rev)
    /\ pc[w] \in {"migrate", "revise", "failed"} /\ saved[w] # 0 /\ "backup" \notin raced[w] =>
         \A k \in DOMAIN backups : backups[k].stamp = saved[w] => Dependable(w, backups[k])
    /\ pc[w] = "restored" /\ raced[w] \intersect {"backup", "restored"} = {} => Same(w)
    /\ pc[w] = "outcome" /\ conn[w] = {path} /\ "outcome" \notin raced[w] => AtTarget(w)

CallsInv == Stamped(backups, clock) /\ \A w \in Runner : CallInv(w)

\* What a step leaves of a call that is not its own.
Left(w) ==
    /\ UNCHANGED <<pc[w], conn[w], call[w], from[w], saved[w], before[w]>>
    /\ \/ raced'[w] = raced[w] /\ UNCHANGED path
          /\ file'[path].rev = file[path].rev /\ file[path].rows \subseteq file'[path].rows
       \/ raced'[w] = raced[w] \union ({pc[w]} \intersect Exposed)
    /\ saved[w] <= clock'
    /\ \A k \in DOMAIN backups' : backups'[k].stamp = saved[w] =>
         \E j \in DOMAIN backups : backups'[k] = backups[j]

LEMMA LeftCall ==
    ASSUME NEW w \in Runner, CallInv(w), Left(w)
    PROVE  CallInv(w)'
<1>1. /\ pc'[w] = pc[w] /\ conn'[w] = conn[w] /\ call'[w] = call[w] /\ from'[w] = from[w]
      /\ saved'[w] = saved[w] /\ before'[w] = before[w]
  BY DEF Left
<1>2. raced[w] \subseteq raced'[w] /\ raced'[w] \subseteq raced[w] \union Exposed
  BY DEF Left
<1>3. ("idle" \in raced'[w]) <=> ("idle" \in raced[w])
  BY <1>2 DEF Exposed
<1>4. pc[w] \in Exposed /\ pc[w] \notin raced'[w] =>
        path' = path /\ file'[path].rev = file[path].rev /\ file[path].rows \subseteq file'[path].rows
  BY DEF Left
<1>5. saved'[w] <= clock' /\ before'[w].applied = 1..before'[w].rev
  BY <1>1 DEF Left, CallInv
<1>6. pc[w] = "backup" /\ "backup" \notin raced'[w] =>
        Same(w)' /\ ("idle" \notin raced'[w] => from'[w] = before'[w].rev)
  BY <1>1, <1>2, <1>3, <1>4 DEF CallInv, Same, Exposed
<1>7. ASSUME pc[w] \in {"migrate", "revise", "failed"}, saved[w] # 0, "backup" \notin raced'[w],
             NEW k \in DOMAIN backups', backups'[k].stamp = saved[w]
      PROVE  Dependable(w, backups[k])'
  <2>1. PICK j \in DOMAIN backups : backups'[k] = backups[j]
    BY <1>7 DEF Left
  <2>2. Dependable(w, backups[j])
    BY <1>2, <1>7, <2>1 DEF CallInv
  <2> QED
    BY <1>1, <1>3, <2>1, <2>2 DEF Dependable
<1>8. pc[w] = "restored" /\ raced'[w] \intersect {"backup", "restored"} = {} => Same(w)'
  BY <1>1, <1>2, <1>4 DEF CallInv, Same, Exposed
<1>9. pc[w] = "outcome" /\ conn[w] = {path'} /\ "outcome" \notin raced'[w] => AtTarget(w)'
  BY <1>1, <1>2, <1>4 DEF CallInv, AtTarget, Exposed
<1> QED
  BY <1>1, <1>5, <1>6, <1>7, <1>8, <1>9 DEF CallInv

\* Whoever steps, the others' calls keep what they rely on.
LEMMA OthersLeft ==
    ASSUME IInv, CallsInv, NEW v \in Runner, NEW w \in Runner \ {v},
           Run(v) \/ Crash(v) \/ CallBusy(v) \/ \E c \in Arguments : Call(v, c)
    PROVE  Left(w)
<1> USE DEF Goto, Return, locals, observed
<1>0. TypeOK /\ saved[w] <= clock /\ saved[w] \in Nat /\ clock \in Nat /\ path \in Inode
  BY DEF IInv, TypeOK, CallsInv, CallInv
<1>1. UNCHANGED <<pc[w], conn[w], call[w], from[w], saved[w], before[w]>>
  <2>1. TakeBackup(v) \/ BackupFails(v) \/ Begin(v) \/ Revise(v) =>
          UNCHANGED <<pc[w], conn[w], call[w], from[w], saved[w], before[w]>>
    BY <1>0 DEF TypeOK, TakeBackup, BackupFails, Begin, Revise
  <2>5. NextBegin(v) \/ Raise(v) \/ Busy(v) =>
          UNCHANGED <<pc[w], conn[w], call[w], from[w], saved[w], before[w]>>
    BY <1>0 DEF TypeOK, NextBegin, Raise, Busy
  <2>2. Restore(v) \/ RestoreRefused(v) \/ Reached(v) \/ NotRestored(v) \/ Outcome(v) =>
          UNCHANGED <<pc[w], conn[w], call[w], from[w], saved[w], before[w]>>
    BY <1>0 DEF TypeOK, Restore, RestoreRefused, Reached, NotRestored, Outcome
  <2>3. Crash(v) \/ CallBusy(v) => UNCHANGED <<pc[w], conn[w], call[w], from[w], saved[w], before[w]>>
    BY <1>0 DEF TypeOK, Crash, CallBusy
  <2>4. ASSUME NEW c \in Arguments, Call(v, c)
        PROVE  UNCHANGED <<pc[w], conn[w], call[w], from[w], saved[w], before[w]>>
    BY <1>0, <2>4 DEF TypeOK, Call
  <2> QED
    BY <2>1, <2>2, <2>3, <2>4, <2>5 DEF Run
<1>2. ASSUME TakeBackup(v) PROVE Left(w)
  <2>1. ASSUME NEW k \in DOMAIN backups', backups'[k].stamp = saved[w]
        PROVE  \E j \in DOMAIN backups : backups'[k] = backups[j]
    <3> DEFINE new == [stamp |-> clock', name |-> from[v], content |-> file[path]]
    <3>1. backups'[k] = new \/ \E j \in DOMAIN backups : backups'[k] = backups[j]
      BY <1>0, <1>2, BackupEffect
    <3>2. new.stamp = clock + 1
      BY <1>2 DEF TakeBackup
    <3> HIDE DEF new
    <3> QED
      BY <1>0, <2>1, <3>1, <3>2
  <2>2. clock' = clock + 1 /\ UNCHANGED <<file, path, raced>>
    BY <1>2 DEF TakeBackup
  <2> QED
    BY <1>0, <1>1, <2>1, <2>2 DEF Left
<1>3. ASSUME Revise(v) PROVE Left(w)
  <2>1. UNCHANGED <<path, backups, clock>>
    BY <1>3 DEF Revise
  <2>2. CASE Reads(v) = path
    <3>1. raced'[w] = raced[w] \union ({pc[w]} \intersect Exposed)
      BY <1>0, <1>3, <2>2 DEF Revise, Overtakes, TypeOK
    <3> QED
      BY <1>0, <1>1, <2>1, <3>1 DEF Left
  <2>3. CASE Reads(v) # path
    <3>1. UNCHANGED raced
      BY <1>3, <2>3 DEF Revise
    <3>2. file'[path] = file[path]
      BY <1>0, <1>3, <2>3, ReviseEffect DEF TypeOK
    <3> QED
      BY <1>0, <1>1, <2>1, <3>1, <3>2 DEF Left
  <2> QED
    BY <2>2, <2>3
<1>4. ASSUME Restore(v) PROVE Left(w)
  <2>1. raced'[w] = raced[w] \union ({pc[w]} \intersect Exposed) /\ UNCHANGED <<backups, clock>>
    BY <1>4 DEF Restore, Overtakes
  <2> QED
    BY <1>0, <1>1, <2>1 DEF Left
<1>5. ASSUME NEW c \in Arguments, Call(v, c) PROVE Left(w)
  <2>1. raced'[w] = raced[w] /\ UNCHANGED <<file, path, backups, clock>>
    BY <1>0, <1>5 DEF Call, TypeOK
  <2> QED
    BY <1>0, <1>1, <2>1 DEF Left
<1>6. ASSUME UNCHANGED <<file, path, backups, clock, raced>> PROVE Left(w)
  BY <1>0, <1>1, <1>6 DEF Left
<1> QED
  BY <1>2, <1>3, <1>4, <1>5, <1>6 DEF Run, BackupFails, Begin, NextBegin, Raise, Busy,
     RestoreRefused, Reached, NotRestored, Outcome, Crash, CallBusy

\* The call itself, from one statement to the next.
LEMMA OwnCall ==
    ASSUME IInv, CallsInv, NEW w \in Runner,
           Run(w) \/ Crash(w) \/ CallBusy(w) \/ \E c \in Arguments : Call(w, c)
    PROVE  CallInv(w)'
<1> USE DEF Goto, Return, locals, observed
<1>0. /\ TypeOK /\ SchemaMatchesRevision /\ CallInv(w) /\ saved[w] \in Nat /\ clock \in Nat
      /\ path \in Inode /\ file[path].applied = 1..file[path].rev
      /\ saved[w] <= clock /\ before[w].applied = 1..before[w].rev
  BY DEF IInv, TypeOK, CallsInv, CallInv, SchemaMatchesRevision
<1>1. ASSUME NEW c \in Arguments, Call(w, c) PROVE CallInv(w)'
  <2>1. /\ from'[w] = file[Reads(w)].rev /\ before'[w] = file[path] /\ saved'[w] = 0
        /\ raced'[w] = (IF Reads(w) = path THEN {} ELSE {"idle"})
        /\ UNCHANGED <<file, path, backups, clock>>
    BY <1>0, <1>1 DEF Call, TypeOK
  <2>2. pc'[w] \in {"idle", "backup", "migrate"}
    BY <1>0, <1>1 DEF Call, TypeOK
  <2>3. Same(w)' /\ ("idle" \notin raced'[w] => from'[w] = before'[w].rev)
    BY <2>1 DEF Same
  <2> QED
    BY <1>0, <2>1, <2>2, <2>3 DEF CallInv
<1>2. ASSUME TakeBackup(w) PROVE CallInv(w)'
  <2>1. PICK new \in Backup :
           /\ new = [stamp |-> clock', name |-> from[w], content |-> file[path]]
           /\ \A k \in DOMAIN backups' :
                backups'[k] = new \/ \E j \in DOMAIN backups : backups'[k] = backups[j]
    BY <1>0, <1>2, BackupEffect
  <2>2. /\ pc[w] = "backup" /\ pc'[w] \in {"migrate", "idle"} /\ saved'[w] = clock' /\ clock' = clock + 1
        /\ UNCHANGED <<file, path, conn, before, raced, from, call>>
    BY <1>0, <1>2 DEF TakeBackup, TypeOK
  <2>3. "backup" \notin raced[w] => Same(w) /\ ("idle" \notin raced[w] => from[w] = before[w].rev)
    BY <1>0, <2>2 DEF CallInv
  <2>4. "backup" \notin raced[w] => Dependable(w, new)'
    BY <2>1, <2>2, <2>3 DEF Dependable, Same
  <2>5. \A j \in DOMAIN backups : backups[j].stamp <= clock
    <3>1. Len(backups) \in Nat /\ DOMAIN backups = 1..Len(backups)
      BY <1>0, LenProperties DEF TypeOK
    <3>2. \A j \in 1..Len(backups) : backups[j].stamp = clock - Len(backups) + j
      BY DEF CallsInv, Stamped
    <3> QED
      BY <1>0, <3>1, <3>2
  <2>6. \A j \in DOMAIN backups : backups[j].stamp # clock'
    <3>1. \A j \in DOMAIN backups : backups[j].stamp \in Nat
      BY <1>0, FileType DEF Backup
    <3> QED
      BY <1>0, <2>2, <2>5, <3>1
  <2>7. ASSUME NEW k \in DOMAIN backups', backups'[k].stamp = clock', "backup" \notin raced[w]
        PROVE  Dependable(w, backups[k])'
    <3>1. backups'[k] = new
      BY <2>1, <2>6, <2>7
    <3> QED
      BY <2>4, <2>7, <3>1 DEF Dependable
  <2>8. saved'[w] <= clock'
    BY <1>0, <2>2
  <2> QED
    BY <1>0, <2>2, <2>7, <2>8 DEF CallInv
<1>3. ASSUME Begin(w) PROVE CallInv(w)'
  <2>1. /\ pc[w] = "migrate" /\ pc'[w] \in {"failed", "outcome", "revise"}
        /\ UNCHANGED <<file, path, backups, clock, before, raced, saved, call>>
    BY <1>0, <1>3 DEF Begin, TypeOK
  <2>2. pc'[w] = "outcome" /\ conn'[w] = {path} => AtTarget(w)
    <3>1. Reads(w) \in Inode /\ file[Reads(w)].rev \in Revision /\ call[w] \in Calls
      BY <1>0, FileType DEF TypeOK
    <3>2. conn'[w] = {Reads(w)}
      BY <1>0, <1>3 DEF Begin, TypeOK
    <3>3. pc'[w] = "outcome" =>
            LET r == file[Reads(w)].rev IN r = call[w].target \/ (call[w].direction = "upgrade" /\ call[w].target < r)
      BY <1>0, <1>3 DEF Begin, TypeOK
    <3> QED
      BY <3>1, <3>2, <3>3, Revisions DEF AtTarget, Calls, Revision
  <2>3. pc'[w] \in {"revise", "failed"} /\ saved'[w] # 0 /\ "backup" \notin raced'[w] =>
          \A k \in DOMAIN backups' : backups'[k].stamp = saved'[w] => Dependable(w, backups[k])'
    BY <1>0, <2>1 DEF CallInv, Dependable
  <2> QED
    BY <1>0, <2>1, <2>2, <2>3 DEF CallInv, AtTarget
<1>4. ASSUME Revise(w) PROVE CallInv(w)'
  <2>1. /\ pc[w] = "revise" /\ pc'[w] \in {"outcome", "revise"}
        /\ pc'[w] = "outcome" => heads'[w] = call[w].target
        /\ heads'[w] = NextRevision(w) /\ raced'[w] = raced[w]
        /\ UNCHANGED <<path, backups, clock, conn, before, saved, call>>
    BY <1>0, <1>4 DEF Revise, Overtakes, TypeOK
  <2>2. pc'[w] = "outcome" /\ conn'[w] = {path} => AtTarget(w)'
    <3> SUFFICES ASSUME pc'[w] = "outcome", conn[w] = {path} PROVE AtTarget(w)'
      BY <2>1
    <3>1. Reads(w) = path
      BY DEF Reads
    <3>2. file'[path].rev = NextRevision(w)
      BY <1>0, <1>4, <3>1, ReviseEffect DEF TypeOK
    <3> QED
      BY <2>1, <3>2 DEF AtTarget
  <2>3. pc'[w] = "revise" /\ saved'[w] # 0 /\ "backup" \notin raced'[w] =>
          \A k \in DOMAIN backups' : backups'[k].stamp = saved'[w] => Dependable(w, backups[k])'
    BY <1>0, <2>1 DEF CallInv, Dependable
  <2> QED
    BY <1>0, <2>1, <2>2, <2>3 DEF CallInv
<1>5. ASSUME NextBegin(w) \/ Raise(w) \/ Busy(w) PROVE CallInv(w)'
  <2>1. /\ pc[w] \in {"migrate", "revise"} /\ pc'[w] \in {"revise", "failed"}
        /\ UNCHANGED <<file, path, backups, clock, conn, before, raced, saved, call>>
    BY <1>0, <1>5 DEF NextBegin, Raise, Busy, TypeOK
  <2>2. saved'[w] # 0 /\ "backup" \notin raced'[w] =>
          \A k \in DOMAIN backups' : backups'[k].stamp = saved'[w] => Dependable(w, backups[k])'
    BY <1>0, <2>1 DEF CallInv, Dependable
  <2> QED
    BY <1>0, <2>1, <2>2 DEF CallInv
<1>6. ASSUME Restore(w) PROVE CallInv(w)'
  <2>1. PICK k \in DOMAIN backups, i \in Inode :
           /\ backups[k].stamp = saved[w]
           /\ file' = [file EXCEPT ![i] = backups[k].content]
           /\ path' = i
    BY <1>6 DEF Restore
  <2>2. /\ pc[w] = "failed" /\ pc'[w] = "restored" /\ saved[w] # 0 /\ raced'[w] = raced[w]
        /\ UNCHANGED <<backups, clock, before, saved>>
    BY <1>0, <1>6 DEF Restore, Overtakes, TypeOK
  <2>3. "backup" \notin raced[w] => Dependable(w, backups[k])
    BY <1>0, <2>1, <2>2 DEF CallInv
  <2>4. file'[path'] = backups[k].content
    BY <1>0, <2>1 DEF TypeOK
  <2>5. "backup" \notin raced'[w] => Same(w)'
    BY <2>2, <2>3, <2>4 DEF Same, Dependable
  <2> QED
    BY <1>0, <2>2, <2>5 DEF CallInv
<1>7. ASSUME \/ RestoreRefused(w) \/ NotRestored(w) \/ Reached(w) \/ Outcome(w)
             \/ Crash(w) \/ CallBusy(w) \/ BackupFails(w)
      PROVE  CallInv(w)'
  <2>1. pc'[w] = "idle" /\ UNCHANGED <<clock, before, saved>>
    <3>1. RestoreRefused(w) \/ NotRestored(w) \/ Reached(w) => pc'[w] = "idle" /\ UNCHANGED <<clock, before, saved>>
      BY <1>0 DEF RestoreRefused, NotRestored, Reached, TypeOK
    <3>2. Outcome(w) \/ Crash(w) \/ CallBusy(w) \/ BackupFails(w) =>
            pc'[w] = "idle" /\ UNCHANGED <<clock, before, saved>>
      BY <1>0 DEF Outcome, Crash, CallBusy, BackupFails, TypeOK
    <3> QED
      BY <1>7, <3>1, <3>2
  <2> QED
    BY <1>0, <2>1 DEF CallInv
<1> QED
  BY <1>1, <1>2, <1>3, <1>4, <1>5, <1>6, <1>7 DEF Run

LEMMA CallsStep ==
    ASSUME IInv, CallsInv, [Next]_vars
    PROVE  CallsInv'
<1>0. TypeOK /\ backups \in Seq(Backup) /\ clock \in Nat /\ path \in Inode
  BY DEF IInv, TypeOK
<1>1. Stamped(backups, clock)'
  <2>1. ASSUME NEW w \in Runner, TakeBackup(w) PROVE Stamped(backups, clock)'
    <3>1. PICK new \in Backup : new = [stamp |-> clock', name |-> from[w], content |-> file[path]]
      BY <1>0, <2>1, BackupEffect
    <3>2. clock' = clock + 1 /\ backups' = Rotated(Append(backups, new)) /\ new.stamp = clock + 1
      BY <2>1, <3>1 DEF TakeBackup
    <3>3. Stamped(Rotated(Append(backups, new)), clock + 1)
      BY <1>0, <3>2, RotatedStamps DEF CallsInv
    <3> QED
      BY <3>2, <3>3
  <2>2. ASSUME UNCHANGED <<backups, clock>> PROVE Stamped(backups, clock)'
    BY <2>2 DEF CallsInv, Stamped
  <2> QED
    BY <2>1, <2>2 DEF Next, Run, Call, CallBusy, BackupFails, Begin, Revise, NextBegin, Raise,
       Busy, Restore, RestoreRefused, Reached, NotRestored, Outcome, Crash, AppCommit, vars
<1>2. ASSUME NEW v \in Runner, Run(v) \/ Crash(v) \/ CallBusy(v) \/ \E c \in Arguments : Call(v, c)
      PROVE  \A w \in Runner : CallInv(w)'
  <2> TAKE w \in Runner
  <2>1. CASE w = v
    BY <1>2, <2>1, OwnCall
  <2>2. CASE w # v
    <3>1. Left(w) /\ CallInv(w)
      BY <1>2, <2>2, OthersLeft DEF CallsInv
    <3> QED
      BY <3>1, LeftCall
  <2> QED
    BY <2>1, <2>2
<1>3. ASSUME NEW r \in Row, AppCommit(r) PROVE \A w \in Runner : CallInv(w)'
  <2> TAKE w \in Runner
  <2>1. file'[path].rev = file[path].rev /\ file[path].rows \subseteq file'[path].rows
    BY <1>0, <1>3, RowsEffect DEF TypeOK
  <2>2. UNCHANGED <<path, backups, clock, conn, pc, call, from, saved, before, raced>>
    BY <1>3 DEF AppCommit, locals
  <2>3. CallInv(w) /\ saved[w] <= clock
    BY DEF CallsInv, CallInv
  <2>4. Left(w)
    BY <2>1, <2>2, <2>3 DEF Left
  <2> QED
    BY <2>3, <2>4, LeftCall
<1>4. CASE UNCHANGED vars
  <2> SUFFICES ASSUME NEW w \in Runner PROVE CallInv(w)'
    BY <1>1 DEF CallsInv
  <2>1. CallInv(w) /\ saved[w] <= clock
    BY DEF CallsInv, CallInv
  <2>2. Left(w)
    BY <1>4, <2>1 DEF vars, locals, observed, Left
  <2> QED
    BY <2>1, <2>2, LeftCall
<1> QED
  BY <1>1, <1>2, <1>3, <1>4 DEF Next, CallsInv

LEMMA CallsInductive == Spec => []CallsInv
<1>1. Init => CallsInv
  <2> SUFFICES ASSUME Init PROVE CallsInv
    OBVIOUS
  <2>1. PICK r \in First : before = [w \in Runner |-> Fresh(r)]
    BY DEF Init
  <2>2. \A w \in Runner : before[w].applied = 1..before[w].rev
    BY <2>1 DEF Fresh
  <2>3. Len(backups) = 0 /\ clock = 0 /\ Keep \in Nat
    BY Bounds DEF Init
  <2>4. Stamped(backups, clock)
    BY <2>3 DEF Stamped
  <2> QED
    BY <2>2, <2>4 DEF Init, CallsInv, CallInv
<1>2. IInv /\ CallsInv /\ [Next]_vars => CallsInv'
  BY CallsStep
<1> QED
  BY <1>1, <1>2, Inductive, PTL DEF Spec

\* Only two steps end a call with one of the two results that promise something.
LEMMA HowCallsEnd ==
    ASSUME IInv, CallsInv, [Next]_vars, NEW w \in Runner, Returns(w)
    PROVE  /\ result'[w] = "restored" => Reached(w)
           /\ result'[w] = "ok" => Outcome(w)
<1> USE DEF Returns, Goto, Return
<1>0. pc \in [Runner -> PC] /\ result \in [Runner -> Results]
  BY DEF IInv, TypeOK
<1>1. pc'[w] # pc[w]
  OBVIOUS
<1>2. PICK v \in Runner : Run(v) \/ Crash(v) \/ CallBusy(v) \/ \E c \in Arguments : Call(v, c)
  BY <1>1 DEF Next, AppCommit, vars
<1>3. v = w
  BY <1>1, <1>2, OthersLeft DEF Left
<1>4. ~CallBusy(w) /\ \A c \in Arguments : ~Call(w, c)
  BY DEF CallBusy, Call
<1>5. Crash(w) => result'[w] = "none"
  BY <1>0 DEF Crash
<1>6. TakeBackup(w) \/ BackupFails(w) => result'[w] = "error"
  BY <1>0 DEF TakeBackup, BackupFails
<1>7. ~Begin(w) /\ ~Revise(w) /\ ~Raise(w) /\ ~Busy(w)
  BY <1>0 DEF Begin, Revise, Raise, Busy
<1>8. ~NextBegin(w) /\ ~Restore(w)
  BY <1>0 DEF NextBegin, Restore
<1>9. RestoreRefused(w) \/ NotRestored(w) => result'[w] \in {"error", "failed"}
  BY <1>0 DEF RestoreRefused, NotRestored
<1>10. /\ Reached(w) => result'[w] \in {"restored", "error"}
       /\ Outcome(w) => result'[w] \in {"ok", "error"}
  BY <1>0 DEF Reached, Outcome
<1> QED
  BY <1>2, <1>3, <1>4, <1>5, <1>6, <1>7, <1>8, <1>9, <1>10 DEF Run

\* Rotation does not take the backup a migration in progress depends on before
\* Keep others were taken, and it holds the database of the call unless another
\* runner changed that before.
THEOREM BackupIsThere == Spec => []BackupAwaitsFailure
<1>1. IInv /\ CallsInv => BackupAwaitsFailure
  <2> SUFFICES ASSUME IInv, CallsInv, NEW w \in Runner,
                      pc[w] \in {"migrate", "revise", "failed"}, saved[w] # 0,
                      clock < saved[w] + Keep, "backup" \notin raced[w]
               PROVE  \E k \in DOMAIN backups :
                         /\ backups[k].stamp = saved[w]
                         /\ backups[k].content.rev = before[w].rev
                         /\ before[w].rows \subseteq backups[k].content.rows
                         /\ "idle" \notin raced[w] => backups[k].name = backups[k].content.rev
    BY DEF BackupAwaitsFailure
  <2>1. backups \in Seq(Backup) /\ clock \in Nat /\ saved[w] \in Nat
    BY DEF IInv, TypeOK
  <2>2. saved[w] \in 1..clock /\ Stamped(backups, clock)
    BY <2>1 DEF CallsInv, CallInv
  <2>3. PICK k \in DOMAIN backups : backups[k].stamp = saved[w]
    BY <2>1, <2>2, StampedKeeps
  <2>4. Dependable(w, backups[k])
    BY <2>3 DEF CallsInv, CallInv
  <2> QED
    BY <2>3, <2>4 DEF Dependable
<1> QED
  BY <1>1, Inductive, CallsInductive, PTL

\* A failure that says it restored has left the schema, the revision and all the
\* rows that were there when the call was made, unless another runner changed the
\* database before the backup was taken, or since it was put back.
THEOREM FailureLeavesDatabase == Spec => FailureRestores
<1>1. IInv /\ CallsInv /\ [Next]_vars =>
        [\A w \in Runner :
            Returns(w) /\ result'[w] = "restored" /\ raced[w] \intersect {"backup", "restored"} = {} =>
               /\ file'[path'].rev = before[w].rev
               /\ file'[path'].applied = before[w].applied
               /\ before[w].rows \subseteq file'[path'].rows]_vars
  <2> SUFFICES ASSUME IInv, CallsInv, [Next]_vars, NEW w \in Runner, Returns(w),
                      result'[w] = "restored", raced[w] \intersect {"backup", "restored"} = {}
               PROVE  /\ file'[path'].rev = before[w].rev
                      /\ file'[path'].applied = before[w].applied
                      /\ before[w].rows \subseteq file'[path'].rows
    BY DEF vars
  <2>1. Reached(w)
    BY HowCallsEnd
  <2>2. pc[w] = "restored" /\ UNCHANGED <<file, path>>
    BY <2>1 DEF Reached, Return, Goto
  <2>3. Same(w) /\ before[w].applied = 1..before[w].rev
    BY <2>2 DEF CallsInv, CallInv
  <2>4. file[path].applied = 1..file[path].rev
    BY DEF IInv, TypeOK, SchemaMatchesRevision
  <2> QED
    BY <2>2, <2>3, <2>4 DEF Same
<1> QED
  BY <1>1, Inductive, CallsInductive, PTL DEF Spec, FailureRestores

\* An outcome that is returned finds the database at the path where it was asked
\* to be, unless another runner changed it since, or the runner's connection is
\* open on a file that is no longer there.
THEOREM OutcomeIsAtTarget == Spec => SuccessReachesTarget
<1>1. IInv /\ CallsInv /\ [Next]_vars =>
        [\A w \in Runner :
            Returns(w) /\ result'[w] = "ok" /\ conn[w] = {path} /\ "outcome" \notin raced[w] =>
               \/ file'[path'].rev = call[w].target
               \/ call[w].direction = "upgrade" /\ file'[path'].rev > call[w].target]_vars
  <2> SUFFICES ASSUME IInv, CallsInv, [Next]_vars, NEW w \in Runner, Returns(w),
                      result'[w] = "ok", conn[w] = {path}, "outcome" \notin raced[w]
               PROVE  \/ file'[path'].rev = call[w].target
                      \/ call[w].direction = "upgrade" /\ file'[path'].rev > call[w].target
    BY DEF vars
  <2>1. Outcome(w)
    BY HowCallsEnd
  <2>2. pc[w] = "outcome" /\ UNCHANGED <<file, path>>
    BY <2>1 DEF Outcome, Return, Goto
  <2>3. AtTarget(w)
    BY <2>2 DEF CallsInv, CallInv
  <2> QED
    BY <2>2, <2>3 DEF AtTarget
<1> QED
  BY <1>1, Inductive, CallsInductive, PTL DEF Spec, SuccessReachesTarget

=============================================================================
