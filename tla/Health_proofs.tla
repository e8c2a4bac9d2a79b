--------------------------- MODULE Health_proofs ---------------------------
(***************************************************************************)
(* Proofs about Health, for any revisions, backups and mount tables.       *)
(* ReasonsWereTrue and NothingIsMissed need to know what the report has    *)
(* already read at each of its steps, and of the backups, which are read   *)
(* over several steps, what is still unread.                               *)
(***************************************************************************)
EXTENDS Health, SequenceTheorems, TLAPS

\* The locals and the world of a report keep their kinds, however often they
\* change.
THEOREM TypeCorrect == Spec => []TypeOK
<1> USE Revisions, Ages, Bound
<1>1. Init => TypeOK
  <2> SUFFICES ASSUME Init PROVE TypeOK
    OBVIOUS
  <2>1. backups \subseteq Backup
    BY DEF Init, Backup, NoBackup
  <2>2. WorldOK
    BY <2>1 DEF Init, WorldOK
  <2>3. LocalsOK
    BY DEF Init, LocalsOK, PC
  <2>4. ObservedOK
    BY DEF Init, ObservedOK
  <2> QED
    BY <2>2, <2>3, <2>4 DEF TypeOK
<1>2. TypeOK /\ [Next]_vars => TypeOK'
  <2> SUFFICES ASSUME WorldOK, LocalsOK, ObservedOK, [Next]_vars
               PROVE  WorldOK' /\ LocalsOK' /\ ObservedOK'
    BY DEF TypeOK
  <2>w. UNCHANGED <<call, world>> => WorldOK'
    BY DEF WorldOK, call, world
  <2>l. UNCHANGED locals => LocalsOK'
    BY DEF LocalsOK, locals
  <2>o. UNCHANGED observed => ObservedOK'
    BY DEF ObservedOK, observed
  <2>0. Holding \subseteq Reasons \union Causes /\ Holding' \subseteq Reasons \union Causes
    BY DEF Holding, Causes
  <2>1. CASE Call
    <3>1. LocalsOK'
      BY <2>1 DEF Call, Step, LocalsOK, PC
    <3>2. ObservedOK'
      BY <2>1, <2>0 DEF Call, ObservedOK
    <3> QED
      BY <2>1, <2>w, <3>1, <3>2 DEF Call
  <2>2. ASSUME NEW to \in PC, NEW from, NEW c \in Reasons, NEW condition, Reads(from, to, c, condition)
        PROVE  WorldOK' /\ LocalsOK' /\ ObservedOK'
    BY <2>2, <2>w, <2>o DEF Reads, Step, LocalsOK
  <2>3. ASSUME NEW to \in PC, NEW from, Passes(from, to)
        PROVE  WorldOK' /\ LocalsOK' /\ ObservedOK'
    BY <2>3, <2>w, <2>o DEF Passes, Step, LocalsOK
  <2>4. ASSUME NEW r \in {"none", "ok", "degraded", "unavailable", "raised"}, NEW from, Returns(from, r)
        PROVE  WorldOK' /\ LocalsOK' /\ ObservedOK'
    BY <2>4, <2>w, <2>o DEF Returns, Step, LocalsOK, PC
  <2>5. CASE Report
    <3>1. CASE IntegrityCheck
      BY <3>1, <2>2, <2>4 DEF IntegrityCheck, PC, Reasons
    <3>2. CASE Version \/ JournalMode
      BY <3>2, <2>3, <2>4 DEF Version, JournalMode, PC
    <3>3. CASE Size \/ SizeOfSidecar
      BY <3>3, <2>3, <2>4 DEF Size, SizeOfSidecar, PC
    <3>4. CASE FreeSpace \/ BackupAge \/ Network
      BY <3>4, <2>2 DEF FreeSpace, BackupAge, Network, PC, Reasons
    <3>5. CASE ListBackups
      <4>1. CASE Passes("backups", "network")
        BY <4>1, <2>3 DEF PC
      <4>2. CASE ~Passes("backups", "network")
        BY <3>5, <4>2, <2>w, <2>o DEF ListBackups, Step, WorldOK, LocalsOK, PC
      <4> QED
        BY <4>1, <4>2
    <3>6. ASSUME NEW b \in Backup, IsFile(b) PROVE WorldOK' /\ LocalsOK' /\ ObservedOK'
      BY <3>6, <2>w, <2>o DEF IsFile, LocalsOK, PC
    <3>7. CASE TimeStamp
      <4>1. CASE Returns("entry", "raised")
        BY <4>1, <2>4
      <4>2. CASE ~Returns("entry", "raised")
        BY <3>7, <4>2, <2>w, <2>o DEF TimeStamp, Step, LocalsOK, PC
      <4> QED
        BY <4>1, <4>2
    <3>8. CASE CurrentRevision
      BY <3>8, <2>2, <2>3, <2>4 DEF CurrentRevision, PC, Reasons
    <3>9. CASE Verdict
      BY <3>9, <2>4 DEF Verdict
    <3> QED
      BY <2>5, <3>1, <3>2, <3>3, <3>4, <3>5, <3>6, <3>7, <3>8, <3>9 DEF Report
  <2>6. CASE Environment
    <3>1. UNCHANGED <<call, locals>>
      BY <2>6 DEF Environment, DatabaseChanges, LockChanges, RevisionChanges, SpaceChanges,
         BackupTaken, BackupRotated, SidecarMade, SidecarRemoved, Changed, Observed
    <3>2. Observed /\ ever' \subseteq ever \union Holding' \union {"rotated", "swapped"}
      BY <2>6 DEF Environment, DatabaseChanges, LockChanges, RevisionChanges, SpaceChanges,
         BackupTaken, BackupRotated, SidecarMade, SidecarRemoved, Changed
    <3>3. ObservedOK'
      BY <3>2, <2>0 DEF Observed, ObservedOK, Causes
    <3>4. WorldOK'
      BY <2>6, <3>1 DEF Environment, DatabaseChanges, LockChanges, RevisionChanges, SpaceChanges,
         BackupTaken, BackupRotated, SidecarMade, SidecarRemoved, WorldOK, call
    <3> QED
      BY <3>1, <3>3, <3>4, <2>l
  <2>7. CASE UNCHANGED vars
    BY <2>7, <2>w, <2>l, <2>o DEF vars
  <2> QED
    BY <2>1, <2>5, <2>6, <2>7 DEF Next
<1> QED
  BY <1>1, <1>2, PTL DEF Spec

-----------------------------------------------------------------------------

\* Of two paths above the same file, the shorter is above the longer.
LEMMA Nested ==
    ASSUME NEW a \in Seq(Name), NEW b \in Seq(Name), IsPrefix(a, Location), IsPrefix(b, Location)
    PROVE  Len(a) <= Len(b) <=> IsPrefix(a, b)
<1> USE Paths
<1>0. Len(a) \in Nat /\ Len(b) \in Nat /\ Len(Location) \in Nat
  BY LenProperties
<1>1. IsPrefix(a, b) => Len(a) <= Len(b)
  BY DEF IsPrefix
<1>2. ASSUME Len(a) <= Len(b) PROVE IsPrefix(a, b)
  <2>1. SubSeq(a, 1, Len(a)) = a /\ SubSeq(b, 1, Len(b)) = b
    BY SubSeqFull
  <2>2. a = SubSeq(Location, 1, Len(a)) /\ b = SubSeq(Location, 1, Len(b))
    BY <2>1 DEF IsPrefix
  <2>3. Len(b) <= Len(Location)
    BY DEF IsPrefix
  <2>4. \A i \in 1 .. Len(a) : SubSeq(b, 1, Len(a))[i] = SubSeq(Location, 1, Len(a))[i]
    <3>1. \A i \in 1 .. Len(b) : Location[i] \in Name /\ b[i] = Location[i] /\ b[i] \in Name
      <4>1. \A i \in 1 .. Len(b) : Location[i] \in Name /\ b[i] \in Name
        BY <1>0, <2>3, ElementOfSeq
      <4>2. \A i \in 1 .. Len(b) - 1 + 1 : SubSeq(Location, 1, Len(b))[i] = Location[1 + i - 1]
        BY <1>0, <4>1, SubSeqProperties
      <4> QED
        BY <1>0, <2>2, <4>1, <4>2
    <3>2. \A i \in 1 .. Len(a) - 1 + 1 : SubSeq(b, 1, Len(a))[i] = b[1 + i - 1]
      BY <1>0, <1>2, <3>1, SubSeqProperties
    <3>3. \A i \in 1 .. Len(a) - 1 + 1 : SubSeq(Location, 1, Len(a))[i] = Location[1 + i - 1]
      BY <1>0, <1>2, <3>1, SubSeqProperties
    <3> QED
      BY <1>0, <1>2, <3>1, <3>2, <3>3
  <2>5. SubSeq(b, 1, Len(a)) \in Seq(Name) /\ Len(SubSeq(b, 1, Len(a))) = Len(a)
    <3>1. \A i \in 1 .. Len(a) : b[i] \in Name
      BY <1>0, <1>2, ElementOfSeq
    <3> QED
      BY <1>0, <3>1, SubSeqProperties
  <2>6. SubSeq(b, 1, Len(a)) = a
    BY <2>2, <2>4, <2>5, SeqEqual
  <2> QED
    BY <1>0, <1>2, <2>1, <2>6 DEF IsPrefix
<1> QED
  BY <1>1, <1>2

\* What the reads of a report find is what its reasons are about.
LEMMA HoldingHas ==
    ASSUME WorldOK
    PROVE  /\ "ahead" \in Holding <=> runner /\ IsAhead(revision)
           /\ "pending" \in Holding <=> runner /\ IsPending(revision)
           /\ "integrity" \in Holding <=> dialect = "sqlite" /\ database # "sound"
           /\ "space" \in Holding <=> space = "low"
           /\ "backup" \in Holding <=>
                 dialect = "sqlite" /\ backups # {} /\ \A b \in backups : Stale(b)
           /\ "network" \in Holding <=> dialect = "sqlite" /\ NetworkFilesystem
           /\ "locked" \in Holding <=> locked
           /\ "unusable" \in Holding <=> Unusable
<1>1. \A c \in Reasons : c \in Holding <=> Holds(c)
  BY DEF Holding, Reasons
<1>2. "network" \in Holding <=> dialect = "sqlite" /\ NetworkFilesystem
  <2>1. \A m, n \in Above : Len(n.point) <= Len(m.point) <=> IsPrefix(n.point, m.point)
    <3>1. mounts \subseteq [point : Seq(Name), network : BOOLEAN]
      BY MountTables DEF WorldOK
    <3>2. \A m \in Above : m.point \in Seq(Name) /\ IsPrefix(m.point, Location)
      BY <3>1 DEF Above
    <3> QED
      BY <3>2, Nested
  <2>2. NetworkFilesystem <=> \E m \in Above : m.network /\ \A n \in Above : IsPrefix(n.point, m.point)
    BY <2>1 DEF NetworkFilesystem
  <2> QED
    BY <1>1, <2>2 DEF Holds, Reasons
<1>3. /\ "locked" \in Holding <=> locked
      /\ "unusable" \in Holding <=> Unusable
  BY DEF Holding, Reasons, Unusable
<1> QED
  BY <1>1, <1>2, <1>3 DEF Holds, Reasons

-----------------------------------------------------------------------------

LEMMA HoldingHasNext ==
    ASSUME WorldOK'
    PROVE  "backup" \in Holding' => \A b \in backups' : Stale(b)
  BY DEF Holding, Holds, Reasons, Stale

\* The entries whose time stamps the report has yet to read.
Unread == listing \union (IF pc = "entry" THEN {probe} ELSE {})

\* What is so has been seen to be so.  Of the backups, the fresh ones are still
\* unread, or the newest is fresh, unless there was none.
SeenInv ==
    /\ pc # "idle" => Holding \subseteq ever
    /\ pc = "sizing" /\ ~sidecar => "swapped" \in ever
    /\ pc \in {"integrity", "version", "journal", "size", "sizing", "space", "backups"} =>
          newest = NoBackup
    /\ pc = "entry" => probe # NoBackup
    /\ pc \in {"entries", "entry"} /\ "rotated" \notin ever =>
          /\ Unread \subseteq backups
          /\ \/ "backup" \in ever
             \/ \E b \in Unread \union {newest} : b # NoBackup /\ ~Stale(b)
             \/ Unread = {} /\ newest = NoBackup

ReportInv == SeenInv /\ ReasonsWereTrue /\ FailuresHaveACause

\* The world does not change in a step of the report.
LEMMA HoldingSame == UNCHANGED <<call, world>> => Holding' = Holding
  BY DEF Holding, Holds, Above, call, world

LEMMA ReportInductive == Spec => []ReportInv
<1> USE Revisions, Ages, Bound
<1>1. Init => ReportInv
  BY DEF Init, ReportInv, SeenInv, ReasonsWereTrue, FailuresHaveACause
<1>2. TypeOK /\ TypeOK' /\ ReportInv /\ [Next]_vars => ReportInv'
  <2> SUFFICES ASSUME WorldOK, WorldOK', LocalsOK, LocalsOK', ReportInv, [Next]_vars
               PROVE  ReportInv'
    BY DEF TypeOK
  <2>h. UNCHANGED <<call, world>> => Holding' = Holding
    BY HoldingSame
  <2>1. CASE Call
    <3>1. Holding' = Holding
      BY <2>1, <2>h DEF Call
    <3> QED
      BY <2>1, <3>1 DEF Call, Step, ReportInv, SeenInv, ReasonsWereTrue, FailuresHaveACause
  \* A step that reads something other than the directory of the backups.
  <2>2. ASSUME NEW c \in Reasons, NEW condition, NEW from, NEW to,
               from # "idle", to \notin {"idle", "sizing", "entries", "entry"},
               to \in {"integrity", "version", "journal", "size", "space", "backups"} => newest = NoBackup,
               condition => c \in Holding \/ (c = "backup" /\ ("backup" \in ever \/ "rotated" \in ever)),
               Reads(from, to, c, condition)
        PROVE  ReportInv'
    <3>1. Holding' = Holding
      BY <2>2, <2>h DEF Reads
    <3>2. SeenInv'
      BY <2>2, <3>1 DEF Reads, Step, locals, observed, world, ReportInv, SeenInv
    <3>3. ReasonsWereTrue'
      BY <2>2 DEF Reads, Step, observed, ReportInv, SeenInv, ReasonsWereTrue
    <3>4. FailuresHaveACause'
      BY <2>2 DEF Reads, call, observed, ReportInv, FailuresHaveACause
    <3> QED
      BY <3>2, <3>3, <3>4 DEF ReportInv
  <2>3. ASSUME NEW from, NEW to,
               from # "idle", to \notin {"idle", "entries", "entry"}, to = "sizing" => sidecar,
               to \in {"integrity", "version", "journal", "size", "sizing", "space", "backups"} => newest = NoBackup,
               Passes(from, to)
        PROVE  ReportInv'
    <3>1. Holding' = Holding
      BY <2>3, <2>h DEF Passes
    <3>2. SeenInv'
      BY <2>3, <3>1 DEF Passes, Step, observed, world, ReportInv, SeenInv
    <3>3. ReasonsWereTrue' /\ FailuresHaveACause'
      BY <2>3 DEF Passes, call, observed, ReportInv, ReasonsWereTrue, FailuresHaveACause
    <3> QED
      BY <3>2, <3>3 DEF ReportInv
  <2>4. ASSUME NEW from, NEW r, Returns(from, r),
               r = "unavailable" => IF dialect = "sqlite" THEN "locked" \in ever ELSE "unusable" \in ever,
               r = "raised" => ever \intersect Causes # {}
        PROVE  ReportInv'
    <3>1. SeenInv'
      BY <2>4 DEF Returns, Step, SeenInv
    <3>2. ReasonsWereTrue' /\ FailuresHaveACause'
      BY <2>4 DEF Returns, call, observed, ReportInv, ReasonsWereTrue, FailuresHaveACause
    <3> QED
      BY <3>1, <3>2 DEF ReportInv
  <2>b. /\ pc # "idle" /\ Blocked => dialect = "sqlite" /\ "locked" \in ever
        /\ pc # "idle" /\ Unusable => "unusable" \in ever
    BY HoldingHas DEF ReportInv, SeenInv, Blocked
  <2>5. CASE Report
    <3> USE DEF Causes, Reasons
    <3>1. CASE IntegrityCheck
      <4>1. CASE Returns("integrity", "unavailable")
        BY <3>1, <4>1, <2>4, <2>b DEF IntegrityCheck, Returns, Step, Reads
      <4>2. CASE ~Returns("integrity", "unavailable")
        <5>1. Reads("integrity", "version", "integrity", dialect = "sqlite" /\ database # "sound")
          BY <3>1, <4>2 DEF IntegrityCheck
        <5>2. newest = NoBackup
          BY <5>1 DEF Reads, Step, ReportInv, SeenInv
        <5> QED
          BY <5>1, <5>2, <2>2, HoldingHas
      <4> QED
        BY <4>1, <4>2
    <3>2. CASE Version
      <4>1. newest = NoBackup /\ (Blocked => "locked" \in ever)
        BY <3>2, <2>b DEF Version, Passes, Returns, Step, ReportInv, SeenInv
      <4> QED
        BY <3>2, <4>1, <2>3, <2>4 DEF Version
    <3>3. CASE JournalMode
      <4>1. newest = NoBackup /\ (Blocked => "locked" \in ever)
        BY <3>3, <2>b DEF JournalMode, Passes, Returns, Step, ReportInv, SeenInv
      <4> QED
        BY <3>3, <4>1, <2>3, <2>4 DEF JournalMode
    <3>4. CASE Size
      <4>1. newest = NoBackup /\ (Unusable => "unusable" \in ever)
        BY <3>4, <2>b DEF Size, Passes, Returns, Step, ReportInv, SeenInv
      <4> QED
        BY <3>4, <4>1, <2>3, <2>4 DEF Size
    <3>5. CASE SizeOfSidecar
      <4>1. newest = NoBackup /\ (~sidecar => "swapped" \in ever)
        BY <3>5 DEF SizeOfSidecar, Passes, Returns, Step, ReportInv, SeenInv
      <4> QED
        BY <3>5, <4>1, <2>3, <2>4 DEF SizeOfSidecar
    <3>6. CASE FreeSpace
      <4>1. newest = NoBackup
        BY <3>6 DEF FreeSpace, Reads, Step, ReportInv, SeenInv
      <4> QED
        BY <3>6, <4>1, <2>2, HoldingHas DEF FreeSpace
    <3>7. CASE ListBackups
      <4>1. CASE Passes("backups", "network")
        BY <4>1, <2>3
      <4>2. CASE ~Passes("backups", "network")
        <5>1. /\ dialect = "sqlite" /\ Step("backups", "entries") /\ listing' = backups
              /\ UNCHANGED <<call, world, found, probe, newest, result, observed>>
          BY <3>7, <4>2 DEF ListBackups
        <5>2. Holding' = Holding /\ Holding \subseteq ever /\ newest = NoBackup /\ Unread' = backups
          BY <5>1, <2>h DEF Step, ReportInv, SeenInv, Unread
        <5>3. \/ "backup" \in ever
              \/ \E b \in backups : b # NoBackup /\ ~Stale(b)
              \/ backups = {}
          BY <5>1, <5>2, HoldingHas DEF Stale, WorldOK, Backup, NoBackup
        <5>4. SeenInv'
          BY <5>1, <5>2, <5>3 DEF Step, observed, world, SeenInv, Stale
        <5>5. ReasonsWereTrue' /\ FailuresHaveACause'
          BY <5>1 DEF call, observed, ReportInv, ReasonsWereTrue, FailuresHaveACause
        <5> QED
          BY <5>4, <5>5 DEF ReportInv
      <4> QED
        BY <4>1, <4>2
    <3>8. ASSUME NEW b \in Backup, IsFile(b) PROVE ReportInv'
      <4>1. Holding' = Holding /\ Holding \subseteq ever
        BY <3>8, <2>h DEF IsFile, ReportInv, SeenInv
      <4>2. b # NoBackup
        BY DEF Backup, NoBackup
      <4>3. "rotated" \notin ever => b \in backups /\ Unread' = Unread
        BY <3>8 DEF IsFile, ReportInv, SeenInv, Unread
      <4>4. SeenInv'
        <5>1. pc' \in {"entries", "entry"} /\ (pc' = "entry" => probe' = b)
          BY <3>8 DEF IsFile
        <5>2. pc = "entries" /\ newest' = newest /\ ever' = ever /\ backups' = backups
          BY <3>8 DEF IsFile, world, observed
        <5> QED
          BY <4>1, <4>2, <4>3, <5>1, <5>2 DEF ReportInv, SeenInv, Stale
      <4>5. ReasonsWereTrue' /\ FailuresHaveACause'
        BY <3>8 DEF IsFile, call, observed, ReportInv, ReasonsWereTrue, FailuresHaveACause
      <4> QED
        BY <4>4, <4>5 DEF ReportInv
    <3>9. CASE TimeStamp
      <4>1. CASE Returns("entry", "raised")
        <5>1. CASE probe \in backups
          BY <3>9, <4>1, <5>1 DEF TimeStamp, Returns, Step
        <5>2. CASE probe \notin backups
          <6>1. "rotated" \in ever
            BY <4>1, <5>2 DEF Returns, Step, ReportInv, SeenInv, Unread
          <6> QED
            BY <4>1, <6>1, <2>4
        <5> QED
          BY <5>1, <5>2
      <4>2. CASE ~Returns("entry", "raised")
        <5>1. /\ probe \in backups /\ Step("entry", "entries")
              /\ newest' = IF newest < probe THEN probe ELSE newest
              /\ UNCHANGED <<call, world, found, listing, probe, result, observed>>
          BY <3>9, <4>2 DEF TimeStamp
        <5>2. Holding' = Holding /\ Holding \subseteq ever /\ probe # NoBackup
          BY <5>1, <2>h DEF Step, ReportInv, SeenInv
        <5>3. Unread' = listing /\ Unread = listing \union {probe}
          BY <5>1 DEF Step, Unread
        <5>4. /\ newest' # NoBackup
              /\ \A b \in {probe, newest} : b # NoBackup /\ ~Stale(b) => ~Stale(newest')
          BY <5>1, <5>2 DEF Stale, LocalsOK, Backup, NoBackup
        <5>5. ASSUME "rotated" \notin ever
              PROVE  \/ "backup" \in ever
                     \/ \E b \in listing \union {newest'} : b # NoBackup /\ ~Stale(b)
          <6>1. \/ "backup" \in ever
                \/ \E b \in listing \union {probe, newest} : b # NoBackup /\ ~Stale(b)
            BY <5>1, <5>3, <5>5 DEF Step, ReportInv, SeenInv
          <6> QED
            BY <5>4, <6>1
        <5>6. SeenInv'
          BY <5>1, <5>2, <5>3, <5>5 DEF Step, observed, world, ReportInv, SeenInv, Stale
        <5>7. ReasonsWereTrue' /\ FailuresHaveACause'
          BY <5>1 DEF call, observed, ReportInv, ReasonsWereTrue, FailuresHaveACause
        <5> QED
          BY <5>6, <5>7 DEF ReportInv
      <4> QED
        BY <4>1, <4>2
    <3>10. CASE BackupAge
      <4>1. Stale(newest) => "backup" \in ever \/ "rotated" \in ever
        BY <3>10 DEF BackupAge, Reads, Step, ReportInv, SeenInv, Unread, Stale
      <4> QED
        BY <3>10, <4>1, <2>2 DEF BackupAge
    <3>11. CASE Network
      BY <3>11, <2>2, HoldingHas DEF Network
    <3>12. CASE CurrentRevision
      <4>1. CASE ~runner
        BY <3>12, <4>1, <2>3 DEF CurrentRevision
      <4>2. CASE Returns("revision", "raised")
        <5>1. Blocked \/ Unusable
          BY <3>12, <4>2 DEF CurrentRevision, Returns, Passes, Reads, Step
        <5>2. "locked" \in ever \/ "unusable" \in ever
          BY <4>2, <5>1, <2>b DEF Returns, Step
        <5> QED
          BY <4>2, <5>2, <2>4
      <4>3. CASE runner /\ ~Returns("revision", "raised")
        <5>1. IF IsAhead(revision)
              THEN Reads("revision", "verdict", "ahead", TRUE)
              ELSE Reads("revision", "verdict", "pending", IsPending(revision))
          BY <3>12, <4>3 DEF CurrentRevision
        <5> QED
          BY <4>3, <5>1, <2>2, HoldingHas
      <4> QED
        BY <4>1, <4>2, <4>3
    <3>13. CASE Verdict
      BY <3>13, <2>4 DEF Verdict
    <3> QED
      BY <2>5, <3>1, <3>2, <3>3, <3>4, <3>5, <3>6, <3>7, <3>8, <3>9, <3>10, <3>11, <3>12, <3>13
      DEF Report
  <2>6. CASE Environment
    <3>1. /\ UNCHANGED <<call, locals>>
          /\ ever \union Holding' \subseteq ever'
      BY <2>6 DEF Environment, DatabaseChanges, LockChanges, RevisionChanges, SpaceChanges,
         BackupTaken, BackupRotated, SidecarMade, SidecarRemoved, Changed, Observed
    <3>2. /\ backups \subseteq backups' \/ "rotated" \in ever'
          /\ (sidecar => sidecar') \/ "swapped" \in ever'
      BY <2>6 DEF Environment, DatabaseChanges, LockChanges, RevisionChanges, SpaceChanges,
         BackupTaken, BackupRotated, SidecarMade, SidecarRemoved
    <3>3. Unread' = Unread
      BY <3>1 DEF Unread, locals
    <3>4. SeenInv'
      BY <3>1, <3>2, <3>3 DEF locals, ReportInv, SeenInv, Stale
    <3>5. ReasonsWereTrue' /\ FailuresHaveACause'
      BY <3>1 DEF locals, call, ReportInv, ReasonsWereTrue, FailuresHaveACause
    <3> QED
      BY <3>4, <3>5 DEF ReportInv
  <2>7. CASE UNCHANGED vars
    <3>1. Holding' = Holding /\ Unread' = Unread
      BY <2>7, <2>h DEF vars, Unread, locals
    <3>2. SeenInv'
      BY <2>7, <3>1 DEF vars, locals, observed, world, ReportInv, SeenInv, Stale
    <3>3. ReasonsWereTrue' /\ FailuresHaveACause'
      BY <2>7 DEF vars, locals, observed, call, ReportInv, ReasonsWereTrue, FailuresHaveACause
    <3> QED
      BY <3>2, <3>3 DEF ReportInv
  <2> QED
    BY <2>1, <2>5, <2>6, <2>7 DEF Next
<1> QED
  BY <1>1, <1>2, TypeCorrect, PTL DEF Spec

\* No report names a reason that did not hold during the call.
THEOREM ReasonsAreTrue == Spec => []ReasonsWereTrue
  BY ReportInductive, PTL DEF ReportInv

\* No call fails without a lock, a database or a file that failed it.
THEOREM FailuresAreCaused == Spec => []FailuresHaveACause
  BY ReportInductive, PTL DEF ReportInv

-----------------------------------------------------------------------------

\* Which reads are behind the report at each of its steps.
Later(c) ==
    CASE c = "integrity" -> PC \ {"idle", "integrity"}
      [] c = "space" -> {"backups", "entries", "entry", "network", "revision", "verdict"}
      [] c = "backup" -> {"network", "revision", "verdict"}
      [] c = "network" -> {"revision", "verdict"}
      [] c \in {"ahead", "pending"} -> {"verdict"}

\* What held all the time holds, and what was read of it has been found.  While
\* the backups are read none of them is fresh, and until the age of one is known
\* those that rotation leaves are unread.
CompleteInv ==
    pc # "idle" =>
        /\ always \subseteq Holding
        /\ \A c \in Reasons : c \in always /\ pc \in Later(c) => c \in found
        /\ pc \in {"entries", "entry"} /\ "backup" \in always =>
              /\ \A b \in Unread \union {newest} : b < FreshFrom
              /\ newest # NoBackup \/ backups \subseteq Unread

\* A step of the report that passes by the reads of others.
LEMMA LaterSteps ==
    /\ Later("integrity") = {"version", "journal", "size", "sizing", "space", "backups",
                             "entries", "entry", "network", "revision", "verdict"}
    /\ Later("space") = {"backups", "entries", "entry", "network", "revision", "verdict"}
    /\ Later("backup") = {"network", "revision", "verdict"}
    /\ Later("network") = {"revision", "verdict"}
    /\ Later("ahead") = {"verdict"} /\ Later("pending") = {"verdict"}
  BY DEF Later, PC

LEMMA CompleteInductive == Spec => [](TypeOK /\ ReportInv /\ CompleteInv)
<1> USE Revisions, Ages, Bound
<1>1. Init => CompleteInv
  BY DEF Init, CompleteInv
<1>2. TypeOK /\ TypeOK' /\ ReportInv /\ CompleteInv /\ [Next]_vars => CompleteInv'
  <2> SUFFICES ASSUME WorldOK, WorldOK', LocalsOK, LocalsOK', ReportInv, CompleteInv, [Next]_vars
               PROVE  CompleteInv'
    BY DEF TypeOK
  <2>h. UNCHANGED <<call, world>> => Holding' = Holding
    BY HoldingSame
  <2>1. CASE Call
    <3>1. Holding' = Holding
      BY <2>1, <2>h DEF Call
    <3> QED
      BY <2>1, <3>1, LaterSteps DEF Call, Step, CompleteInv, Reasons
  \* A step that reads c, or passes, leaves what was found and what is behind.
  <2>2. ASSUME NEW c \in Reasons, NEW condition, NEW from, NEW to,
               from # "idle", to \notin {"entries", "entry"},
               c \in always => condition,
               \A d \in Reasons \ {c} : to \in Later(d) /\ d \in always => from \in Later(d),
               Reads(from, to, c, condition)
        PROVE  CompleteInv'
    <3>1. Holding' = Holding
      BY <2>2, <2>h DEF Reads
    <3>2. \A d \in Reasons : d \in always /\ pc' \in Later(d) => d \in found'
      BY <2>2 DEF Reads, Step, CompleteInv
    <3> QED
      BY <2>2, <3>1, <3>2 DEF Reads, Step, observed, CompleteInv
  <2>3. ASSUME NEW from, NEW to,
               from # "idle", to \notin {"entries", "entry"},
               \A d \in Reasons : to \in Later(d) /\ d \in always => from \in Later(d),
               Passes(from, to)
        PROVE  CompleteInv'
    <3>1. Holding' = Holding
      BY <2>3, <2>h DEF Passes
    <3>2. \A d \in Reasons : d \in always /\ pc' \in Later(d) => d \in found'
      BY <2>3 DEF Passes, Step, CompleteInv
    <3> QED
      BY <2>3, <3>1, <3>2 DEF Passes, Step, observed, CompleteInv
  <2>4. ASSUME NEW from, NEW r, Returns(from, r) PROVE CompleteInv'
    BY <2>4 DEF Returns, Step, CompleteInv
  <2>5. CASE Report
    <3>a. pc # "idle" => always \subseteq Holding
      BY DEF CompleteInv
    <3>1. CASE IntegrityCheck
      <4>1. CASE Returns("integrity", "unavailable")
        BY <4>1, <2>4
      <4>2. CASE ~Returns("integrity", "unavailable")
        <5>1. Reads("integrity", "version", "integrity", dialect = "sqlite" /\ database # "sound")
          BY <3>1, <4>2 DEF IntegrityCheck
        <5>2. "integrity" \in always => dialect = "sqlite" /\ database # "sound"
          BY <5>1, <3>a, HoldingHas DEF Reads, Step
        <5> QED
          BY <5>1, <5>2, <2>2, LaterSteps DEF Reasons
      <4> QED
        BY <4>1, <4>2
    <3>2. CASE Version
      BY <3>2, <2>3, <2>4, LaterSteps DEF Version, Reasons
    <3>3. CASE JournalMode
      BY <3>3, <2>3, <2>4, LaterSteps DEF JournalMode, Reasons
    <3>4. CASE Size \/ SizeOfSidecar
      BY <3>4, <2>3, <2>4, LaterSteps DEF Size, SizeOfSidecar, Reasons
    <3>5. CASE FreeSpace
      <4>1. "space" \in always => space = "low"
        BY <3>5, <3>a, HoldingHas DEF FreeSpace, Reads, Step
      <4>2. \A d \in Reasons \ {"space"} : "backups" \in Later(d) => "space" \in Later(d)
        BY LaterSteps DEF Reasons
      <4>3. Reads("space", "backups", "space", space = "low") /\ "space" \in Reasons
        BY <3>5 DEF FreeSpace, Reasons
      <4> DEFINE low == space = "low"
      <4>4. "space" \in always => low
        BY <4>1
      <4>5. Reads("space", "backups", "space", low)
        BY <4>3
      <4> HIDE DEF low
      <4> QED
        BY <4>2, <4>3, <4>4, <4>5, <2>2
    <3>6. CASE ListBackups
      <4>1. CASE Passes("backups", "network")
        <5>1. CASE dialect = "postgresql"
          <6>1. "backup" \notin always
            BY <4>1, <5>1, <3>a, HoldingHas DEF Passes, Step
          <6> QED
            BY <4>1, <6>1, <2>3, LaterSteps DEF Reasons
        <5>2. CASE dialect # "postgresql"
          BY <3>6, <4>1, <5>2 DEF ListBackups, Passes, Step
        <5> QED
          BY <5>1, <5>2
      <4>2. CASE ~Passes("backups", "network")
        <5>1. /\ Step("backups", "entries") /\ listing' = backups
              /\ UNCHANGED <<call, world, found, probe, newest, result, observed>>
          BY <3>6, <4>2 DEF ListBackups
        <5>2. Holding' = Holding /\ newest = NoBackup /\ Unread' = backups
          BY <5>1, <2>h DEF Step, ReportInv, SeenInv, Unread
        <5>3. always \subseteq Holding
          BY <5>1, <3>a DEF Step
        <5>4. ASSUME "backup" \in always
              PROVE  \A b \in backups \union {newest} : b < FreshFrom
          <6>1. backups # {} /\ \A b \in backups : Stale(b)
            BY <5>3, <5>4, HoldingHas
          <6> QED
            BY <5>2, <6>1 DEF Stale, Backup, NoBackup
        <5>5. \A d \in Reasons : d \in always /\ "entries" \in Later(d) => d \in found'
          BY <5>1, LaterSteps DEF Step, CompleteInv, Reasons
        <5> QED
          BY <5>1, <5>2, <5>3, <5>4, <5>5 DEF Step, observed, world, CompleteInv
      <4> QED
        BY <4>1, <4>2
    <3>7. ASSUME NEW b \in Backup, IsFile(b) PROVE CompleteInv'
      <4>1. Holding' = Holding /\ pc = "entries" /\ always \subseteq Holding
        BY <3>7, <2>h, <3>a DEF IsFile
      <4>2. Unread' \subseteq Unread /\ Unread \intersect backups \subseteq Unread'
        BY <3>7 DEF IsFile, Unread
      <4>3. pc' \in {"entries", "entry"}
        BY <3>7 DEF IsFile
      <4>4. \A d \in Reasons : d \in always /\ pc' \in Later(d) => d \in found'
        BY <3>7, <4>1, <4>3, LaterSteps DEF IsFile, CompleteInv, Reasons
      <4> QED
        BY <3>7, <4>1, <4>2, <4>3, <4>4 DEF IsFile, world, observed, CompleteInv
    <3>8. CASE TimeStamp
      <4>1. CASE Returns("entry", "raised")
        BY <4>1, <2>4
      <4>2. CASE ~Returns("entry", "raised")
        <5>1. /\ probe \in backups /\ Step("entry", "entries")
              /\ newest' = IF newest < probe THEN probe ELSE newest
              /\ UNCHANGED <<call, world, found, listing, probe, result, observed>>
          BY <3>8, <4>2 DEF TimeStamp
        <5>2. Holding' = Holding /\ always \subseteq Holding /\ probe # NoBackup
          BY <5>1, <2>h, <3>a DEF Step, ReportInv, SeenInv
        <5>3. Unread' = listing /\ Unread = listing \union {probe}
          BY <5>1 DEF Step, Unread
        <5>4. newest' # NoBackup /\ newest' \in {probe, newest}
          BY <5>1, <5>2 DEF LocalsOK, Backup, NoBackup
        <5>5. "backup" \in always => \A b \in listing \union {newest'} : b < FreshFrom
          BY <5>1, <5>3, <5>4 DEF Step, CompleteInv
        <5>6. \A d \in Reasons : d \in always /\ "entries" \in Later(d) => d \in found'
          BY <5>1, LaterSteps DEF Step, CompleteInv, Reasons
        <5> QED
          BY <5>1, <5>2, <5>3, <5>4, <5>5, <5>6 DEF Step, observed, world, CompleteInv
      <4> QED
        BY <4>1, <4>2
    <3>9. CASE BackupAge
      <4>1. "backup" \in always => Stale(newest)
        <5>1. pc = "entries" /\ Unread = {} /\ always \subseteq Holding
          BY <3>9, <3>a DEF BackupAge, Reads, Step, Unread
        <5>2. "backup" \in always => backups # {}
          BY <5>1, HoldingHas
        <5> QED
          BY <5>1, <5>2 DEF CompleteInv, Stale
      <4> QED
        BY <3>9, <4>1, <2>2, LaterSteps DEF BackupAge, Reasons
    <3>10. CASE Network
      <4>1. "network" \in always => dialect = "sqlite" /\ NetworkFilesystem
        BY <3>10, <3>a, HoldingHas DEF Network, Reads, Step
      <4> QED
        BY <3>10, <4>1, <2>2, LaterSteps DEF Network, Reasons
    <3>11. CASE CurrentRevision
      <4>1. CASE Returns("revision", "raised")
        BY <4>1, <2>4
      <4>2. CASE ~Returns("revision", "raised")
        <5>1. pc = "revision" /\ always \subseteq Holding
          BY <3>11, <4>2, <3>a DEF CurrentRevision, Passes, Reads, Step
        <5>2. /\ "ahead" \in always => runner /\ IsAhead(revision)
              /\ "pending" \in always => runner /\ IsPending(revision)
          BY <5>1, HoldingHas
        <5>3. "ahead" \in always => "pending" \notin always
          BY <5>2 DEF IsPending
        <5>4. CASE ~runner
          <6>1. Passes("revision", "verdict")
            BY <3>11, <4>2, <5>4 DEF CurrentRevision
          <6> QED
            BY <6>1, <5>2, <5>4, <2>3, LaterSteps DEF Reasons
        <5>5. CASE runner /\ IsAhead(revision)
          <6>1. Reads("revision", "verdict", "ahead", TRUE) /\ "pending" \notin always
            BY <3>11, <4>2, <5>2, <5>5 DEF CurrentRevision, IsPending
          <6> QED
            BY <6>1, <2>2, LaterSteps DEF Reasons
        <5>6. CASE runner /\ ~IsAhead(revision)
          <6>1. Reads("revision", "verdict", "pending", IsPending(revision)) /\ "ahead" \notin always
            BY <3>11, <4>2, <5>2, <5>6 DEF CurrentRevision
          <6> QED
            BY <6>1, <5>2, <2>2, LaterSteps DEF Reasons
        <5> QED
          BY <5>4, <5>5, <5>6 DEF WorldOK
      <4> QED
        BY <4>1, <4>2
    <3>12. CASE Verdict
      BY <3>12, <2>4 DEF Verdict
    <3> QED
      BY <2>5, <3>1, <3>2, <3>3, <3>4, <3>5, <3>6, <3>7, <3>8, <3>9, <3>10, <3>11, <3>12 DEF Report
  <2>6. CASE Environment
    <3>1. /\ UNCHANGED <<call, locals>>
          /\ always' \subseteq always /\ always' \subseteq Holding'
      BY <2>6 DEF Environment, DatabaseChanges, LockChanges, RevisionChanges, SpaceChanges,
         BackupTaken, BackupRotated, SidecarMade, SidecarRemoved, Changed, Observed
    <3>2. Unread' = Unread
      BY <3>1 DEF Unread, locals
    <3>3. \/ backups' = backups
          \/ \E b \in Backup : ~Stale(b) /\ backups' = backups \union {b}
          \/ \E b \in backups : backups' = backups \ {b}
      BY <2>6 DEF Environment, DatabaseChanges, LockChanges, RevisionChanges, SpaceChanges,
         BackupTaken, BackupRotated, SidecarMade, SidecarRemoved
    <3>4. "backup" \in always' => backups' \subseteq backups
      <4>1. "backup" \in always' => \A c \in backups' : Stale(c)
        BY <3>1, HoldingHasNext
      <4> QED
        BY <3>3, <4>1
    <3>5. \A d \in Reasons : d \in always' /\ pc' \in Later(d) => d \in found' \/ pc = "idle"
      BY <3>1 DEF locals, CompleteInv
    <3> QED
      BY <3>1, <3>2, <3>4, <3>5 DEF locals, CompleteInv
  <2>7. CASE UNCHANGED vars
    <3>1. Holding' = Holding /\ Unread' = Unread
      BY <2>7, <2>h DEF vars, Unread, locals
    <3> QED
      BY <2>7, <3>1 DEF vars, locals, observed, world, CompleteInv
  <2> QED
    BY <2>1, <2>5, <2>6, <2>7 DEF Next
<1> QED
  BY <1>1, <1>2, TypeCorrect, ReportInductive, PTL DEF Spec

\* A report names every condition that held from the call to its return.
THEOREM NothingMissed == Spec => NothingIsMissed
<1>1. TypeOK /\ ReportInv /\ CompleteInv /\ [Next]_vars =>
          [Concludes => always \intersect Reasons \subseteq found']_vars
  <2> SUFFICES ASSUME LocalsOK, CompleteInv, Next, Concludes
               PROVE  always \intersect Reasons \subseteq found'
    BY DEF TypeOK
  <2>1. Verdict
    <3>1. ~Call /\ ~Environment
      BY DEF Concludes, Call, Step, Environment, DatabaseChanges, LockChanges, RevisionChanges, SpaceChanges,
         BackupTaken, BackupRotated, SidecarMade, SidecarRemoved, Changed, Observed, locals
    <3> QED
      BY <3>1 DEF Next, Report, Concludes, IntegrityCheck, Version, JournalMode, Size, SizeOfSidecar,
         FreeSpace, ListBackups, IsFile, TimeStamp, BackupAge, Network, CurrentRevision,
         Reads, Passes, Returns, Step
  <2>2. \A c \in Reasons : "verdict" \in Later(c)
    BY LaterSteps DEF Reasons
  <2> QED
    BY <2>1, <2>2 DEF Verdict, Returns, Step, CompleteInv
<1> QED
  BY <1>1, CompleteInductive, PTL DEF Spec, NothingIsMissed
=============================================================================
