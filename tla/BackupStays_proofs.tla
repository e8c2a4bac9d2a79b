------------------------- MODULE BackupStays_proofs -------------------------
(***************************************************************************)
(* Proof that BackupRemains holds for any callers, retentions and bounds.  *)
(* While rotations delete, or after a backup has succeeded, some backup of *)
(* the family is condemned by no rotation, nor is what replaces it when it *)
(* is compressed (GoodInv).  The rotation that decides leaves one because  *)
(* more files are later than the newest it condemns than there are files   *)
(* left behind and other callers, and each of those accounts for one file. *)
(***************************************************************************)
EXTENDS Backups_proofs

\* The files are strictly ordered by their times, even after the clock retreats.
OrderInv ==
    \A p \in Path :
      /\ later[p] # {} => Exists(p)
      /\ p \notin later[p]
      /\ \A q \in later[p] : Exists(q) /\ later[q] \subseteq later[p]
      /\ \A q \in Path : Exists(p) /\ Exists(q) /\ p # q => p \in later[q] \/ q \in later[p]

\* How far the two files of an automatic backup are.
Files(c) ==
    /\ pc[c] \in {"unlink", "touch"} => ~Exists(dest[c])
    /\ pc[c] \in {"connect", "open", "copy", "copying"} => ~Whole(body[dest[c]])
    /\ pc[c] \in {"unlink", "touch", "connect", "open", "copy", "copying", "unlinkZip", "touchZip"} =>
         Unused(ZipOf(dest[c]))
    /\ pc[c] \in {"zip", "zipping"} => ~Whole(body[ZipOf(dest[c])])
    /\ pc[c] = "zipping" /\ Exists(dest[c]) => read[c] = body[dest[c]]
    /\ pc[c] = "drop" /\ Exists(dest[c]) /\ Exists(ZipOf(dest[c])) =>
         body[ZipOf(dest[c])] = body[dest[c]]

FilesInv == \A c \in Callers : Busy(c) => Files(c)

\* A rotation is to delete the file.
Condemned(p) == \E e \in Callers : pc[e] = "rotate" /\ p \in names[e]

\* The file that replaces the backup while c compresses it will be one.
Replaced(c, p) ==
    /\ ~Condemned(ZipOf(p))
    /\ pc[c] = "zipping" => opened[c]
    /\ pc[c] = "drop" => Exists(ZipOf(p))

\* A backup that nothing under way will take away.
Good(p) ==
    /\ InFamily(p) /\ Whole(body[p]) /\ ~Condemned(p)
    /\ \A c \in Callers : pc[c] \in {"zip", "zipping", "drop"} /\ dest[c] = p => Replaced(c, p)

\* Something counts on a backup that stays.
Relied == safe \/ \E e \in Callers : Deleting(e)

GoodInv == Relied /\ Ample /\ ~crossed => \E p \in Path : Good(p)

-----------------------------------------------------------------------------
(* The order of the files *)

LEMMA StampOrder ==
    ASSUME DirectoryOK, OrderInv, NEW p \in Path, NEW b \in Content, b # Absent, Write(p, b)
    PROVE  OrderInv'
<1>1. \A q \in Path : body'[q] = IF q = p THEN b ELSE body[q]
  BY DEF Write, DirectoryOK
<1>2. Exists(p)' /\ \A q \in Path : q # p => (Exists(q)' <=> Exists(q))
  BY <1>1 DEF Exists
<1>3. later \in [Path -> SUBSET Path]
  BY DEF DirectoryOK
<1>4. CASE later' = [q \in Path |-> IF q = p \/ ~Exists(q) THEN {} ELSE later[q] \union {p}]
  <2>1. \A q \in Path : later'[q] = IF q = p \/ ~Exists(q) THEN {} ELSE later[q] \union {p}
    BY <1>4
  <2> SUFFICES ASSUME NEW x \in Path
               PROVE  /\ later'[x] # {} => Exists(x)'
                      /\ x \notin later'[x]
                      /\ \A q \in later'[x] : Exists(q)' /\ later'[q] \subseteq later'[x]
                      /\ \A q \in Path : Exists(x)' /\ Exists(q)' /\ x # q =>
                           x \in later'[q] \/ q \in later'[x]
    BY DEF OrderInv
  <2>2. (later'[x] # {} => Exists(x)') /\ x \notin later'[x]
    <3>1. x \notin later[x]
      BY DEF OrderInv
    <3> QED
      BY <1>2, <2>1, <3>1
  <2>3. ASSUME NEW q \in later'[x] PROVE Exists(q)' /\ later'[q] \subseteq later'[x]
    <3>1. x # p /\ Exists(x) /\ later'[x] = later[x] \union {p} /\ q \in Path
      BY <1>3, <2>1, <2>3
    <3>2. CASE q = p
      BY <1>2, <2>1, <3>2
    <3>3. CASE q # p
      <4>1. Exists(q) /\ later[q] \subseteq later[x]
        BY <2>3, <3>1, <3>3 DEF OrderInv
      <4> QED
        BY <1>2, <2>1, <3>1, <3>3, <4>1
    <3> QED
      BY <3>2, <3>3
  <2>4. ASSUME NEW q \in Path, Exists(x)', Exists(q)', x # q
        PROVE  x \in later'[q] \/ q \in later'[x]
    BY <1>2, <2>1, <2>4 DEF OrderInv
  <2> QED
    BY <2>2, <2>3, <2>4
<1>5. ASSUME NEW r \in Path, Exists(r), r # p,
             later' = [q \in Path |-> IF q = p THEN (later[r] \union {r}) \ {p}
                                      ELSE IF q \in (later[r] \union {r}) \ {p} \/ ~Exists(q)
                                      THEN later[q] \ {p}
                                      ELSE later[q] \union {p}]
      PROVE  OrderInv'
  <2>1. PICK after \in SUBSET Path : after = (later[r] \union {r}) \ {p}
    BY <1>3
  <2>2. \A q \in Path : later'[q] = IF q = p THEN after
                                    ELSE IF q \in after \/ ~Exists(q) THEN later[q] \ {p}
                                    ELSE later[q] \union {p}
    BY <1>5, <2>1
  <2>3. /\ \A q \in after : Exists(q) /\ q # p /\ later[q] \ {p} \subseteq after
        /\ \A q \in Path : q # p /\ Exists(q) /\ q \notin after => after \subseteq later[q]
    <3>1. ASSUME NEW q \in after PROVE Exists(q) /\ q # p /\ later[q] \ {p} \subseteq after
      BY <1>3, <1>5, <2>1, <3>1 DEF OrderInv
    <3>2. ASSUME NEW q \in Path, q # p, Exists(q), q \notin after PROVE after \subseteq later[q]
      <4>1. q # r /\ q \notin later[r]
        BY <2>1, <3>2
      <4>2. r \in later[q] /\ later[r] \subseteq later[q]
        BY <1>5, <3>2, <4>1 DEF OrderInv
      <4> QED
        BY <2>1, <4>2
    <3> QED
      BY <3>1, <3>2
  <2> SUFFICES ASSUME NEW x \in Path
               PROVE  /\ later'[x] # {} => Exists(x)'
                      /\ x \notin later'[x]
                      /\ \A q \in later'[x] : Exists(q)' /\ later'[q] \subseteq later'[x]
                      /\ \A q \in Path : Exists(x)' /\ Exists(q)' /\ x # q =>
                           x \in later'[q] \/ q \in later'[x]
    BY DEF OrderInv
  <2>4. (later'[x] # {} => Exists(x)') /\ x \notin later'[x]
    <3>1. x \notin later[x] /\ (later[x] # {} => Exists(x)) /\ p \notin after
      BY <2>1 DEF OrderInv
    <3> QED
      BY <1>2, <2>2, <3>1
  <2>5. ASSUME NEW q \in later'[x] PROVE Exists(q)' /\ later'[q] \subseteq later'[x]
    <3>1. q \in Path
      BY <1>3, <2>2, <2>5
    <3>2. CASE x = p
      BY <1>2, <2>2, <2>3, <2>5, <3>1, <3>2
    <3>3. CASE x # p /\ (x \in after \/ ~Exists(x))
      <4>1. q \in later[x] /\ q # p /\ later'[x] = later[x] \ {p}
        BY <2>2, <2>5, <3>3
      <4>2. Exists(x) /\ Exists(q) /\ later[q] \subseteq later[x]
        BY <4>1 DEF OrderInv
      <4>3. q \in after
        BY <2>3, <3>3, <4>1, <4>2
      <4> QED
        BY <1>2, <2>2, <3>1, <4>1, <4>2, <4>3
    <3>4. CASE x # p /\ x \notin after /\ Exists(x)
      <4>1. later'[x] = later[x] \union {p} /\ after \subseteq later[x]
        BY <2>2, <2>3, <3>4
      <4>2. CASE q = p
        BY <1>2, <2>2, <4>1, <4>2
      <4>3. CASE q # p
        <5>1. q \in later[x]
          BY <2>5, <4>1, <4>3
        <5>2. Exists(q) /\ later[q] \subseteq later[x]
          BY <5>1 DEF OrderInv
        <5> QED
          BY <1>2, <2>2, <3>1, <4>1, <4>3, <5>2
      <4> QED
        BY <4>2, <4>3
    <3> QED
      BY <3>2, <3>3, <3>4
  <2>6. ASSUME NEW q \in Path, Exists(x)', Exists(q)', x # q
        PROVE  x \in later'[q] \/ q \in later'[x]
    <3>1. CASE x = p \/ q = p
      BY <1>2, <2>2, <2>6, <3>1
    <3>2. CASE x # p /\ q # p
      <4>1. x \in later[q] \/ q \in later[x]
        BY <1>2, <2>6, <3>2 DEF OrderInv
      <4> QED
        BY <2>2, <3>2, <4>1
    <3> QED
      BY <3>1, <3>2
  <2> QED
    BY <2>4, <2>5, <2>6
<1> QED
  BY <1>4, <1>5 DEF Write, Stamp

LEMMA UnlinkOrder ==
    ASSUME DirectoryOK, OrderInv, NEW p \in Path, Unlink(p)
    PROVE  OrderInv'
<1>1. /\ \A q \in Path : body'[q] = IF q = p THEN Absent ELSE body[q]
      /\ \A q \in Path : later'[q] = IF q = p THEN {} ELSE later[q] \ {p}
  BY DEF Unlink, DirectoryOK
<1>2. ~Exists(p)' /\ \A q \in Path : q # p => (Exists(q)' <=> Exists(q))
  BY <1>1 DEF Exists
<1>3. later \in [Path -> SUBSET Path]
  BY DEF DirectoryOK
<1> SUFFICES ASSUME NEW x \in Path
             PROVE  /\ later'[x] # {} => Exists(x)'
                    /\ x \notin later'[x]
                    /\ \A q \in later'[x] : Exists(q)' /\ later'[q] \subseteq later'[x]
                    /\ \A q \in Path : Exists(x)' /\ Exists(q)' /\ x # q =>
                         x \in later'[q] \/ q \in later'[x]
  BY DEF OrderInv
<1>4. (later'[x] # {} => Exists(x)') /\ x \notin later'[x]
  BY <1>1, <1>2 DEF OrderInv
<1>5. ASSUME NEW q \in later'[x] PROVE Exists(q)' /\ later'[q] \subseteq later'[x]
  <2>1. q \in later[x] /\ q # p /\ q \in Path /\ later'[x] = later[x] \ {p}
    BY <1>1, <1>3, <1>5
  <2>2. Exists(q) /\ later[q] \subseteq later[x]
    BY <2>1 DEF OrderInv
  <2> QED
    BY <1>1, <1>2, <2>1, <2>2
<1>6. ASSUME NEW q \in Path, Exists(x)', Exists(q)', x # q
      PROVE  x \in later'[q] \/ q \in later'[x]
  BY <1>1, <1>2, <1>6 DEF OrderInv
<1> QED
  BY <1>4, <1>5, <1>6

\* The files and their times change by one write or one removal at most.
LEMMA OrderStep ==
    ASSUME TypeOK, PathsInv, OrderInv, [Next]_vars
    PROVE  OrderInv'
<1>0. DirectoryOK
  BY DEF TypeOK
<1>a. UNCHANGED <<body, later>> => OrderInv'
  BY DEF OrderInv, Exists
<1>b. ASSUME NEW c \in Callers, pc[c] \notin {"idle", "list", "sort", "rotate"}
      PROVE  /\ dest[c] \in Path /\ Target(c) \in Path
             /\ body[Target(c)] \in Content /\ read[c] \in Content \ {Absent}
  BY <1>0, <1>b, TargetPath DEF PathsInv, TypeOK, CallOK, DirectoryOK
<1>c. Partial \in Content /\ Partial # Absent
  BY DEF Content, Partial, Absent
<1>1. ASSUME NEW c \in Callers, Calls(c) PROVE OrderInv'
  BY <1>1, <1>a DEF Calls, Call, CallByOperator, CallPrune, Refuse, Begin, directory
<1>2. ASSUME NEW c \in Callers, UnlinkTarget(c) \/ CopyFails(c) \/ ZipFails(c) PROVE OrderInv'
  <2>1. pc[c] \notin {"idle", "list", "sort", "rotate"} /\ (Unlink(Target(c)) \/ Unlink(dest[c]))
    BY <1>2 DEF UnlinkTarget, CopyFails, ZipFails, Goto
  <2> QED
    BY <1>0, <1>b, <2>1, UnlinkOrder
<1>3. ASSUME NEW c \in Callers, TouchTarget(c) PROVE OrderInv'
  <2>1. pc[c] \notin {"idle", "list", "sort", "rotate"}
    BY <1>3 DEF TouchTarget, Goto
  <2>2. PICK b \in Content \ {Absent} : Write(Target(c), b)
    BY <1>3, <1>b, <1>c, <2>1 DEF TouchTarget, Exists
  <2> QED
    BY <1>0, <1>b, <2>1, <2>2, StampOrder
<1>4. ASSUME NEW c \in Callers, Open(c) \/ Zip(c) PROVE OrderInv'
  <2>1. pc[c] \notin {"idle", "list", "sort", "rotate"}
        /\ (UNCHANGED <<body, later>> \/ Write(Target(c), Partial))
    BY <1>4 DEF Open, Zip, Goto, OpenTarget
  <2> QED
    BY <1>0, <1>a, <1>b, <1>c, <2>1, StampOrder
<1>5. ASSUME NEW c \in Callers, Copy(c) PROVE OrderInv'
  <2>1. pc[c] \notin {"idle", "list", "sort", "rotate"}
        /\ (UNCHANGED <<body, later>> \/ Write(dest[c], Partial))
    BY <1>5 DEF Copy, Goto
  <2> QED
    BY <1>0, <1>a, <1>b, <1>c, <2>1, StampOrder
<1>6. ASSUME NEW c \in Callers, Copied(c) \/ Zipped(c) PROVE OrderInv'
  <2>1. pc[c] \notin {"idle", "list", "sort", "rotate"}
        /\ (UNCHANGED <<body, later>> \/ Write(Target(c), read[c]))
    BY <1>6 DEF Copied, Zipped, Goto, WriteTarget
  <2> QED
    BY <1>0, <1>a, <1>b, <2>1, StampOrder
<1>7. ASSUME NEW c \in Callers, Drop(c) PROVE OrderInv'
  <2>1. pc[c] = "drop" /\ (UNCHANGED <<body, later>> \/ Unlink(dest[c]))
    BY <1>7 DEF Drop, directory
  <2> QED
    BY <1>0, <1>a, <1>b, <2>1, UnlinkOrder
<1>8. ASSUME NEW c \in Callers, Rotate(c) PROVE OrderInv'
  <2>1. PICK p \in names[c] : Unlink(p)
    BY <1>8 DEF Rotate
  <2>2. p \in Path
    BY <2>1 DEF TypeOK, CallOK
  <2> QED
    BY <1>0, <2>1, <2>2, UnlinkOrder
<1>9. ASSUME NEW c \in Callers,
             \/ Connect(c) \/ CopyRaises(c) \/ SetupFails(c)
             \/ List(c) \/ Sort(c) \/ Stat(c) \/ Crash(c)
      PROVE  OrderInv'
  BY <1>9, <1>a DEF Connect, CopyRaises, SetupFails, List, Sort, Stat, Crash, directory
<1>10. CASE Commit \/ Damage \/ Repair \/ UNCHANGED vars
  BY <1>10, <1>a DEF Commit, Damage, Repair, vars, directory
<1> QED
  BY <1>1, <1>2, <1>3, <1>4, <1>5, <1>6, <1>7, <1>8, <1>9, <1>10
  DEF Next, Copies, Compresses, Prunes, Environment

-----------------------------------------------------------------------------
(* Counting *)

\* There are finitely many automatic backups.
LEMMA FamilyFinite == IsFiniteSet({p \in Path : InFamily(p)})
<1> DEFINE F(z) == {p \in Path : InFamily(p) /\ p.zip = z}
           g(z) == [n \in Automatic |-> [name |-> n, zip |-> z]]
<1>1. IsFiniteSet(Automatic)
  BY FS_Interval, Bounds_Assumption DEF Automatic
<1>2. ASSUME NEW z \in BOOLEAN PROVE IsFiniteSet(F(z))
  <2>1. g(z) \in [Automatic -> F(z)]
    BY DEF Path, InFamily
  <2>2. ASSUME NEW p \in F(z) PROVE \E n \in Automatic : g(z)[n] = p
    BY <2>2 DEF Path, InFamily
  <2>3. g(z) \in Surjection(Automatic, F(z))
    BY <2>1, <2>2 DEF Surjection
  <2> QED
    BY <1>1, <2>3, FS_Surjection
<1>3. {p \in Path : InFamily(p)} = F(TRUE) \union F(FALSE)
  BY DEF Path
<1>4. IsFiniteSet(F(TRUE) \union F(FALSE))
  BY <1>2, FS_Union
<1> QED
  BY <1>3, <1>4

\* Among some files there is one that none of them is later than.
LEMMA LatestOf ==
    ASSUME DirectoryOK, OrderInv, NEW K \in SUBSET Path, IsFiniteSet(K), K # {}
    PROVE  \E q \in K : K \intersect later[q] = {}
<1> DEFINE T == {K \intersect later[q] : q \in K}
<1>1. IsWellFoundedOn(StrictSubsetOrdering(K), SUBSET K)
  BY FS_StrictSubsetOrderingWellFounded, FS_FiniteSubsetsOfFinite
<1>2. T \subseteq SUBSET K /\ T # {}
  OBVIOUS
<1>3. PICK x \in T : \A y \in T : <<y, x>> \notin StrictSubsetOrdering(K)
  BY <1>1, <1>2, WFMin
<1>4. PICK q \in K : x = K \intersect later[q]
  BY <1>3
<1>5. ASSUME NEW z \in K \intersect later[q] PROVE FALSE
  <2>1. later[z] \subseteq later[q] /\ z \notin later[z]
    BY <1>5 DEF OrderInv
  <2>2. K \intersect later[z] \in T /\ K \intersect later[z] \subseteq x /\ K \intersect later[z] # x
    BY <1>4, <1>5, <2>1
  <2>3. <<K \intersect later[z], x>> \in StrictSubsetOrdering(K)
    BY <2>2 DEF StrictSubsetOrdering
  <2> QED
    BY <1>3, <2>2, <2>3
<1> QED
  BY <1>5

\* A file more than there are left behind or named one by one.
LEMMA OneMore ==
    ASSUME NEW L, NEW S, NEW C, IsFiniteSet(S), IsFiniteSet(C), IsFiniteSet(L),
           NEW f, f = [e \in C |-> f[e]], Cardinality(S) + Cardinality(C) < Cardinality(L)
    PROVE  \E h \in L : h \notin S /\ \A e \in C : h # f[e]
<1> DEFINE R == {f[e] : e \in C}
<1>1. f \in Surjection(C, R)
  BY DEF Surjection
<1>2. IsFiniteSet(R) /\ Cardinality(R) <= Cardinality(C)
  BY <1>1, FS_Surjection
<1>3. /\ Cardinality(S) \in Nat /\ Cardinality(C) \in Nat /\ Cardinality(L) \in Nat
      /\ Cardinality(R) \in Nat /\ Cardinality(S \intersect R) \in Nat
  BY <1>2, FS_CardinalityType, FS_Intersection
<1>4. IsFiniteSet(S \union R) /\ Cardinality(S \union R) <= Cardinality(S) + Cardinality(C)
  <2> HIDE DEF R
  <2>1. /\ IsFiniteSet(S \union R)
        /\ Cardinality(S \union R) = Cardinality(S) + Cardinality(R) - Cardinality(S \intersect R)
    BY <1>2, FS_Union
  <2> QED
    BY <1>2, <1>3, <2>1
<1>5. ~(L \subseteq S \union R)
  <2>1. SUFFICES ASSUME L \subseteq S \union R PROVE FALSE
    OBVIOUS
  <2>2. Cardinality(L) <= Cardinality(S \union R) /\ Cardinality(S \union R) \in Nat
    BY <1>4, <2>1, FS_Subset, FS_CardinalityType
  <2> QED
    BY <1>3, <1>4, <2>2
<1> QED
  BY <1>5

\* A rotation that condemns files, while no other is deleting, spares a backup
\* that nothing under way will take away, if every retention is ample.
LEMMA Spared ==
    ASSUME TypeOK, PathsInv, OwnInv, PartialsAreOwned, OrderInv,
           NEW d \in Callers, Sort(d), names'[d] # {}, pc'[d] = "rotate",
           \A e \in Callers \ {d} : ~Deleting(e), Ample'
    PROVE  \E p \in Path : Good(p)'
<1>0. DirectoryOK /\ left \subseteq Path /\ names \in [Callers -> SUBSET Path] /\ pc[d] = "sort"
  BY DEF TypeOK, CallOK, SeenOK, Sort
<1>1. \A p \in names[d] : Exists(p)
  BY ReturnEffect DEF Sort
<1>2. PICK keep \in Retentions \intersect Nat :
        /\ names' = [names EXCEPT ![d] = Doomed(d, keep)]
        /\ least' = IF keep < least THEN keep ELSE least
  BY <1>1 DEF Sort
<1>3. /\ UNCHANGED <<body, later, opened, left, dest, read>>
      /\ \A e \in Callers \ {d} : pc'[e] = pc[e] /\ names'[e] = names[e]
  BY <1>1, <1>2 DEF Sort, Goto, directory, arguments, TypeOK, CallOK
<1>4. PICK K \in SUBSET names[d] : K = names'[d] /\ K = Doomed(d, keep)
  BY <1>0, <1>2 DEF Doomed
<1>5. names[d] \subseteq {p \in Path : InFamily(p)}
  BY DEF PathsInv, PathInv
<1>6. PICK q \in K : K \intersect later[q] = {}
  <2>1. IsFiniteSet(K) /\ K \subseteq Path
    BY <1>4, <1>5, FamilyFinite, FS_Subset
  <2> QED
    BY <1>0, <1>4, <2>1, LatestOf
<1> DEFINE L == names[d] \intersect later[q]
           S == {p \in left : InFamily(p)}
           C == Callers \ {d}
           Lost(e) == /\ pc[e] \in {"zip", "zipping", "drop"}
                      /\ \/ ZipOf(dest[e]) \in K
                         \/ pc[e] = "zipping" /\ ~opened[e]
                         \/ pc[e] = "drop" /\ ~Exists(ZipOf(dest[e]))
           f == [e \in C |-> IF Lost(e) THEN dest[e] ELSE Target(e)]
<1>7. PICK h \in L : h \notin S /\ \A e \in C : h # f[e]
  <2>1. IsFiniteSet(L) /\ IsFiniteSet(S) /\ IsFiniteSet(C)
    <3>1. L \subseteq {p \in Path : InFamily(p)} /\ S \subseteq {p \in Path : InFamily(p)}
      BY <1>0, <1>5
    <3> QED
      BY <3>1, FamilyFinite, FS_Subset, FS_Difference, Callers_Assumption
  <2>2. Cardinality(L) >= keep /\ Cardinality(L) \in Nat
    BY <1>4, <2>1, FS_CardinalityType DEF Doomed
  <2>3. Cardinality(C) = Cardinality(Callers) - 1 /\ Cardinality(Callers) \in Nat
    BY Callers_Assumption, FS_RemoveElement, FS_CardinalityType
  <2>4. Cardinality(S) + Cardinality(Callers) <= keep
    <3>1. Cardinality(S) + Cardinality(Callers) <= least'
      BY <1>3 DEF Ample, InFamily
    <3>2. least' <= keep /\ least' \in Int
      BY <1>2, Retentions_Assumption, Bounds_Assumption DEF TypeOK, SeenOK, KeepAll
    <3>3. Cardinality(S) \in Nat
      BY <2>1, FS_CardinalityType
    <3> QED
      BY <2>3, <3>1, <3>2, <3>3
  <2>5. Cardinality(S) + Cardinality(C) < Cardinality(L)
    <3>1. Cardinality(S) \in Nat
      BY <2>1, FS_CardinalityType
    <3> HIDE DEF L, S, C
    <3> QED
      BY <2>2, <2>3, <2>4, <3>1
  <2>6. f = [e \in C |-> f[e]]
    OBVIOUS
  <2> HIDE DEF L, S, C, f
  <2> QED
    BY <2>1, <2>5, <2>6, OneMore
<1>8. h \in Path /\ InFamily(h) /\ Exists(h) /\ h \notin K /\ h \notin left
  BY <1>1, <1>5, <1>6, <1>7
<1>9. \A e \in C : h # IF Lost(e) THEN dest[e] ELSE Target(e)
  BY <1>7
<1>10. Whole(body[h])
  <2>1. SUFFICES ASSUME body[h] \in {Partial, Blank} PROVE FALSE
    BY <1>0, <1>8 DEF DirectoryOK, Exists, Content, Whole
  <2>2. PICK e \in Callers : pc[e] # "idle" /\ h = Target(e)
    BY <1>8, <2>1 DEF PartialsAreOwned
  <2>3. CASE e = d
    <3>1. h = dest[d] /\ Busy(d)
      BY <1>0, <1>8, <2>2, <2>3 DEF Target, Zipping, Busy
    <3>2. Kept(d, h)
      BY <1>0, <3>1 DEF OwnInv, Own
    <3> QED
      BY <1>8, <2>1, <3>2 DEF Kept, Sound, Exists, Partial, Snapshot, Blank
  <2>4. CASE e # d
    <3>1. Lost(e) /\ h # dest[e] /\ Zipping(e) /\ h = ZipOf(dest[e])
      BY <1>9, <2>2, <2>4 DEF Target
    <3>2. pc[e] = "zipping" /\ ~opened[e]
      BY <1>8, <3>1 DEF Zipping
    <3>3. Busy(e)
      <4>1. dest[e] \in Path \union {NoPath}
        BY DEF TypeOK, CallOK
      <4> QED
        BY <1>8, <3>1, <3>2, <4>1, PathFacts DEF Busy, InFamily
    <3> QED
      BY <1>8, <3>1, <3>2, <3>3 DEF OwnInv, Own, Exists
  <2> QED
    BY <2>3, <2>4
<1>11. \A p \in Path : Condemned(p)' => p \in K
  <2>1. \A e \in Callers : pc'[e] = "rotate" => names'[e] \subseteq K
    BY <1>3, <1>4 DEF Deleting
  <2> QED
    BY <2>1 DEF Condemned
<1>12. ASSUME NEW e \in Callers, pc'[e] \in {"zip", "zipping", "drop"}, dest'[e] = h
       PROVE  Replaced(e, h)'
  <2>1. e # d /\ pc[e] \in {"zip", "zipping", "drop"} /\ dest[e] = h
    BY <1>3, <1>12
  <2>2. ~Lost(e)
    BY <1>9, <2>1
  <2>3. ZipOf(h) \in Path
    BY <1>8, PathFacts
  <2> QED
    BY <1>3, <1>11, <2>1, <2>2, <2>3 DEF Replaced, Exists, ZipOf
<1> QED
  BY <1>3, <1>8, <1>10, <1>11, <1>12 DEF Good, InFamily

-----------------------------------------------------------------------------
(* What a step does to the files of others *)

\* The step is c's: it writes its own files, and removes those it has condemned.
Touches(c) ==
    /\ \A p \in Path : p \notin {dest[c], ZipOf(dest[c])} =>
         \/ body'[p] = body[p] /\ \A d \in Callers : Target(d) = p => (opened'[d] <=> opened[d])
         \/ body'[p] = Absent /\ pc[c] = "rotate" /\ p \in names[c]
    /\ \A d \in Callers \ {c} :
         pc'[d] = pc[d] /\ dest'[d] = dest[d] /\ read'[d] = read[d] /\ names'[d] = names[d]
    /\ \A p \in names'[c] : p \in names[c] \/ Exists(p)

CallerStep(c) ==
    Calls(c) \/ Copies(c) \/ Compresses(c) \/ Prunes(c) \/ Stat(c) \/ Crash(c)

\* A step that removes one file, and leaves the lists alone or ends the call.
LEMMA UnlinkTouches ==
    ASSUME DirectoryOK, NEW c \in Callers, NEW p \in Path, Unlink(p),
           p \in {dest[c], ZipOf(dest[c])} \/ (pc[c] = "rotate" /\ p \in names[c]),
           \A d \in Callers \ {c} :
             pc'[d] = pc[d] /\ dest'[d] = dest[d] /\ read'[d] = read[d] /\ names'[d] = names[d],
           names'[c] \subseteq names[c]
    PROVE  Touches(c)
<1>1. /\ \A q \in Path : body'[q] = IF q = p THEN Absent ELSE body[q]
      /\ \A d \in Callers : opened'[d] = (opened[d] /\ Target(d) # p)
  BY UnlinkEffect
<1>2. ASSUME NEW q \in Path, q \notin {dest[c], ZipOf(dest[c])}
      PROVE  \/ body'[q] = body[q] /\ \A d \in Callers : Target(d) = q => (opened'[d] <=> opened[d])
             \/ body'[q] = Absent /\ pc[c] = "rotate" /\ q \in names[c]
  <2>1. CASE q = p
    BY <1>1, <1>2, <2>1
  <2>2. CASE q # p
    BY <1>1, <2>2
  <2> QED
    BY <2>1, <2>2
<1> QED
  BY <1>2 DEF Touches

LEMMA Touching ==
    ASSUME TypeOK, PathsInv, OwnInv, NEW c \in Callers, CallerStep(c)
    PROVE  Touches(c)
<1>0. DirectoryOK
  BY DEF TypeOK
<1>b. /\ Partial \in Content
      /\ pc[c] \notin {"idle", "list", "sort", "rotate"} =>
           /\ dest[c] \in Path /\ ZipOf(dest[c]) \in Path /\ Target(c) \in {dest[c], ZipOf(dest[c])}
           /\ Target(c) \in Path /\ body[Target(c)] \in Content /\ read[c] \in Content
  <2>1. Partial \in Content
    BY DEF Content
  <2> QED
    BY <1>0, <2>1, TwoNames DEF TypeOK, CallOK, DirectoryOK
<1>1. CASE UNCHANGED <<body, opened>>
           /\ \/ Calls(c) \/ Connect(c) \/ CopyRaises(c) \/ SetupFails(c)
              \/ List(c) \/ Sort(c) \/ Stat(c) \/ Drop(c)
  <2>1. \A d \in Callers \ {c} :
          pc'[d] = pc[d] /\ dest'[d] = dest[d] /\ read'[d] = read[d] /\ names'[d] = names[d]
    <3>1. CASE Calls(c)
      BY <3>1, ReturnEffect
      DEF Calls, Call, CallByOperator, CallPrune, Refuse, Begin, Goto, TypeOK, CallOK
    <3>2. CASE CopyRaises(c) \/ SetupFails(c) \/ Stat(c)
      BY <3>2, ReturnEffect DEF CopyRaises, SetupFails, Stat
    <3>3. CASE List(c) \/ Sort(c)
      BY <3>3, ReturnEffect DEF List, Sort, Goto, arguments, TypeOK, CallOK
    <3>4. CASE Drop(c)
      BY <3>4, ReturnEffect DEF Drop, TypeOK, CallOK
    <3>5. CASE Connect(c)
      BY <3>5 DEF Connect, Goto, locals, arguments, TypeOK, CallOK
    <3> QED
      BY <1>1, <3>1, <3>2, <3>3, <3>4, <3>5
  <2>2. \A p \in names'[c] : p \in names[c] \/ Exists(p)
    <3>1. CASE Calls(c)
      BY <3>1, ReturnEffect DEF Calls, Call, CallByOperator, CallPrune, Refuse, Begin
    <3>2. CASE CopyRaises(c) \/ SetupFails(c) \/ Stat(c)
      BY <3>2, ReturnEffect DEF CopyRaises, SetupFails, Stat
    <3>3. CASE List(c) \/ Sort(c)
      BY <3>3, ReturnEffect DEF List, Sort, Doomed, TypeOK, CallOK
    <3>4. CASE Drop(c)
      BY <3>4, ReturnEffect DEF Drop
    <3>5. CASE Connect(c)
      BY <3>5 DEF Connect, locals
    <3> QED
      BY <1>1, <3>1, <3>2, <3>3, <3>4, <3>5
  <2> QED
    BY <1>1, <2>1, <2>2 DEF Touches
<1>2. CASE UnlinkTarget(c)
  <2>1. pc[c] \in {"unlink", "unlinkZip"} /\ Unlink(Target(c)) /\ UNCHANGED <<dest, read, names>>
        /\ \A d \in Callers \ {c} : pc'[d] = pc[d]
    BY <1>2 DEF UnlinkTarget, Goto, locals, arguments, TypeOK, CallOK
  <2> QED
    BY <1>0, <1>b, <2>1, UnlinkTouches
<1>3. CASE TouchTarget(c)
  <2>1. pc[c] \in {"touch", "touchZip"} /\ UNCHANGED <<dest, read, names, opened>>
        /\ \A d \in Callers \ {c} : pc'[d] = pc[d]
    BY <1>3 DEF TouchTarget, Goto, locals, arguments, TypeOK, CallOK
  <2>2. \A q \in Path : q # Target(c) => body'[q] = body[q]
    BY <1>0, <1>3, <1>b, <2>1 DEF TouchTarget, Write, DirectoryOK
  <2> QED
    BY <1>b, <2>1, <2>2 DEF Touches
<1>4. CASE Open(c) \/ Zip(c)
  <2>1. pc[c] \in {"open", "zip"} /\ UNCHANGED <<dest, names>> /\ OpenTarget(c)
        /\ \A d \in Callers \ {c} : pc'[d] = pc[d] /\ read'[d] = read[d]
    BY <1>4 DEF Open, Zip, Goto, locals, arguments, TypeOK, CallOK
  <2>2. /\ \A q \in Path : q # Target(c) => body'[q] = body[q]
        /\ \A d \in Callers \ {c} : opened'[d] = opened[d]
    BY <1>0, <1>b, <2>1, OpenEffect
  <2> QED
    BY <1>b, <2>1, <2>2 DEF Touches
<1>5. CASE Copy(c)
  <2>1. pc[c] = "copy" /\ UNCHANGED <<dest, names, opened>>
        /\ \A d \in Callers \ {c} : pc'[d] = pc[d] /\ read'[d] = read[d]
    BY <1>5 DEF Copy, Goto, arguments, TypeOK, CallOK
  <2>2. \A q \in Path : q # dest[c] => body'[q] = body[q]
    BY <1>0, <1>5, <1>b, <2>1 DEF Copy, Write, DirectoryOK
  <2> QED
    BY <1>b, <2>1, <2>2 DEF Touches
<1>6. CASE Copied(c) \/ Zipped(c)
  <2>1. pc[c] \in {"copying", "zipping"} /\ UNCHANGED <<dest, names, read>> /\ WriteTarget(c, read[c])
        /\ \A d \in Callers \ {c} : pc'[d] = pc[d]
    BY <1>6 DEF Copied, Zipped, Goto, locals, arguments, TypeOK, CallOK
  <2>2. /\ \A q \in Path : q # Target(c) => body'[q] = body[q]
        /\ \A d \in Callers \ {c} : opened'[d] = opened[d]
    BY <1>0, <1>b, <2>1, WriteTargetEffect
  <2> QED
    BY <1>b, <2>1, <2>2 DEF Touches
<1>7. CASE CopyFails(c) \/ ZipFails(c)
  <2>1. PICK p \in {dest[c], Target(c)} : Unlink(p)
    BY <1>7 DEF CopyFails, ZipFails
  <2>2. pc[c] \notin {"idle", "list", "sort", "rotate"} /\ Return(c)
    BY <1>7 DEF CopyFails, ZipFails
  <2>3. names'[c] = {} /\ \A d \in Callers \ {c} :
          pc'[d] = pc[d] /\ dest'[d] = dest[d] /\ read'[d] = read[d] /\ names'[d] = names[d]
    BY <2>2, ReturnEffect
  <2> QED
    BY <1>0, <1>b, <2>1, <2>2, <2>3, UnlinkTouches
<1>8. CASE Drop(c) /\ Exists(dest[c])
  <2>1. pc[c] = "drop" /\ Unlink(dest[c]) /\ UNCHANGED <<read, names>>
        /\ \A d \in Callers \ {c} : pc'[d] = pc[d] /\ dest'[d] = dest[d]
    BY <1>8 DEF Drop, TypeOK, CallOK
  <2> QED
    BY <1>0, <1>b, <2>1, UnlinkTouches
<1>9. CASE Rotate(c)
  <2>1. PICK p \in names[c] : Unlink(p) /\ names' = [names EXCEPT ![c] = names[c] \ {p}]
    BY <1>9 DEF Rotate
  <2>2. p \in Path /\ names'[c] \subseteq names[c] /\ \A d \in Callers \ {c} : names'[d] = names[d]
    BY <2>1 DEF TypeOK, CallOK
  <2>3. pc[c] = "rotate" /\ UNCHANGED <<pc, dest, read>>
    BY <1>9 DEF Rotate, arguments
  <2> QED
    BY <1>0, <2>1, <2>2, <2>3, UnlinkTouches
<1>10. CASE Crash(c)
  <2>1. body' = body /\ \A d \in Callers \ {c} : opened'[d] = opened[d]
    BY <1>0, <1>10 DEF Crash, DirectoryOK
  <2>2. names'[c] = {} /\ \A d \in Callers \ {c} :
          pc'[d] = pc[d] /\ dest'[d] = dest[d] /\ read'[d] = read[d] /\ names'[d] = names[d]
    BY <1>10, ReturnEffect DEF Crash
  <2>3. Target(c) \in {dest[c], ZipOf(dest[c])}
    BY DEF Target
  <2> QED
    BY <2>1, <2>2, <2>3 DEF Touches
<1> QED
  <2>1. ASSUME \/ Calls(c) \/ Connect(c) \/ CopyRaises(c) \/ SetupFails(c)
               \/ List(c) \/ Sort(c) \/ Stat(c) \/ (Drop(c) /\ ~Exists(dest[c]))
        PROVE  UNCHANGED <<body, opened>>
    BY <2>1
    DEF Calls, Call, CallByOperator, CallPrune, Refuse, Begin, Connect, CopyRaises, SetupFails,
        List, Sort, Stat, Drop, directory
  <2> QED
    BY <1>1, <1>2, <1>3, <1>4, <1>5, <1>6, <1>7, <1>8, <1>9, <1>10, <2>1
    DEF CallerStep, Copies, Compresses, Prunes

-----------------------------------------------------------------------------
(* The two files of a backup *)

\* Nobody lists a file that is not there.
LEMMA UnusedStays ==
    ASSUME NEW c \in Callers, Touches(c), NEW p \in Path, Unused(p),
           body'[p] = body[p] \/ body'[p] = Absent
    PROVE  Unused(p)'
BY DEF Touches, Unused, Exists

LEMMA OthersFiles ==
    ASSUME TypeOK, PathsInv, OwnInv, FilesInv, NEW c \in Callers, Touches(c),
           NEW d \in Callers \ {c}, Busy(d)'
    PROVE  Files(d)'
<1>1. Busy(d) /\ Files(d) /\ pc'[d] = pc[d] /\ dest'[d] = dest[d] /\ read'[d] = read[d]
  BY DEF Touches, Busy, FilesInv
<1>2. PICK p \in Path : p = dest[d] /\ body'[p] \in {body[p], Absent}
  BY <1>1, Apart DEF Touches
<1>3. PICK z \in Path : z = ZipOf(dest[d]) /\ z = ZipOf(p) /\ body'[z] \in {body[z], Absent}
  BY <1>1, <1>2, Apart, PathFacts DEF Touches
<1>4. Unused(z) => Unused(z)'
  BY <1>3, UnusedStays
<1>5. ZipOf(dest[d])' = z /\ dest[d]' = p
  BY <1>1, <1>2, <1>3 DEF ZipOf
<1>6. ~Whole(Absent)
  BY DEF Whole, Absent, Snapshot
<1> QED
  BY <1>1, <1>2, <1>3, <1>4, <1>5, <1>6 DEF Files, Exists, Unused

\* A step of c that leaves its call under the same name.
LEMMA FilesOfStep ==
    ASSUME TypeOK, PathsInv, OwnInv, NamesInv, FilesInv, NEW c \in Callers, CallerStep(c), Busy(c)'
    PROVE  Files(c)'
<1>0. DirectoryOK /\ Touches(c)
  BY Touching DEF TypeOK
<1>w. ~Whole(Absent) /\ ~Whole(Partial) /\ Absent # Partial
  BY DEF Whole, Absent, Partial, Snapshot
<1>1. CASE Calls(c)
  <2>1. CASE Call(c)
    <3>1. /\ pc'[c] = "unlink" /\ dest'[c] = [name |-> serial + 1, zip |-> FALSE]
          /\ serial + 1 \in Automatic /\ serial + 1 > serial /\ UNCHANGED <<body, names>>
      BY <2>1, Bounds_Assumption DEF Call, Number, Begin, Goto, directory, TypeOK, CallOK, Automatic
    <3>2. PICK p \in Path : p = dest'[c] /\ p.name = serial + 1
      BY <3>1, PathFacts
    <3>3. PICK z \in Path : z = ZipOf(p) /\ z.name = serial + 1
      BY <3>2, PathFacts
    <3>4. Unused(p) /\ Unused(z)
      BY <3>1, <3>2, <3>3 DEF NamesInv
    <3>5. Unused(p)' /\ Unused(z)' /\ ZipOf(dest[c])' = z /\ dest[c]' = p
      BY <3>1, <3>2, <3>3, <3>4 DEF Unused, Exists, ZipOf
    <3> QED
      BY <3>1, <3>5 DEF Files, Unused
  <2>2. CASE CallByOperator(c)
    BY <2>2, Operators_Assumption DEF CallByOperator, Busy, InFamily, Automatic, TypeOK, CallOK
  <2>3. CASE CallPrune(c)
    BY <2>3, PathFacts DEF CallPrune, Busy, InFamily, TypeOK, CallOK
  <2>4. CASE Refuse(c)
    BY <2>4, ReturnEffect DEF Refuse, Busy
  <2> QED
    BY <1>1, <2>1, <2>2, <2>3, <2>4 DEF Calls
<1>2. ASSUME pc[c] \notin {"idle", "list", "sort", "rotate"}, dest' = dest,
             ~Calls(c), ~Drop(c)
      PROVE  Files(c)'
  <2>0. Busy(c) /\ Own(c) /\ Files(c)
    BY <1>2 DEF Busy, OwnInv, FilesInv, InFamily
  <2>1. PICK p \in Path : p = dest[c] /\ p = dest'[c]
    BY <1>2, TwoNames
  <2>2. PICK z \in Path : z = ZipOf(p) /\ z = ZipOf(dest[c]) /\ z # p
    BY <1>2, <2>0, <2>1, TwoNames
  <2>3. ZipOf(dest[c])' = z /\ dest[c]' = p
    BY <1>2, <2>1, <2>2 DEF ZipOf
  <2>f. /\ pc[c] \in {"unlink", "touch"} => ~Exists(p)
        /\ pc[c] \in {"connect", "open", "copy", "copying"} => ~Whole(body[p])
        /\ pc[c] \in {"unlink", "touch", "connect", "open", "copy", "copying", "unlinkZip", "touchZip"} =>
             Unused(z) /\ ~Exists(z)
        /\ pc[c] \in {"zip", "zipping"} => ~Whole(body[z])
        /\ pc[c] = "zipping" /\ Exists(p) => read[c] = body[p]
    BY <2>0, <2>1, <2>2 DEF Files, Unused
  <2>g. ASSUME \/ pc'[c] \in {"list", "sort", "rotate"}
               \/ pc'[c] \in {"unlink", "touch"} /\ Unused(z)' /\ ~Exists(p)'
               \/ pc'[c] \in {"connect", "open", "copy", "copying"} /\ Unused(z)' /\ ~Whole(body[p])'
               \/ pc'[c] \in {"unlinkZip", "touchZip"} /\ Unused(z)'
               \/ pc'[c] = "zip" /\ ~Whole(body[z])'
               \/ pc'[c] = "zipping" /\ ~Whole(body[z])' /\ (Exists(p)' => read'[c] = body'[p])
               \/ pc'[c] = "drop" /\ (Exists(p)' /\ Exists(z)' => body'[z] = body'[p])
        PROVE  Files(c)'
    BY <2>3, <2>g DEF Files, Unused
  <2>4. CASE UnlinkTarget(c)
    <3>1. \/ pc[c] = "unlink" /\ pc'[c] = "touch" /\ Unlink(p)
          \/ pc[c] = "unlinkZip" /\ pc'[c] = "touchZip" /\ Unlink(z)
      BY <2>1, <2>2, <2>4 DEF UnlinkTarget, Goto, Target, Zipping, TypeOK, CallOK
    <3>2. body'[z] \in {body[z], Absent} /\ (pc[c] = "unlink" => body'[p] = Absent)
      BY <1>0, <2>1, <2>2, <3>1, UnlinkEffect
    <3>3. Unused(z)'
      BY <1>0, <2>f, <3>1, <3>2, UnusedStays
    <3> QED
      BY <2>g, <3>1, <3>2, <3>3 DEF Exists
  <2>5. CASE TouchTarget(c)
    <3>1. CASE pc[c] = "touch"
      <4>1. pc'[c] = "connect" /\ Write(p, Partial)
        BY <2>1, <2>5, <2>f, <3>1 DEF TouchTarget, Goto, Target, Zipping, TypeOK, CallOK
      <4>2. body'[p] = Partial /\ body'[z] = body[z]
        BY <1>0, <2>2, <4>1 DEF Write, DirectoryOK
      <4> QED
        BY <1>0, <1>w, <2>f, <2>g, <3>1, <4>1, <4>2, UnusedStays
    <3>2. CASE pc[c] # "touch"
      <4>1. pc[c] = "touchZip" /\ pc'[c] = "zip" /\ Write(z, Partial)
        BY <2>1, <2>2, <2>5, <2>f, <3>2 DEF TouchTarget, Goto, Target, Zipping, TypeOK, CallOK
      <4>2. body'[z] = Partial
        BY <1>0, <2>2, <4>1 DEF Write, DirectoryOK
      <4> QED
        BY <1>w, <2>g, <4>1, <4>2
    <3> QED
      BY <3>1, <3>2
  <2>6. CASE Open(c)
    <3>1. pc[c] = "open" /\ pc'[c] = "copy" /\ OpenTarget(c) /\ Target(c) = p
      BY <2>1, <2>6 DEF Open, Goto, Target, Zipping, TypeOK, CallOK
    <3>2. body'[p] \in {body[p], Partial} /\ body'[z] = body[z]
      BY <1>0, <2>2, <3>1, OpenEffect
    <3> QED
      BY <1>0, <1>w, <2>f, <2>g, <3>1, <3>2, UnusedStays
  <2>7. CASE Copy(c)
    <3>1. /\ pc[c] = "copy" /\ pc'[c] = "copying"
          /\ Write(p, Partial) \/ UNCHANGED body
      BY <2>1, <2>7 DEF Copy, Goto, TypeOK, CallOK
    <3>2. body'[p] \in {body[p], Partial} /\ body'[z] = body[z]
      BY <1>0, <2>2, <3>1 DEF Write, DirectoryOK
    <3> QED
      BY <1>0, <1>w, <2>f, <2>g, <3>1, <3>2, UnusedStays
  <2>8. CASE Copied(c)
    <3>1. pc[c] = "copying" /\ pc'[c] \in {"unlinkZip", "list", "rotate"} /\ WriteTarget(c, read[c])
          /\ Target(c) = p
      BY <2>1, <2>8 DEF Copied, AfterWriting, Target, Zipping, TypeOK, CallOK
    <3>2. body'[z] = body[z]
      <4>1. read[c] \in Content
        BY DEF TypeOK, CallOK
      <4> QED
        BY <1>0, <2>2, <3>1, <4>1, WriteTargetEffect
    <3> QED
      BY <1>0, <2>f, <2>g, <3>1, <3>2, UnusedStays
  <2>9. CASE Zip(c)
    <3>1. pc[c] = "zip" /\ pc'[c] = "zipping" /\ OpenTarget(c) /\ Target(c) = z /\ read'[c] = body[p]
      BY <2>1, <2>2, <2>9 DEF Zip, Goto, Target, Zipping, TypeOK, CallOK
    <3>2. body'[z] \in {body[z], Partial} /\ body'[p] = body[p]
      BY <1>0, <2>2, <3>1, OpenEffect
    <3> QED
      BY <1>w, <2>f, <2>g, <3>1, <3>2
  <2>10. CASE Zipped(c)
    <3>1. pc[c] = "zipping" /\ pc'[c] = "drop" /\ WriteTarget(c, read[c]) /\ Target(c) = z
      BY <2>1, <2>2, <2>10 DEF Zipped, Goto, Target, Zipping, TypeOK, CallOK
    <3>2. /\ body'[z] = IF opened[c] THEN read[c] ELSE body[z]
          /\ body'[p] = body[p]
      <4>1. read[c] \in Content
        BY DEF TypeOK, CallOK
      <4> QED
        BY <1>0, <2>2, <3>1, <4>1, WriteTargetEffect
    <3>3. ~opened[c] => body[z] = Absent
      BY <2>0, <2>2, <3>1 DEF Own
    <3> QED
      BY <2>f, <2>g, <3>1, <3>2, <3>3 DEF Exists
  <2>11. CASE CopyFails(c) \/ CopyRaises(c) \/ SetupFails(c) \/ ZipFails(c) \/ Crash(c)
    BY <2>11, ReturnEffect DEF CopyFails, CopyRaises, SetupFails, ZipFails, Crash, Busy
  <2>12. CASE Connect(c)
    <3>1. pc[c] = "connect" /\ pc'[c] = "open" /\ UNCHANGED body
      BY <2>12 DEF Connect, Goto, directory, TypeOK, CallOK
    <3> QED
      BY <1>0, <2>f, <2>g, <3>1, UnusedStays
  <2> QED
    BY <1>2, <2>4, <2>5, <2>6, <2>7, <2>8, <2>9, <2>10, <2>11, <2>12
    DEF CallerStep, Copies, Compresses, Prunes, List, Sort, Rotate, Stat, Pruned
<1>3. CASE List(c) \/ Sort(c) \/ Rotate(c) \/ Stat(c) \/ Drop(c)
  <2>1. pc'[c] \in {"list", "sort", "rotate"} \/ pc'[c] = "idle"
    BY <1>3, ReturnEffect
    DEF List, Sort, Rotate, Stat, Pruned, Drop, AfterWriting, Goto, TypeOK, CallOK
  <2> QED
    BY <2>1 DEF Files, Busy
<1> QED
  <2>1. CASE \/ UnlinkTarget(c) \/ TouchTarget(c) \/ Connect(c) \/ Open(c)
             \/ Copy(c) \/ Copied(c) \/ Zip(c) \/ Zipped(c)
    <3>1. pc[c] \notin {"idle", "list", "sort", "rotate"} /\ dest' = dest /\ ~Calls(c) /\ ~Drop(c)
      BY <2>1
      DEF UnlinkTarget, TouchTarget, Connect, Open, Copy, Copied, Zip, Zipped, Goto, locals,
          arguments, Calls, Call, CallByOperator, CallPrune, Refuse, Drop
    <3> QED
      BY <1>2, <3>1
  <2>2. CASE CopyFails(c) \/ CopyRaises(c) \/ SetupFails(c) \/ ZipFails(c) \/ Crash(c)
    BY <2>2, ReturnEffect DEF CopyFails, CopyRaises, SetupFails, ZipFails, Crash, Busy
  <2> QED
    BY <1>1, <1>3, <2>1, <2>2 DEF CallerStep, Copies, Compresses, Prunes

\* The files of every automatic backup, whoever steps.
LEMMA FilesStep ==
    ASSUME TypeOK, PathsInv, OwnInv, NamesInv, FilesInv, [Next]_vars
    PROVE  FilesInv'
<1>1. ASSUME NEW c \in Callers, CallerStep(c) PROVE FilesInv'
  <2>1. Touches(c)
    BY <1>1, Touching
  <2> QED
    BY <1>1, <2>1, FilesOfStep, OthersFiles DEF FilesInv
<1>2. CASE Commit \/ Damage \/ Repair \/ UNCHANGED vars
  <2>1. UNCHANGED <<body, pc, dest, read, names>>
    BY <1>2 DEF Commit, Damage, Repair, vars, directory, locals, arguments
  <2> QED
    BY <2>1 DEF FilesInv, Files, Busy, Unused, Exists, InFamily, ZipOf
<1> QED
  BY <1>1, <1>2 DEF Next, Environment, CallerStep

-----------------------------------------------------------------------------
(* A backup that nothing under way will take away *)

\* Only the rotation that decides condemns files.
LEMMA CondemnedBefore ==
    ASSUME TypeOK, NamesInv, NEW c \in Callers, CallerStep(c), Touches(c),
           Sort(c) => names'[c] = {}
    PROVE  /\ \A p : Condemned(p)' => Condemned(p)
           /\ \A e \in Callers : Deleting(e)' => Deleting(e)
<1>1. pc'[c] = "rotate" => names'[c] \subseteq names[c] /\ (pc[c] = "rotate" \/ names'[c] = {})
  <2>1. CASE Rotate(c)
    BY <2>1 DEF Rotate, TypeOK, CallOK
  <2>2. CASE Sort(c)
    BY <2>2
  <2>3. CASE List(c)
    BY <2>3, ReturnEffect DEF List, Goto, TypeOK, CallOK
  <2>4. CASE Copied(c) \/ Drop(c)
    <3>1. pc[c] \in {"copying", "drop"} /\ (names'[c] = names[c] \/ names'[c] = {})
      BY <2>4, ReturnEffect DEF Copied, Drop, locals
    <3> QED
      BY <3>1 DEF NamesInv
  <2>5. CASE Calls(c)
    BY <2>5, ReturnEffect
    DEF Calls, Call, CallByOperator, CallPrune, Refuse, Goto, TypeOK, CallOK
  <2>6. CASE CopyFails(c) \/ CopyRaises(c) \/ SetupFails(c) \/ ZipFails(c) \/ Crash(c) \/ Stat(c)
    BY <2>6, ReturnEffect DEF CopyFails, CopyRaises, SetupFails, ZipFails, Crash, Stat
  <2>7. CASE \/ UnlinkTarget(c) \/ TouchTarget(c) \/ Connect(c) \/ Open(c)
             \/ Copy(c) \/ Zip(c) \/ Zipped(c)
    BY <2>7 DEF UnlinkTarget, TouchTarget, Connect, Open, Copy, Zip, Zipped, Goto, TypeOK, CallOK
  <2> QED
    BY <2>1, <2>2, <2>3, <2>4, <2>5, <2>6, <2>7 DEF CallerStep, Copies, Compresses, Prunes
<1>2. \A d \in Callers : pc'[d] = "rotate" =>
        names'[d] \subseteq names[d] /\ (pc[d] = "rotate" \/ names'[d] = {})
  <2>1. \A d \in Callers \ {c} : pc'[d] = pc[d] /\ names'[d] = names[d]
    BY DEF Touches
  <2> QED
    BY <1>1, <2>1
<1> QED
  BY <1>2 DEF Condemned, Deleting

\* The file itself stays, and what its own caller does leaves it replaced.
LEMMA GoodStays ==
    ASSUME TypeOK, PathsInv, OwnInv, NEW c \in Callers, Touches(c), NEW r \in Path, Good(r),
           \A p : Condemned(p)' => Condemned(p), body'[r] = body[r],
           pc'[c] \in {"zip", "zipping", "drop"} /\ dest'[c] = r => Replaced(c, r)'
    PROVE  Good(r)'
<1>1. ASSUME NEW d \in Callers, pc'[d] \in {"zip", "zipping", "drop"}, dest'[d] = r
      PROVE  Replaced(d, r)'
  <2>1. CASE d = c
    BY <1>1, <2>1
  <2>2. CASE d # c
    <3>1. pc[d] = pc'[d] /\ dest[d] = r /\ Busy(d)
      BY <1>1, <2>2 DEF Touches, Busy, Good
    <3>2. Replaced(d, r)
      BY <1>1, <3>1 DEF Good
    <3>3. PICK z \in Path : z = ZipOf(r) /\ z \notin {dest[c], ZipOf(dest[c])}
      BY <2>2, <3>1, Apart, PathFacts
    <3>4. ~(pc[c] = "rotate" /\ z \in names[c])
      BY <3>2, <3>3 DEF Replaced, Condemned
    <3>5. body'[z] = body[z] /\ (Target(d) = z => (opened'[d] <=> opened[d]))
      BY <3>3, <3>4 DEF Touches
    <3>6. pc[d] = "zipping" => Target(d) = z
      BY <3>1, <3>3 DEF Target, Zipping
    <3> QED
      BY <3>1, <3>2, <3>3, <3>5, <3>6 DEF Replaced, Exists, ZipOf
  <2> QED
    BY <2>1, <2>2
<1> QED
  BY <1>1 DEF Good, InFamily

\* Compressing a backup takes it away when the compressed one is there.
LEMMA GoodDropped ==
    ASSUME TypeOK, PathsInv, OwnInv, FilesInv, NEW c \in Callers, Touches(c), Drop(c),
           Busy(c), Good(dest[c]), \A p : Condemned(p)' => Condemned(p)
    PROVE  \E s \in Path : Good(s)'
<1>0. DirectoryOK /\ pc[c] = "drop"
  BY DEF TypeOK, Drop
<1>1. PICK p \in Path : p = dest[c]
  BY <1>0, TwoNames
<1>2. PICK z \in Path : z = ZipOf(p) /\ z = ZipOf(dest[c]) /\ z.name = p.name /\ z # p
  BY <1>0, <1>1, TwoNames
<1>3. Exists(p) /\ ~Condemned(z) /\ Exists(z) /\ Whole(body[z]) /\ InFamily(z)
  <2>1. Replaced(c, p) /\ Whole(body[p]) /\ InFamily(p)
    BY <1>0, <1>1 DEF Good
  <2>2. Exists(p)
    BY <2>1 DEF Exists, Whole, Absent, Snapshot
  <2>3. Exists(z) /\ ~Condemned(z)
    BY <1>0, <1>2, <2>1 DEF Replaced
  <2>4. body[z] = body[p]
    BY <1>0, <1>1, <1>2, <2>2, <2>3 DEF FilesInv, Files
  <2> QED
    BY <1>2, <2>1, <2>2, <2>3, <2>4 DEF InFamily
<1>4. Unlink(p) /\ pc'[c] \notin {"zip", "zipping", "drop"}
  BY <1>0, <1>1, <1>3 DEF Drop, AfterWriting, TypeOK, CallOK
<1>5. body'[z] = body[z]
  BY <1>0, <1>2, <1>4, UnlinkEffect
<1>6. ASSUME NEW d \in Callers, pc'[d] \in {"zip", "zipping", "drop"}, dest'[d] = z PROVE FALSE
  <2>1. d # c /\ pc[d] = pc'[d] /\ dest[d] = z
    BY <1>4, <1>6 DEF Touches
  <2>2. Busy(d)
    BY <1>3, <1>6, <2>1 DEF Busy
  <2> QED
    BY <1>1, <1>2, <2>1, <2>2, Apart
<1>7. Good(z)'
  BY <1>3, <1>5, <1>6 DEF Good, InFamily
<1> QED
  BY <1>7

\* Whatever a caller does, short of condemning files, such a backup remains.
LEMMA GoodKept ==
    ASSUME TypeOK, PathsInv, OwnInv, NamesInv, FilesInv, NEW c \in Callers, CallerStep(c),
           Sort(c) => names'[c] = {}, NEW r \in Path, Good(r)
    PROVE  \E s \in Path : Good(s)'
<1>0. DirectoryOK /\ Touches(c) /\ \A p : Condemned(p)' => Condemned(p)
  BY Touching, CondemnedBefore DEF TypeOK
<1>w. Whole(body[r]) /\ Exists(r) /\ InFamily(r) /\ ~Condemned(r)
  BY DEF Good, Exists, Whole, Absent, Snapshot
<1>1. CASE pc[c] \in {"idle", "list", "sort", "rotate"}
  <2>1. pc'[c] \in {"idle", "unlink", "list", "sort", "rotate"}
    BY <1>1, ReturnEffect
    DEF CallerStep, Calls, Call, CallByOperator, CallPrune, Refuse, Copies, UnlinkTarget, TouchTarget,
        Connect, Open, Copy, Copied, CopyFails, CopyRaises, SetupFails, Compresses, Zip, Zipped,
        ZipFails, Drop, Prunes, List, Sort, Rotate, Stat, Crash, Goto, TypeOK, CallOK
  <2>2. body'[r] = body[r]
    <3>1. CASE Rotate(c)
      <4>1. PICK p \in names[c] : Unlink(p) /\ p \in Path /\ pc[c] = "rotate"
        BY <3>1 DEF Rotate, TypeOK, CallOK
      <4>2. r # p
        BY <1>w, <4>1 DEF Condemned
      <4> QED
        BY <1>0, <4>1, <4>2, UnlinkEffect
    <3>2. CASE ~Rotate(c)
      BY <1>1, <3>2
      DEF CallerStep, Calls, Call, CallByOperator, CallPrune, Refuse, Begin, Copies, UnlinkTarget,
          TouchTarget, Connect, Open, Copy, Copied, CopyFails, CopyRaises, SetupFails, Compresses,
          Zip, Zipped, ZipFails, Drop, Prunes, List, Sort, Stat, Crash, Goto, directory
    <3> QED
      BY <3>1, <3>2
  <2> QED
    BY <1>0, <2>1, <2>2, GoodStays
<1>2. CASE pc[c] \notin {"idle", "list", "sort", "rotate"} /\ r \notin {dest[c], ZipOf(dest[c])}
  <2>1. body'[r] = body[r]
    BY <1>0, <1>2 DEF Touches
  <2>2. ASSUME pc'[c] \in {"zip", "zipping", "drop"} PROVE dest'[c] = dest[c]
    <3>1. CASE \/ UnlinkTarget(c) \/ TouchTarget(c) \/ Connect(c) \/ Open(c)
               \/ Copy(c) \/ Copied(c) \/ Zip(c) \/ Zipped(c)
      BY <3>1
      DEF UnlinkTarget, TouchTarget, Connect, Open, Copy, Copied, Zip, Zipped, locals, arguments
    <3>2. CASE Drop(c)
      BY <2>2, <3>2, ReturnEffect DEF Drop, AfterWriting, TypeOK, CallOK
    <3>3. CASE CopyFails(c) \/ CopyRaises(c) \/ SetupFails(c) \/ ZipFails(c) \/ Crash(c)
      BY <2>2, <3>3, ReturnEffect DEF CopyFails, CopyRaises, SetupFails, ZipFails, Crash
    <3> QED
      BY <1>2, <3>1, <3>2, <3>3
      DEF CallerStep, Copies, Compresses, Prunes, Calls, Call, CallByOperator, CallPrune, Refuse,
          List, Sort, Rotate, Stat, Pruned, Goto
  <2> QED
    BY <1>0, <1>2, <2>1, <2>2, GoodStays
<1>3. CASE pc[c] \notin {"idle", "list", "sort", "rotate"} /\ r \in {dest[c], ZipOf(dest[c])}
  <2>1. PICK p \in Path : p = dest[c] /\ ~p.zip
    <3>1. dest[c] \in Path /\ InFamily(dest[c])
      BY <1>3, <1>w, TwoNames DEF InFamily
    <3> QED
      BY <1>3, <3>1 DEF OwnInv, Own, Busy
  <2>2. PICK z \in Path : z = ZipOf(p) /\ z = ZipOf(dest[c]) /\ z.name = p.name /\ z # p
    BY <2>1, PathFacts
  <2>3. Busy(c) /\ Own(c) /\ Files(c)
    BY <1>3, <1>w, <2>1, <2>2 DEF Busy, InFamily, OwnInv, FilesInv
  <2>4. \/ pc[c] \in {"unlinkZip", "touchZip", "zip", "zipping"} /\ r = p
        \/ pc[c] = "drop"
    BY <1>3, <1>w, <2>1, <2>2, <2>3 DEF Files, Unused, TypeOK, CallOK, PC
  <2>5. \A b \in {"zip", "zipping", "drop"} : pc[c] = b /\ r = p => Replaced(c, p)
    BY <2>1 DEF Good
  <2>6. CASE UnlinkTarget(c)
    <3>1. pc[c] = "unlinkZip" /\ pc'[c] = "touchZip" /\ Unlink(z) /\ r = p
      BY <2>1, <2>2, <2>4, <2>6 DEF UnlinkTarget, Goto, Target, Zipping, TypeOK, CallOK
    <3>2. body'[r] = body[r]
      BY <1>0, <2>2, <3>1, UnlinkEffect
    <3> QED
      BY <1>0, <3>1, <3>2, GoodStays
  <2>7. CASE TouchTarget(c)
    <3>1. pc[c] = "touchZip" /\ pc'[c] = "zip" /\ r = p /\ \E b : Write(z, b)
      BY <2>1, <2>2, <2>4, <2>7 DEF TouchTarget, Goto, Target, Zipping, TypeOK, CallOK
    <3>2. body'[r] = body[r]
      BY <1>0, <2>2, <3>1 DEF Write, DirectoryOK
    <3>3. ~Condemned(z)
      BY <2>2, <2>3, <3>1 DEF Files, Unused, Condemned
    <3>4. Replaced(c, r)'
      BY <1>0, <2>2, <3>1, <3>3 DEF Replaced, ZipOf
    <3> QED
      BY <1>0, <3>2, <3>4, GoodStays
  <2>8. CASE Zip(c)
    <3>1. pc[c] = "zip" /\ pc'[c] = "zipping" /\ r = p /\ OpenTarget(c) /\ Target(c) = z
      BY <2>1, <2>2, <2>4, <2>8 DEF Zip, Goto, Target, Zipping, TypeOK, CallOK
    <3>2. body'[r] = body[r] /\ opened'[c]
      BY <1>0, <2>2, <3>1, OpenEffect
    <3>3. ~Condemned(z)
      BY <2>2, <2>5, <3>1 DEF Replaced
    <3>4. Replaced(c, r)'
      BY <1>0, <2>2, <3>1, <3>2, <3>3 DEF Replaced, ZipOf
    <3> QED
      BY <1>0, <3>2, <3>4, GoodStays
  <2>9. CASE Zipped(c)
    <3>1. pc[c] = "zipping" /\ pc'[c] = "drop" /\ r = p /\ WriteTarget(c, read[c]) /\ Target(c) = z
      BY <2>1, <2>2, <2>4, <2>9 DEF Zipped, Goto, Target, Zipping, TypeOK, CallOK
    <3>2. ~Condemned(z) /\ opened[c]
      BY <2>2, <2>5, <3>1 DEF Replaced
    <3>3. read[c] \in Content \ {Absent}
      BY DEF TypeOK, CallOK
    <3>4. body'[r] = body[r] /\ body'[z] = read[c]
      BY <1>0, <2>2, <3>1, <3>2, <3>3, WriteTargetEffect
    <3>5. Replaced(c, r)'
      BY <1>0, <2>2, <3>1, <3>2, <3>3, <3>4 DEF Replaced, ZipOf, Exists
    <3> QED
      BY <1>0, <3>4, <3>5, GoodStays
  <2>10. CASE ZipFails(c)
    <3>1. r = p /\ Unlink(z) /\ pc'[c] = "idle"
      BY <2>1, <2>2, <2>4, <2>10, ReturnEffect DEF ZipFails, Target, Zipping
    <3>2. body'[r] = body[r]
      BY <1>0, <2>2, <3>1, UnlinkEffect
    <3> QED
      BY <1>0, <3>1, <3>2, GoodStays
  <2>11. CASE Drop(c) /\ r = p
    BY <1>0, <2>1, <2>3, <2>11, GoodDropped
  <2>12. CASE Drop(c) /\ r # p
    <3>1. body'[r] = body[r] /\ pc'[c] \notin {"zip", "zipping", "drop"}
      BY <1>0, <2>1, <2>12, UnlinkEffect, ReturnEffect DEF Drop, AfterWriting, directory, TypeOK, CallOK
    <3> QED
      BY <1>0, <3>1, GoodStays
  <2>13. CASE SetupFails(c) \/ Crash(c)
    <3>1. body'[r] = body[r] /\ pc'[c] = "idle"
      BY <2>13, ReturnEffect DEF SetupFails, Crash, directory
    <3> QED
      BY <1>0, <3>1, GoodStays
  <2> QED
    BY <1>3, <2>4, <2>6, <2>7, <2>8, <2>9, <2>10, <2>11, <2>12, <2>13
    DEF CallerStep, Copies, Compresses, Prunes, Calls, Call, CallByOperator, CallPrune, Refuse,
        Connect, Open, Copy, Copied, CopyFails, CopyRaises, List, Sort, Rotate, Stat, Pruned, Goto
<1> QED
  BY <1>1, <1>2, <1>3

\* What is ample now was ample before.
LEMMA AmpleBefore ==
    ASSUME TypeOK, TypeOK', left \subseteq left', least' <= least, Ample'
    PROVE  Ample
<1> DEFINE S == {p \in left : InFamily(p)}
           T == {p \in left' : InFamily(p)}
<1>1. S \subseteq T /\ T \subseteq {p \in Path : InFamily(p)}
  BY DEF TypeOK, SeenOK
<1>2. IsFiniteSet(T) /\ Cardinality(S) <= Cardinality(T)
      /\ Cardinality(S) \in Nat /\ Cardinality(T) \in Nat
  <2>1. IsFiniteSet(T) /\ IsFiniteSet(S)
    BY <1>1, FamilyFinite, FS_Subset
  <2> QED
    BY <1>1, <2>1, FS_Subset, FS_CardinalityType
<1>3. Cardinality(Callers) \in Nat /\ least \in Int /\ least' \in Int
  BY Callers_Assumption, FS_CardinalityType, Retentions_Assumption, Bounds_Assumption
  DEF TypeOK, SeenOK, KeepAll
<1>4. Cardinality(T) + Cardinality(Callers) <= least'
  BY DEF Ample, InFamily
<1>5. Cardinality(S) + Cardinality(Callers) <= least
  <2> HIDE DEF S, T
  <2> QED
    BY <1>2, <1>3, <1>4
<1> QED
  BY <1>5 DEF Ample

LEMMA GoodInit == Init => OrderInv /\ FilesInv /\ GoodInv
BY DEF Init, OrderInv, Exists, FilesInv, Busy, GoodInv, Relied, Deleting

\* Who relies on a backup, and that one is there: at every step.
LEMMA GoodStep ==
    ASSUME TypeOK, TypeOK', PathsInv, OwnInv, PartialsAreOwned, NamesInv,
           OrderInv, FilesInv, GoodInv, [Next]_vars
    PROVE  GoodInv'
<1> SUFFICES ASSUME Relied', Ample', ~crossed' PROVE \E p \in Path : Good(p)'
  BY DEF GoodInv
<1>0. least \in Int
  BY Retentions_Assumption, Bounds_Assumption DEF TypeOK, SeenOK, KeepAll
<1>1. ASSUME NEW c \in Callers, CallerStep(c) PROVE \E p \in Path : Good(p)'
  <2>0. Touches(c)
    BY <1>1, Touching
  <2>1. CASE Sort(c) /\ names'[c] # {}
    <3>1. (\A p \in names[c] : Exists(p)) /\ pc'[c] = "rotate"
      BY <2>1, ReturnEffect DEF Sort, Goto, TypeOK, CallOK
    <3>2. \A e \in Callers \ {c} : ~Deleting(e)
      BY <2>1, <3>1 DEF Sort
    <3> QED
      BY <2>1, <3>1, <3>2, Spared
  <2>2. CASE Sort(c) => names'[c] = {}
    <3>1. (\A p : Condemned(p)' => Condemned(p)) /\ \A e \in Callers : Deleting(e)' => Deleting(e)
      BY <1>1, <2>0, <2>2, CondemnedBefore
    <3>2. /\ left \subseteq left' /\ least' <= least /\ (crossed => crossed')
          /\ ~Stat(c) => safe' = safe
      <4>1. CASE Sort(c)
        <5>1. least' = least \/ \E keep \in Retentions \intersect Nat :
                least' = IF keep < least THEN keep ELSE least
          BY <4>1 DEF Sort
        <5>2. least' <= least
          BY <1>0, <5>1, Retentions_Assumption
        <5> QED
          BY <4>1, <5>2 DEF Sort
      <4>2. CASE ~Sort(c)
        <5>1. UNCHANGED <<least, crossed>> /\ (~Stat(c) => safe' = safe)
          BY <1>1, <4>2
          DEF CallerStep, Calls, Call, CallByOperator, CallPrune, Refuse, Begin, Copies, UnlinkTarget,
              TouchTarget, Connect, Open, Copy, Copied, CopyFails, CopyRaises, SetupFails, Compresses,
              Zip, Zipped, ZipFails, Drop, Prunes, List, Rotate, Stat, Crash, Within
        <5>2. left \subseteq left'
          <6>1. CASE CopyRaises(c) \/ SetupFails(c) \/ Copied(c) \/ Zipped(c) \/ Crash(c)
            BY <6>1 DEF CopyRaises, SetupFails, Copied, Zipped, Crash
          <6>2. CASE ~(CopyRaises(c) \/ SetupFails(c) \/ Copied(c) \/ Zipped(c) \/ Crash(c))
            BY <1>1, <4>2, <6>2
            DEF CallerStep, Calls, Call, CallByOperator, CallPrune, Refuse, Begin, Copies,
                UnlinkTarget, TouchTarget, Connect, Open, Copy, CopyFails, Compresses, Zip, ZipFails, Drop,
                Prunes, List, Rotate, Stat
          <6> QED
            BY <6>1, <6>2
        <5> QED
          BY <1>0, <5>1, <5>2
      <4> QED
        BY <4>1, <4>2
    <3>3. Ample /\ ~crossed
      BY <3>2, AmpleBefore
    <3>4. CASE Relied
      BY <1>1, <2>2, <3>3, <3>4, GoodKept DEF GoodInv
    <3>5. CASE ~Relied
      <4>1. Stat(c) /\ InFamily(dest[c]) /\ steady[c] /\ Exists(dest[c]) /\ pc[c] = "rotate"
        <5>1. safe'
          BY <3>1, <3>5 DEF Relied
        <5>2. Stat(c)
          BY <3>2, <3>5, <5>1 DEF Relied
        <5> QED
          BY <3>5, <5>1, <5>2 DEF Stat, Pruned, Relied
      <4>2. PICK p \in Path : p = dest[c] /\ InFamily(p)
        <5>1. dest[c] \in Path \union {NoPath}
          BY DEF TypeOK, CallOK
        <5> QED
          BY <4>1, <5>1, PathFacts
      <4>3. Whole(body[p])
        <5>1. Kept(c, p) /\ since[c] \in Nat /\ commits \in Snapshot
          BY <4>1, <4>2, Bounds_Assumption DEF OwnInv, Own, Busy, TypeOK, SeenOK, SourceOK, Snapshot
        <5> QED
          BY <4>1, <4>2, <5>1, Bounds_Assumption DEF Kept, Sound, Exists, Whole, Snapshot
      <4>4. body' = body /\ pc'[c] = "idle"
        BY <4>1, ReturnEffect DEF Stat, directory
      <4>5. ~Condemned(p)'
        BY <3>1, <3>5 DEF Condemned, Relied, Deleting
      <4>6. ASSUME NEW d \in Callers, pc'[d] \in {"zip", "zipping", "drop"}, dest'[d] = p PROVE FALSE
        <5>1. d # c /\ pc[d] = pc'[d] /\ dest[d] = p
          BY <2>0, <4>4, <4>6 DEF Touches
        <5>2. Busy(d)
          BY <4>2, <4>6, <5>1 DEF Busy
        <5> QED
          BY <4>2, <5>1, <5>2, Apart
      <4>7. Good(p)'
        BY <4>2, <4>3, <4>4, <4>5, <4>6 DEF Good, InFamily
      <4> QED
        BY <4>7
    <3> QED
      BY <3>4, <3>5
  <2> QED
    BY <2>1, <2>2
<1>2. CASE Commit \/ Damage \/ Repair \/ UNCHANGED vars
  <2>1. UNCHANGED <<body, opened, pc, dest, names, left, least, crossed, safe>>
    BY <1>2 DEF Commit, Damage, Repair, vars, directory, locals, arguments
  <2>2. Relied /\ Ample /\ ~crossed
    BY <2>1 DEF Relied, Deleting, Ample, InFamily
  <2>3. PICK p \in Path : Good(p)
    BY <2>2 DEF GoodInv
  <2>4. Good(p)'
    BY <2>1, <2>3 DEF Good, Replaced, Condemned, Exists, InFamily, ZipOf
  <2> QED
    BY <2>4
<1> QED
  BY <1>1, <1>2 DEF Next, Environment, CallerStep

\* Once an automatic backup has succeeded, the family keeps one, however many
\* callers write, compress and rotate it, crash or meet a clock that went back:
\* if every retention exceeds the files left behind and the other callers, and
\* no rotation decided while another was deleting.
THEOREM BackupStays == Spec => []BackupRemains
<1>1. GoodInv => BackupRemains
  BY DEF GoodInv, Relied, Good, BackupRemains
<1>2. TypeOK /\ TypeOK' /\ PathsInv /\ OwnInv /\ PartialsAreOwned /\ SurvivalInv
        /\ OrderInv /\ FilesInv /\ GoodInv /\ [Next]_vars
        => OrderInv' /\ FilesInv' /\ GoodInv'
  BY OrderStep, FilesStep, GoodStep DEF SurvivalInv
<1> QED
  BY <1>1, <1>2, GoodInit, TypesInductive, OwnInductive, SurvivalInductive, PTL DEF Spec

=============================================================================
