--------------------------- MODULE Backups_proofs ---------------------------
(***************************************************************************)
(* Proofs about Backups, for any callers, operators' names, retentions and *)
(* bounds.  An automatic backup's files are its caller's own: others may   *)
(* take them away, and nobody else writes them (OwnInv).                   *)
(***************************************************************************)
EXTENDS Backups, FiniteSetTheorems, TLAPS

\* Which paths a call may name.
PathInv(c) ==
    /\ pc[c] \notin {"idle", "list", "sort", "rotate"} => dest[c] \in Path
    /\ pc[c] = "idle" => dest[c] = NoPath
    /\ names[c] \subseteq {p \in Path : InFamily(p)}

PathsInv == \A c \in Callers : PathInv(c)

-----------------------------------------------------------------------------
(* What a step does to the directory *)

LEMMA PathFacts ==
    /\ \A p \in Path : ZipOf(p) \in Path /\ ZipOf(p).name = p.name /\ ZipOf(p).zip
    /\ \A n \in Automatic \union Operators, z \in BOOLEAN : [name |-> n, zip |-> z] \in Path
    /\ NoPath \notin Path /\ ~InFamily(NoPath) /\ ~InFamily(ZipOf(NoPath))
<1>1. 0 \notin Automatic \union Operators
  BY Operators_Assumption, Bounds_Assumption DEF Automatic
<1> QED
  BY <1>1 DEF Path, ZipOf, NoPath, InFamily

LEMMA StampType ==
    ASSUME DirectoryOK, NEW p \in Path, Stamp(p)
    PROVE  later' \in [Path -> SUBSET Path] /\ faults' \subseteq {"crash", "damage", "clock"}
<1>1. CASE UNCHANGED faults /\ later' = [q \in Path |-> IF q = p \/ ~Exists(q) THEN {}
                                                        ELSE later[q] \union {p}]
  BY <1>1 DEF DirectoryOK
<1>2. CASE /\ Fault("clock") \/ ("clock" \in faults /\ UNCHANGED faults)
          /\ \E r \in {q \in Path : Exists(q) /\ q # p} :
            LET after == (later[r] \union {r}) \ {p}
            IN later' = [q \in Path |-> IF q = p THEN after
                                        ELSE IF q \in after \/ ~Exists(q)
                                        THEN later[q] \ {p}
                                        ELSE later[q] \union {p}]
  BY <1>2 DEF DirectoryOK, Fault
<1> QED
  BY <1>1, <1>2 DEF Stamp

LEMMA WriteEffect ==
    ASSUME DirectoryOK, NEW p \in Path, NEW b \in Content, Write(p, b)
    PROVE  /\ later' \in [Path -> SUBSET Path] /\ faults' \subseteq {"crash", "damage", "clock"}
           /\ body' \in [Path -> Content]
           /\ \A q \in Path : body'[q] = IF q = p THEN b ELSE body[q]
  BY StampType DEF Write, DirectoryOK

LEMMA UnlinkEffect ==
    ASSUME DirectoryOK, NEW p \in Path, Unlink(p)
    PROVE  /\ DirectoryOK'
           /\ \A q \in Path : body'[q] = IF q = p THEN Absent ELSE body[q]
           /\ \A c \in Callers : opened'[c] = (opened[c] /\ Target(c) # p)
<1>1. opened' \in [Callers -> BOOLEAN]
  BY DEF Unlink, DirectoryOK
<1> QED
  BY <1>1 DEF Unlink, DirectoryOK, Content

LEMMA OpenEffect ==
    ASSUME DirectoryOK, NEW c \in Callers, Target(c) \in Path, OpenTarget(c)
    PROVE  /\ DirectoryOK'
           /\ \A q \in Path : body'[q] = IF q = Target(c) /\ body[q] = Absent THEN Partial ELSE body[q]
           /\ opened'[c] /\ \A d \in Callers \ {c} : opened'[d] = opened[d]
<1>1. Partial \in Content
  BY DEF Content
<1>2. CASE Exists(Target(c))
  BY <1>2 DEF OpenTarget, DirectoryOK, Exists
<1>3. CASE ~Exists(Target(c))
  BY <1>1, <1>3, WriteEffect DEF OpenTarget, DirectoryOK, Exists
<1> QED
  BY <1>2, <1>3

LEMMA WriteTargetEffect ==
    ASSUME DirectoryOK, NEW c \in Callers, Target(c) \in Path, NEW b \in Content, WriteTarget(c, b)
    PROVE  /\ DirectoryOK'
           /\ \A q \in Path : body'[q] = IF q = Target(c) /\ opened[c] THEN b ELSE body[q]
           /\ \A d \in Callers \ {c} : opened'[d] = opened[d]
<1>1. CASE opened[c]
  BY <1>1, WriteEffect DEF WriteTarget, DirectoryOK
<1>2. CASE ~opened[c]
  BY <1>2 DEF WriteTarget, DirectoryOK
<1> QED
  BY <1>1, <1>2

\* What a call leaves of its locals when it ends.
LEMMA ReturnEffect ==
    ASSUME TypeOK, NEW c \in Callers, Return(c)
    PROVE  /\ pc' \in [Callers -> PC] /\ dest' \in [Callers -> Path \union {NoPath}]
           /\ read' \in [Callers -> Content \ {Absent}] /\ names' \in [Callers -> SUBSET Path]
           /\ since' \in [Callers -> Snapshot] /\ steady' \in [Callers -> BOOLEAN]
           /\ alone' \in [Callers -> BOOLEAN]
           /\ pc'[c] = "idle" /\ dest'[c] = NoPath /\ names'[c] = {}
           /\ \A d \in Callers \ {c} :
                /\ pc'[d] = pc[d] /\ dest'[d] = dest[d] /\ names'[d] = names[d]
                /\ read'[d] = read[d] /\ since'[d] = since[d] /\ steady'[d] = steady[d]
<1>1. 0 \in Snapshot /\ Partial \in Content \ {Absent}
  BY Bounds_Assumption DEF Snapshot, Content, Partial, Absent
<1> QED
  BY <1>1 DEF Return, TypeOK, CallOK, SeenOK, PC

\* The path a caller writes is one of the directory.
LEMMA TargetPath ==
    ASSUME NEW c \in Callers, PathInv(c), pc[c] \notin {"idle", "list", "sort", "rotate"}
    PROVE  dest[c] \in Path /\ Target(c) \in Path /\ ZipOf(dest[c]) \in Path
  BY PathFacts DEF PathInv, Target

-----------------------------------------------------------------------------
(* Types *)

\* A step that ends a call, or changes only the locals of one caller.
LEMMA TypesAfterReturn ==
    ASSUME TypeOK, PathsInv, NEW c \in Callers, Return(c),
           DirectoryOK', UNCHANGED <<serial, source, crossed, safe>>,
           left' \subseteq Path, least' \in (Retentions \intersect Nat) \union {KeepAll}
    PROVE  TypeOK' /\ PathsInv'
<1>1. TypeOK'
  BY ReturnEffect DEF TypeOK, CallOK, SourceOK, SeenOK, source
<1>2. ASSUME NEW d \in Callers PROVE PathInv(d)'
  BY ReturnEffect DEF PathsInv, PathInv
<1> QED
  BY <1>1, <1>2 DEF PathsInv

LEMMA TypesAfterMove ==
    ASSUME TypeOK, PathsInv, NEW c \in Callers, NEW from, NEW to \in PC \ {"idle"},
           Goto(c, from, to), from # "idle",
           to \in {"list", "sort", "rotate"} \/ dest[c] \in Path,
           DirectoryOK', UNCHANGED <<serial, commits, arguments, least, crossed, safe>>,
           database' \in {"sound", "missing", "blank", "broken"},
           read' \in [Callers -> Content \ {Absent}], left' \subseteq Path,
           \/ UNCHANGED names
           \/ \E N \in SUBSET {p \in Path : InFamily(p)} : names' = [names EXCEPT ![c] = N]
    PROVE  TypeOK' /\ PathsInv'
<1>1. pc' \in [Callers -> PC] /\ pc'[c] = to /\ \A d \in Callers \ {c} : pc'[d] = pc[d]
  BY DEF Goto, TypeOK, CallOK
<1>2. /\ names' \in [Callers -> SUBSET Path]
      /\ \A d \in Callers : names'[d] = names[d] \/ names'[d] \subseteq {p \in Path : InFamily(p)}
  BY DEF TypeOK, CallOK
<1>3. TypeOK'
  BY <1>1, <1>2 DEF TypeOK, CallOK, SourceOK, SeenOK, arguments
<1>4. ASSUME NEW d \in Callers PROVE PathInv(d)'
  BY <1>1, <1>2 DEF PathsInv, PathInv, arguments
<1> QED
  BY <1>3, <1>4 DEF PathsInv

LEMMA TypesInductive == Spec => [](TypeOK /\ PathsInv)
<1>1. Init => TypeOK /\ PathsInv
  <2> SUFFICES ASSUME Init PROVE TypeOK /\ PathsInv
    OBVIOUS
  <2>1. 0 \in Snapshot /\ Absent \in Content /\ Partial \in Content \ {Absent} /\ 0 \in 0..MaxCalls
    BY Bounds_Assumption DEF Snapshot, Content, Partial, Absent
  <2>2. CallOK /\ DirectoryOK /\ SourceOK /\ SeenOK
    BY <2>1 DEF Init, CallOK, PC, DirectoryOK, SourceOK, SeenOK
  <2>3. PathsInv
    BY DEF Init, PathsInv, PathInv
  <2> QED
    BY <2>2, <2>3 DEF TypeOK
<1>2. TypeOK /\ PathsInv /\ [Next]_vars => TypeOK' /\ PathsInv'
  <2> SUFFICES ASSUME TypeOK, PathsInv, [Next]_vars PROVE TypeOK' /\ PathsInv'
    OBVIOUS
  <2>0. DirectoryOK /\ left \subseteq Path /\ least \in (Retentions \intersect Nat) \union {KeepAll}
        /\ read \in [Callers -> Content \ {Absent}] /\ commits \in Snapshot
        /\ database \in {"sound", "missing", "blank", "broken"}
    BY DEF TypeOK, SeenOK, CallOK, SourceOK
  <2>a. UNCHANGED directory => DirectoryOK'
    BY <2>0 DEF directory, DirectoryOK
  <2>b. ASSUME NEW c \in Callers PROVE (left \union Leftovers(c)) \subseteq Path
    BY <2>0 DEF Leftovers
  <2>c. \A c \in Callers : pc[c] \notin {"idle", "list", "sort", "rotate"} =>
          dest[c] \in Path /\ Target(c) \in Path /\ ZipOf(dest[c]) \in Path
    BY TargetPath DEF PathsInv
  <2> USE DEF Within
  <2>1. ASSUME NEW c \in Callers, Begin(c), NEW to \in {"unlink", "list"}, Goto(c, "idle", to),
               NEW p \in Path \union {NoPath}, dest' = [dest EXCEPT ![c] = p],
               to = "unlink" => p \in Path, alone' \in [Callers -> BOOLEAN],
               Number \/ UNCHANGED serial
        PROVE  TypeOK' /\ PathsInv'
    <3>1. serial' \in 0..MaxCalls
      BY <2>1, Bounds_Assumption DEF Number, TypeOK, CallOK
    <3>2. pc' \in [Callers -> PC] /\ pc'[c] = to /\ \A d \in Callers \ {c} : pc'[d] = pc[d]
      BY <2>1 DEF Goto, TypeOK, CallOK, PC
    <3>3. since' \in [Callers -> Snapshot] /\ steady' \in [Callers -> BOOLEAN]
      BY <2>0, <2>1 DEF Begin, TypeOK, SeenOK
    <3>4. dest' \in [Callers -> Path \union {NoPath}] /\ dest'[c] = p
          /\ \A d \in Callers \ {c} : dest'[d] = dest[d]
      BY <2>1 DEF TypeOK, CallOK
    <3>5. DirectoryOK'
      BY <2>1, <2>a DEF Begin
    <3>6. TypeOK'
      BY <2>1, <3>1, <3>2, <3>3, <3>4, <3>5 DEF Begin, TypeOK, CallOK, SourceOK, SeenOK, source
    <3>7. ASSUME NEW d \in Callers PROVE PathInv(d)'
      BY <2>1, <3>2, <3>4 DEF Begin, PathsInv, PathInv
    <3> QED
      BY <3>6, <3>7 DEF PathsInv
  <2>2. ASSUME NEW c \in Callers, Calls(c) PROVE TypeOK' /\ PathsInv'
    <3>1. CASE Call(c)
      <4>1. [name |-> serial + 1, zip |-> FALSE] \in Path
        <5>1. serial + 1 \in Automatic
          BY <3>1, Bounds_Assumption DEF Call, Number, TypeOK, CallOK, Automatic
        <5> QED
          BY <5>1, PathFacts
      <4>2. alone' \in [Callers -> BOOLEAN]
        BY <3>1 DEF Call, TypeOK, SeenOK, Busy
      <4> QED
        BY <2>1, <3>1, <4>1, <4>2 DEF Call
    <3>2. CASE CallByOperator(c)
      <4>1. PICK n \in Operators : dest' = [dest EXCEPT ![c] = [name |-> n, zip |-> FALSE]]
        BY <3>2 DEF CallByOperator
      <4>2. [name |-> n, zip |-> FALSE] \in Path /\ alone' \in [Callers -> BOOLEAN]
        BY <3>2, PathFacts DEF CallByOperator, TypeOK, SeenOK
      <4> QED
        BY <2>1, <3>2, <4>1, <4>2 DEF CallByOperator
    <3>3. CASE CallPrune(c)
      BY <2>1, <3>3 DEF CallPrune, TypeOK, SeenOK
    <3>4. CASE Refuse(c)
      BY <2>0, <2>a, <3>4, TypesAfterReturn DEF Refuse
    <3> QED
      BY <2>2, <3>1, <3>2, <3>3, <3>4 DEF Calls
  <2>3. ASSUME NEW c \in Callers, UnlinkTarget(c) \/ TouchTarget(c) PROVE TypeOK' /\ PathsInv'
    <3>1. PICK from \in {"unlink", "unlinkZip", "touch", "touchZip"},
               to \in {"touch", "touchZip", "connect", "zip"} : Goto(c, from, to)
      <4>1. CASE UnlinkTarget(c)
        BY <4>1 DEF UnlinkTarget
      <4>2. CASE TouchTarget(c)
        BY <4>2 DEF TouchTarget
      <4> QED
        BY <2>3, <4>1, <4>2
    <3>2. dest[c] \in Path /\ Target(c) \in Path
      BY <2>c, <3>1 DEF Goto
    <3>3. Partial \in Content /\ body[Target(c)] \in Content
      BY <2>0, <3>2 DEF Content, DirectoryOK
    <3>4. DirectoryOK'
      BY <2>0, <2>3, <3>2, <3>3, UnlinkEffect, WriteEffect DEF UnlinkTarget, TouchTarget, DirectoryOK
    <3> QED
      BY <2>0, <2>3, <3>1, <3>2, <3>4, TypesAfterMove
      DEF UnlinkTarget, TouchTarget, locals, PC, source
  <2>20. ASSUME NEW c \in Callers, Connect(c) PROVE TypeOK' /\ PathsInv'
    <3>1. Goto(c, "connect", "open") /\ DirectoryOK'
      BY <2>0, <2>20 DEF Connect, directory, DirectoryOK
    <3>2. dest[c] \in Path
      BY <2>c, <3>1 DEF Goto
    <3>3. database' \in {"sound", "missing", "blank", "broken"}
      BY <2>0, <2>20 DEF Connect
    <3> QED
      BY <2>0, <2>20, <3>1, <3>2, <3>3, TypesAfterMove DEF Connect, locals, PC
  <2>4. ASSUME NEW c \in Callers, Open(c) PROVE TypeOK' /\ PathsInv'
    <3>1. dest[c] \in Path /\ Target(c) \in Path
      BY <2>c, <2>4 DEF Open, Goto
    <3>2. DirectoryOK'
      BY <2>0, <2>4, <3>1, OpenEffect DEF Open
    <3> QED
      BY <2>0, <2>4, <3>1, <3>2, TypesAfterMove DEF Open, Within, locals, PC, source
  <2>5. ASSUME NEW c \in Callers, Copy(c) PROVE TypeOK' /\ PathsInv'
    <3>1. dest[c] \in Path
      BY <2>c, <2>5 DEF Copy, Goto
    <3>2. DirectoryOK'
      BY <2>0, <2>5, <3>1, WriteEffect DEF Copy, DirectoryOK, Content
    <3>3. read' \in [Callers -> Content \ {Absent}]
      <4>1. commits \in Content \ {Absent} /\ Blank \in Content \ {Absent}
        BY <2>0 DEF Content, Absent, Blank, Partial, Snapshot
      <4> QED
        BY <2>0, <2>5, <4>1 DEF Copy
    <3> QED
      BY <2>0, <2>5, <3>1, <3>2, <3>3, TypesAfterMove DEF Copy, PC, source
  <2>6. ASSUME NEW c \in Callers, Copied(c) PROVE TypeOK' /\ PathsInv'
    <3>1. dest[c] \in Path /\ Target(c) \in Path
      BY <2>c, <2>6 DEF Copied
    <3>2. DirectoryOK'
      BY <2>0, <2>6, <3>1, WriteTargetEffect DEF Copied
    <3>3. PICK to \in {"unlinkZip", "list", "rotate"} : Goto(c, "copying", to)
      BY <2>6 DEF Copied, AfterWriting, Goto
    <3>4. left' \subseteq Path
      BY <2>0, <2>6, <3>1 DEF Copied
    <3> QED
      BY <2>0, <2>6, <3>1, <3>2, <3>3, <3>4, TypesAfterMove DEF Copied, locals, PC, source
  <2>7. ASSUME NEW c \in Callers, CopyFails(c) PROVE TypeOK' /\ PathsInv'
    <3>1. dest[c] \in Path
      BY <2>c, <2>7 DEF CopyFails
    <3>2. DirectoryOK'
      BY <2>0, <2>7, <3>1, UnlinkEffect DEF CopyFails
    <3> QED
      BY <2>0, <2>7, <3>2, TypesAfterReturn DEF CopyFails
  <2>8. ASSUME NEW c \in Callers, CopyRaises(c) \/ SetupFails(c) PROVE TypeOK' /\ PathsInv'
    BY <2>0, <2>a, <2>b, <2>8, TypesAfterReturn DEF CopyRaises, SetupFails
  <2>9. ASSUME NEW c \in Callers, Zip(c) PROVE TypeOK' /\ PathsInv'
    <3>1. dest[c] \in Path /\ Target(c) \in Path
      BY <2>c, <2>9 DEF Zip, Goto
    <3>2. DirectoryOK'
      BY <2>0, <2>9, <3>1, OpenEffect DEF Zip
    <3>3. read' \in [Callers -> Content \ {Absent}]
      BY <2>0, <2>9, <3>1 DEF Zip, Exists, DirectoryOK
    <3> QED
      BY <2>0, <2>9, <3>1, <3>2, <3>3, TypesAfterMove DEF Zip, PC, source
  <2>10. ASSUME NEW c \in Callers, Zipped(c) PROVE TypeOK' /\ PathsInv'
    <3>1. dest[c] \in Path /\ Target(c) \in Path
      BY <2>c, <2>10 DEF Zipped, Goto
    <3>2. DirectoryOK'
      BY <2>0, <2>10, <3>1, WriteTargetEffect DEF Zipped
    <3>3. left' \subseteq Path
      BY <2>0, <2>10, <3>1 DEF Zipped
    <3> QED
      BY <2>0, <2>10, <3>1, <3>2, <3>3, TypesAfterMove DEF Zipped, locals, PC, source
  <2>11. ASSUME NEW c \in Callers, ZipFails(c) PROVE TypeOK' /\ PathsInv'
    <3>1. Target(c) \in Path
      BY <2>c, <2>11 DEF ZipFails
    <3>2. DirectoryOK'
      BY <2>0, <2>11, <3>1, UnlinkEffect DEF ZipFails
    <3> QED
      BY <2>0, <2>11, <3>2, TypesAfterReturn DEF ZipFails
  <2>12. ASSUME NEW c \in Callers, Drop(c) PROVE TypeOK' /\ PathsInv'
    <3>1. dest[c] \in Path /\ ZipOf(dest[c]) \in Path
      BY <2>c, <2>12 DEF Drop
    <3>2. CASE ~Exists(dest[c])
      BY <2>0, <2>a, <2>12, <3>2, TypesAfterReturn DEF Drop
    <3>3. CASE Exists(dest[c])
      <4>1. DirectoryOK'
        BY <2>0, <2>12, <3>1, <3>3, UnlinkEffect DEF Drop
      <4>2. pc' \in [Callers -> PC] /\ pc'[c] \in {"list", "rotate"}
            /\ \A d \in Callers \ {c} : pc'[d] = pc[d]
        BY <2>12, <3>3 DEF Drop, AfterWriting, TypeOK, CallOK, PC
      <4>3. dest' \in [Callers -> Path \union {NoPath}] /\ \A d \in Callers \ {c} : dest'[d] = dest[d]
        BY <2>12, <3>1, <3>3 DEF Drop, TypeOK, CallOK
      <4>4. TypeOK'
        BY <2>12, <3>3, <4>1, <4>2, <4>3 DEF Drop, TypeOK, CallOK, SourceOK, SeenOK, source
      <4>5. ASSUME NEW d \in Callers PROVE PathInv(d)'
        BY <2>12, <3>3, <4>2, <4>3 DEF Drop, PathsInv, PathInv
      <4> QED
        BY <4>4, <4>5 DEF PathsInv
    <3> QED
      BY <3>2, <3>3
  <2>13. ASSUME NEW c \in Callers, List(c) PROVE TypeOK' /\ PathsInv'
    <3>1. CASE Return(c)
      BY <2>0, <2>a, <2>13, <3>1, TypesAfterReturn DEF List
    <3>2. CASE ~Return(c)
      <4>1. {p \in Path : Exists(p) /\ InFamily(p)} \in SUBSET {p \in Path : InFamily(p)}
        OBVIOUS
      <4> QED
        BY <2>0, <2>a, <2>13, <3>2, <4>1, TypesAfterMove DEF List, source, PC
    <3> QED
      BY <3>1, <3>2
  <2>14. ASSUME NEW c \in Callers, Sort(c) PROVE TypeOK' /\ PathsInv'
    <3>1. CASE \A p \in names[c] : Exists(p)
      <4>1. PICK keep \in Retentions \intersect Nat :
              names' = [names EXCEPT ![c] = Doomed(c, keep)] /\ least' \in {keep, least}
        BY <2>14, <3>1 DEF Sort
      <4>2. names' \in [Callers -> SUBSET Path] /\ names'[c] \subseteq names[c]
            /\ \A d \in Callers \ {c} : names'[d] = names[d]
        BY <4>1 DEF Doomed, TypeOK, CallOK
      <4>3. pc' \in [Callers -> PC] /\ pc'[c] = "rotate" /\ \A d \in Callers \ {c} : pc'[d] = pc[d]
        BY <2>14, <3>1 DEF Sort, Goto, TypeOK, CallOK, PC
      <4>4. least' \in (Retentions \intersect Nat) \union {KeepAll}
        BY <2>0, <4>1
      <4>5. TypeOK'
        BY <2>14, <2>a, <3>1, <4>2, <4>3, <4>4
        DEF Sort, TypeOK, CallOK, SourceOK, SeenOK, arguments, source
      <4>6. ASSUME NEW d \in Callers PROVE PathInv(d)'
        BY <2>14, <3>1, <4>2, <4>3 DEF Sort, PathsInv, PathInv, arguments
      <4> QED
        BY <4>5, <4>6 DEF PathsInv
    <3>2. CASE ~(\A p \in names[c] : Exists(p))
      BY <2>0, <2>a, <2>14, <3>2, TypesAfterReturn DEF Sort
    <3> QED
      BY <3>1, <3>2
  <2>15. ASSUME NEW c \in Callers, Rotate(c) PROVE TypeOK' /\ PathsInv'
    <3>1. PICK p \in names[c] : Unlink(p) /\ names' = [names EXCEPT ![c] = names[c] \ {p}]
      BY <2>15 DEF Rotate
    <3>2. p \in Path
      BY <3>1 DEF TypeOK, CallOK
    <3>3. DirectoryOK'
      BY <2>0, <3>1, <3>2, UnlinkEffect
    <3>4. names' \in [Callers -> SUBSET Path] /\ \A d \in Callers : names'[d] \subseteq names[d]
      BY <3>1 DEF TypeOK, CallOK
    <3>5. TypeOK'
      BY <2>15, <3>3, <3>4 DEF Rotate, TypeOK, CallOK, SourceOK, SeenOK, arguments, source
    <3>6. ASSUME NEW d \in Callers PROVE PathInv(d)'
      BY <2>15, <3>4 DEF Rotate, PathsInv, PathInv, arguments
    <3> QED
      BY <3>5, <3>6 DEF PathsInv
  <2>16. ASSUME NEW c \in Callers, Stat(c) PROVE TypeOK' /\ PathsInv'
    <3>1. safe' \in BOOLEAN
      BY <2>16 DEF Stat, TypeOK, SeenOK
    <3>2. TypeOK'
      BY <2>a, <2>16, <3>1, ReturnEffect DEF Stat, TypeOK, CallOK, SourceOK, SeenOK, source
    <3>3. ASSUME NEW d \in Callers PROVE PathInv(d)'
      BY <2>16, ReturnEffect DEF Stat, PathsInv, PathInv
    <3> QED
      BY <3>2, <3>3 DEF PathsInv
  <2>17. ASSUME NEW c \in Callers, Crash(c) PROVE TypeOK' /\ PathsInv'
    <3>1. DirectoryOK'
      BY <2>0, <2>17 DEF Crash, Fault, DirectoryOK
    <3> QED
      BY <2>0, <2>b, <2>17, <3>1, TypesAfterReturn DEF Crash, source
  <2>18. CASE Commit \/ Damage \/ Repair
    <3>1. commits' \in Snapshot
      BY <2>0, <2>18, Bounds_Assumption DEF Commit, Damage, Repair, Snapshot
    <3>2. DirectoryOK'
      BY <2>0, <2>a, <2>18 DEF Commit, Damage, Repair, Fault, DirectoryOK
    <3>3. database' \in {"sound", "missing", "blank", "broken"} /\ steady' \in [Callers -> BOOLEAN]
      BY <2>0, <2>18 DEF Commit, Damage, Repair, TypeOK, SeenOK, locals, arguments
    <3>4. UNCHANGED <<serial, pc, dest, since, alone, read, names, least, crossed, left, safe>>
      BY <2>18 DEF Commit, Damage, Repair, locals, arguments
    <3> QED
      BY <3>1, <3>2, <3>3, <3>4 DEF TypeOK, CallOK, SourceOK, SeenOK, PathsInv, PathInv
  <2>19. CASE UNCHANGED vars
    BY <2>a, <2>19
    DEF vars, TypeOK, CallOK, SourceOK, SeenOK, PathsInv, PathInv, locals, arguments, source
  <2> QED
    BY <2>2, <2>3, <2>4, <2>5, <2>6, <2>7, <2>8, <2>9, <2>10, <2>11, <2>12, <2>13, <2>14, <2>15,
       <2>16, <2>17, <2>18, <2>19, <2>20
    DEF Next, Copies, Compresses, Prunes, Environment
<1> QED
  BY <1>1, <1>2, PTL DEF Spec

\* Files, their times and the locals of every call keep their kinds, whatever
\* the callers do to each other's files.
THEOREM TypeCorrect == Spec => []TypeOK
BY TypesInductive, PTL

-----------------------------------------------------------------------------
(* An operator's files *)

\* A step of a caller, outside the paths it names, only takes files of the
\* family away.
LEMMA OperatorsFiles ==
    ASSUME TypeOK, PathsInv, [Next]_vars, NEW p \in Path, ~InFamily(p), body'[p] # body[p]
    PROVE  \E c \in Callers : pc[c] # "idle" /\ p \in {dest[c], ZipOf(dest[c])}
<1>0. DirectoryOK
  BY DEF TypeOK
<1>1. \A c \in Callers : pc[c] \notin {"idle", "list", "sort", "rotate"} =>
        /\ dest[c] \in Path /\ Target(c) \in Path /\ ZipOf(dest[c]) \in Path
        /\ Target(c) \in {dest[c], ZipOf(dest[c])}
  BY TargetPath DEF PathsInv, Target
<1>2. \A q \in Path : body'[q] # body[q] =>
        (\E c \in Callers : pc[c] # "idle" /\ q \in {dest[c], ZipOf(dest[c])})
        \/ \E c \in Callers : q \in names[c]
  <2>1. ASSUME NEW c \in Callers, Calls(c) PROVE body' = body
    BY <2>1 DEF Calls, Call, CallByOperator, CallPrune, Refuse, Begin, directory
  <2>2. ASSUME NEW c \in Callers, UnlinkTarget(c)
        PROVE  pc[c] # "idle" /\ \A q \in Path : body'[q] # body[q] => q \in {dest[c], ZipOf(dest[c])}
    BY <1>0, <1>1, <2>2, UnlinkEffect DEF UnlinkTarget, Goto
  <2>3. ASSUME NEW c \in Callers, TouchTarget(c)
        PROVE  pc[c] # "idle" /\ \A q \in Path : body'[q] # body[q] => q \in {dest[c], ZipOf(dest[c])}
    BY <1>0, <1>1, <2>3 DEF TouchTarget, Goto, Write, DirectoryOK
  <2>4. ASSUME NEW c \in Callers, Open(c) \/ Zip(c)
        PROVE  pc[c] # "idle" /\ \A q \in Path : body'[q] # body[q] => q \in {dest[c], ZipOf(dest[c])}
    BY <1>0, <1>1, <2>4, OpenEffect DEF Open, Zip, Goto
  <2>5. ASSUME NEW c \in Callers, Copy(c)
        PROVE  pc[c] # "idle" /\ \A q \in Path : body'[q] # body[q] => q \in {dest[c], ZipOf(dest[c])}
    BY <1>0, <1>1, <2>5 DEF Copy, Goto, Write, DirectoryOK
  <2>6. ASSUME NEW c \in Callers, Copied(c) \/ Zipped(c)
        PROVE  pc[c] # "idle" /\ \A q \in Path : body'[q] # body[q] => q \in {dest[c], ZipOf(dest[c])}
    BY <1>0, <1>1, <2>6 DEF Copied, Zipped, Goto, WriteTarget, Write, DirectoryOK
  <2>7. ASSUME NEW c \in Callers, CopyFails(c) \/ ZipFails(c) \/ Drop(c)
        PROVE  pc[c] # "idle" /\ \A q \in Path : body'[q] # body[q] => q \in {dest[c], ZipOf(dest[c])}
    BY <1>0, <1>1, <2>7, UnlinkEffect DEF CopyFails, ZipFails, Drop, directory
  <2>8. ASSUME NEW c \in Callers, Rotate(c)
        PROVE  \A q \in Path : body'[q] # body[q] => q \in names[c]
    BY <1>0, <2>8, UnlinkEffect DEF Rotate, TypeOK, CallOK
  <2>9. ASSUME NEW c \in Callers,
               CopyRaises(c) \/ SetupFails(c) \/ Connect(c) \/ List(c) \/ Sort(c) \/ Stat(c)
        PROVE  body' = body
    BY <2>9 DEF CopyRaises, SetupFails, Connect, List, Sort, Stat, directory
  <2>10. Environment \/ UNCHANGED vars => body' = body
    BY DEF Environment, Commit, Damage, Repair, Crash, vars, directory
  <2> QED
    BY <2>1, <2>2, <2>3, <2>4, <2>5, <2>6, <2>7, <2>8, <2>9, <2>10
    DEF Next, Copies, Compresses, Prunes
<1> QED
  BY <1>2 DEF PathsInv, PathInv

\* No call deletes or rewrites a whole backup under an operator's name unless
\* it was given that name.
THEOREM OperatorsFilesAreKept == Spec => OperatorsFilesStay
<1>1. TypeOK /\ PathsInv /\ [Next]_vars =>
        [\A p \in Path : ~InFamily(p) /\ Whole(body[p]) /\ body'[p] # body[p] =>
           \E c \in Callers : pc[c] # "idle" /\ p \in {dest[c], ZipOf(dest[c])}]_vars
  BY OperatorsFiles
<1> QED
  BY <1>1, TypesInductive, PTL DEF Spec, OperatorsFilesStay

-----------------------------------------------------------------------------
(* An automatic backup's files are its caller's *)

\* The content may be reported as the backup c takes.
Sound(c, b) == b \in Snapshot \union {Blank} /\ (steady[c] => b \in since[c]..commits)

\* The file is a backup, if it is still there.
Kept(c, p) ==
    body[p] = Absent \/ (Sound(c, body[p]) /\ (body[p] = Blank => p \in left))

\* What holds of a backup under a name of its own.
Own(c) ==
    /\ dest[c].name <= serial /\ since[c] <= commits
    /\ \A d \in Callers \ {c} : Busy(d) => dest[d].name # dest[c].name
    /\ pc[c] \notin {"list", "sort", "rotate"} => ~dest[c].zip
    /\ pc[c] \in {"copy", "copying"} /\ ~opened[c] => body[dest[c]] = Absent
    /\ pc[c] \in {"copying", "zipping"} => Sound(c, read[c])
    /\ pc[c] \notin {"unlink", "touch", "connect", "open", "copy", "copying"} => Kept(c, dest[c])
    /\ pc[c] = "zipping" /\ ~opened[c] => body[ZipOf(dest[c])] = Absent
    /\ pc[c] = "drop" => Kept(c, ZipOf(dest[c]))

OwnInv == \A c \in Callers : Busy(c) => Own(c)

\* The step is c's: of the others and their files it takes files away.
Respects(c) ==
    /\ \A p \in Path : p \notin {dest[c], ZipOf(dest[c])} => body'[p] \in {body[p], Absent}
    /\ \A d \in Callers \ {c} :
         /\ pc'[d] = pc[d] /\ dest'[d] = dest[d] /\ read'[d] = read[d] /\ since'[d] = since[d]
         /\ steady'[d] => steady[d]
         /\ ~opened'[d] => ~opened[d] \/ body'[Target(d)] = Absent
    /\ Busy(c)' => dest'[c].name > serial \/ (Busy(c) /\ dest'[c].name = dest[c].name)
    /\ serial' \in Nat /\ serial <= serial' /\ commits' \in Snapshot /\ commits <= commits'
    /\ left \subseteq left'

\* The step is c's: no file that is no backup is left without an owner.
Cleans(c) ==
    \A p \in Path : InFamily(p) /\ body'[p] \in {Partial, Blank} =>
      \/ p \in left'
      \/ pc'[c] # "idle" /\ p = Target(c)'
      \/ body'[p] = body[p] /\ (pc[c] # "idle" => p # Target(c))

\* Different callers, different names.
LEMMA Apart ==
    ASSUME TypeOK, PathsInv, OwnInv, NEW c \in Callers, NEW d \in Callers \ {c}, Busy(d)
    PROVE  /\ dest[d] \in Path /\ dest[c].name # dest[d].name
           /\ \A p \in Path : p.name = dest[d].name => p \notin {dest[c], ZipOf(dest[c])}
<1>1. dest[d] \in Path
  <2>1. dest[d] \in Path \union {NoPath}
    BY DEF TypeOK, CallOK
  <2> QED
    BY <2>1, PathFacts DEF Busy
<1>2. dest[c].name # dest[d].name
  <2>1. CASE Busy(c)
    BY <2>1 DEF OwnInv, Own
  <2>2. CASE pc[c] = "idle"
    BY <2>2, PathFacts DEF PathsInv, PathInv, Busy, InFamily
  <2>3. CASE ~InFamily(dest[c])
    BY <2>3 DEF Busy, InFamily
  <2> QED
    BY <2>1, <2>2, <2>3 DEF Busy
<1>3. ZipOf(dest[c]).name = dest[c].name
  <2>1. dest[c] \in Path \union {NoPath}
    BY DEF TypeOK, CallOK
  <2> QED
    BY <2>1, PathFacts DEF ZipOf, NoPath
<1> QED
  BY <1>1, <1>2, <1>3

LEMMA Bystanders ==
    ASSUME TypeOK, PathsInv, OwnInv, NEW c \in Callers, Respects(c),
           NEW d \in Callers \ {c}, Busy(d)'
    PROVE  Own(d)'
<1>1. Busy(d) /\ Own(d)
  BY DEF Respects, Busy, OwnInv
<1>2. /\ dest[d] \in Path /\ ZipOf(dest[d]) \in Path /\ Target(d) \in {dest[d], ZipOf(dest[d])}
      /\ body'[dest[d]] \in {body[dest[d]], Absent}
      /\ body'[ZipOf(dest[d])] \in {body[ZipOf(dest[d])], Absent}
  BY <1>1, Apart, PathFacts DEF Respects, Target
<1>3. /\ pc'[d] = pc[d] /\ dest'[d] = dest[d] /\ read'[d] = read[d] /\ since'[d] = since[d]
      /\ steady'[d] => steady[d]
      /\ ~opened'[d] => ~opened[d] \/ body'[Target(d)] = Absent
      /\ serial' \in Nat /\ serial <= serial' /\ commits' \in Snapshot /\ commits <= commits'
      /\ left \subseteq left'
  BY DEF Respects
<1>4. serial \in Nat /\ commits \in Nat /\ since[d] \in Nat /\ dest[d].name \in Nat /\ commits' \in Nat
  BY <1>1, <1>3, Bounds_Assumption
  DEF TypeOK, CallOK, SourceOK, SeenOK, Snapshot, Busy, InFamily, Automatic
<1>5. \A b : Sound(d, b) => Sound(d, b)'
  BY <1>3, <1>4 DEF Sound, Snapshot
<1>6. ASSUME NEW p \in {dest[d], ZipOf(dest[d])}, Kept(d, p) PROVE Kept(d, p)'
  BY <1>2, <1>3, <1>5, <1>6 DEF Kept
<1>7. ASSUME NEW e \in Callers \ {d}, Busy(e)' PROVE dest'[e].name # dest[d].name
  <2>1. CASE e = c
    BY <1>1, <1>4, <1>7, <2>1, Apart DEF Respects, Own
  <2>2. CASE e # c
    BY <1>1, <1>7, <2>2 DEF Respects, Busy, Own
  <2> QED
    BY <2>1, <2>2
<1>8. Target(d) = IF Zipping(d) THEN ZipOf(dest[d]) ELSE dest[d]
  BY DEF Target
<1> QED
  <2>1. dest'[d].name <= serial' /\ since'[d] <= commits'
    BY <1>1, <1>3, <1>4 DEF Own
  <2>2. \A e \in Callers \ {d} : Busy(e)' => dest'[e].name # dest'[d].name
    BY <1>3, <1>7
  <2>3. pc'[d] \in {"copying", "zipping"} => Sound(d, read[d])'
    BY <1>1, <1>3, <1>5 DEF Own, Sound
  <2>4. pc[d] \in {"copy", "copying"} /\ ~opened'[d] => body'[dest[d]] = Absent
    BY <1>1, <1>2, <1>3, <1>8 DEF Own, Zipping
  <2>5. pc[d] = "zipping" /\ ~opened'[d] => body'[ZipOf(dest[d])] = Absent
    BY <1>1, <1>2, <1>3, <1>8 DEF Own, Zipping
  <2>6. ZipOf(dest[d])' = ZipOf(dest[d])
    BY <1>3 DEF ZipOf
  <2>7. pc[d] \notin {"unlink", "touch", "connect", "open", "copy", "copying"} => Kept(d, dest[d])'
    BY <1>1, <1>2, <1>3, <1>5 DEF Own, Kept
  <2>8. pc[d] = "drop" => Kept(d, ZipOf(dest[d]))'
    BY <1>1, <1>2, <1>3, <1>5, <2>6 DEF Own, Kept
  <2> QED
    BY <1>1, <1>3, <2>1, <2>2, <2>3, <2>4, <2>5, <2>6, <2>7, <2>8 DEF Own

LEMMA OwnersKept ==
    ASSUME PartialsAreOwned, NEW c \in Callers, Respects(c), Cleans(c)
    PROVE  PartialsAreOwned'
<1> SUFFICES ASSUME NEW p \in Path, InFamily(p), body'[p] \in {Partial, Blank}, p \notin left'
             PROVE  \E d \in Callers : pc'[d] # "idle" /\ p = Target(d)'
  BY DEF PartialsAreOwned
<1>1. CASE pc'[c] # "idle" /\ p = Target(c)'
  BY <1>1
<1>2. CASE body'[p] = body[p] /\ (pc[c] # "idle" => p # Target(c))
  <2>1. PICK d \in Callers : pc[d] # "idle" /\ p = Target(d)
    BY <1>2 DEF PartialsAreOwned, Respects
  <2>2. d # c /\ pc'[d] = pc[d] /\ dest'[d] = dest[d]
    BY <1>2, <2>1 DEF Respects
  <2>3. Target(d)' = Target(d)
    BY <2>2 DEF Target, Zipping, ZipOf
  <2> QED
    BY <2>1, <2>2, <2>3
<1> QED
  BY <1>1, <1>2 DEF Cleans

\* The invariant of one step of c, from those of its parts.
LEMMA StepOf ==
    ASSUME TypeOK, PathsInv, OwnInv, PartialsAreOwned, NEW c \in Callers,
           Respects(c), Cleans(c), Busy(c)' => Own(c)'
    PROVE  OwnInv' /\ PartialsAreOwned'
BY Bystanders, OwnersKept DEF OwnInv

\* Nobody else's name is the caller's, before or after.
LEMMA AlwaysApart ==
    ASSUME OwnInv, NEW c \in Callers, Respects(c), Busy(c), dest'[c].name = dest[c].name
    PROVE  \A d \in Callers \ {c} : Busy(d)' => dest'[d].name # dest'[c].name
BY DEF OwnInv, Own, Respects, Busy

LEMMA CallsOwn ==
    ASSUME TypeOK, PathsInv, OwnInv, PartialsAreOwned, NEW c \in Callers, Calls(c)
    PROVE  OwnInv' /\ PartialsAreOwned'
<1>1. pc[c] = "idle" /\ body' = body /\ opened' = opened /\ left' = left /\ commits' = commits
  BY DEF Calls, Call, CallByOperator, CallPrune, Refuse, Begin, Within, Goto, directory, source
<1>2. /\ serial \in Nat /\ serial' \in Nat /\ serial <= serial' /\ commits \in Snapshot
      /\ \A d \in Callers : dest[d] \in Path \union {NoPath} /\ (Busy(d) => dest[d].name <= serial)
  <2>1. serial \in Nat /\ commits \in Snapshot /\ \A d \in Callers : dest[d] \in Path \union {NoPath}
    BY Bounds_Assumption DEF TypeOK, CallOK, SourceOK
  <2>2. serial' = serial \/ serial' = serial + 1
    BY DEF Calls, Call, CallByOperator, CallPrune, Refuse, Number, Within
  <2> QED
    BY <2>1, <2>2 DEF OwnInv, Own
<1>3. \A d \in Callers \ {c} :
         /\ pc'[d] = pc[d] /\ dest'[d] = dest[d] /\ read'[d] = read[d] /\ since'[d] = since[d]
         /\ steady'[d] => steady[d]
  BY ReturnEffect
  DEF Calls, Call, CallByOperator, CallPrune, Refuse, Begin, Within, Goto, TypeOK, CallOK, SeenOK
<1>4. Cleans(c)
  BY <1>1 DEF Cleans
<1>5. CASE Call(c)
  <2>1. dest'[c] = [name |-> serial + 1, zip |-> FALSE] /\ pc'[c] = "unlink" /\ serial' = serial + 1
        /\ since'[c] = commits
    BY <1>5 DEF Call, Number, Begin, Goto, TypeOK, CallOK, SeenOK
  <2>2. Respects(c)
    BY <1>1, <1>2, <1>3, <2>1, Bounds_Assumption DEF Respects, Snapshot
  <2>3. \A d \in Callers \ {c} : Busy(d)' => dest'[d].name # dest'[c].name
    <3>1. SUFFICES ASSUME NEW d \in Callers \ {c}, Busy(d)' PROVE dest'[d].name # dest'[c].name
      OBVIOUS
    <3>2. Busy(d) /\ dest'[d] = dest[d] /\ dest[d].name \in Nat /\ dest[d].name <= serial
      BY <1>2, <1>3, <3>1, Bounds_Assumption DEF Busy, InFamily, Automatic
    <3> QED
      BY <1>2, <2>1, <3>2
  <2>4. Own(c)'
    BY <1>1, <1>2, <2>1, <2>3 DEF Own, Snapshot
  <2> QED
    BY <1>4, <2>2, <2>4, StepOf
<1>6. CASE CallByOperator(c) \/ CallPrune(c) \/ Refuse(c)
  <2>1. ~Busy(c)'
    <3>1. CASE CallByOperator(c)
      BY <3>1, Operators_Assumption DEF CallByOperator, Busy, InFamily, Automatic, TypeOK, CallOK
    <3>2. CASE CallPrune(c)
      BY <3>2, PathFacts DEF CallPrune, Busy, TypeOK, CallOK, InFamily
    <3>3. CASE Refuse(c)
      BY <3>3, ReturnEffect DEF Refuse, Busy
    <3> QED
      BY <1>6, <3>1, <3>2, <3>3
  <2>2. Respects(c)
    BY <1>1, <1>2, <1>3, <2>1, Bounds_Assumption DEF Respects, Snapshot
  <2> QED
    BY <1>4, <2>1, <2>2, StepOf
<1> QED
  BY <1>5, <1>6 DEF Calls

\* A step inside a call of c.
LEMMA MoveRespects ==
    ASSUME TypeOK, NEW c \in Callers, pc[c] # "idle", dest'[c].name = dest[c].name,
           \A p \in Path : p \notin {dest[c], ZipOf(dest[c])} => body'[p] \in {body[p], Absent},
           \A d \in Callers \ {c} :
             /\ pc'[d] = pc[d] /\ dest'[d] = dest[d] /\ read'[d] = read[d]
             /\ ~opened'[d] => ~opened[d] \/ body'[Target(d)] = Absent,
           since' = since, steady' = steady, UNCHANGED <<serial, commits>>, left \subseteq left'
    PROVE  Respects(c) /\ (Busy(c)' => Busy(c))
<1>1. serial \in Nat /\ commits \in Snapshot /\ commits <= commits /\ serial <= serial
  BY Bounds_Assumption DEF TypeOK, CallOK, SourceOK, Snapshot
<1> QED
  BY <1>1 DEF Respects, Busy, InFamily

\* The step that ends a call of c.
LEMMA ReturnRespects ==
    ASSUME TypeOK, NEW c \in Callers, Return(c), UNCHANGED <<serial, commits>>, left \subseteq left',
           \A p \in Path : p \notin {dest[c], ZipOf(dest[c])} => body'[p] \in {body[p], Absent},
           \A d \in Callers \ {c} : ~opened'[d] => ~opened[d] \/ body'[Target(d)] = Absent
    PROVE  Respects(c) /\ ~Busy(c)' /\ pc'[c] = "idle"
<1>1. serial \in Nat /\ commits \in Snapshot /\ commits <= commits /\ serial <= serial
  BY Bounds_Assumption DEF TypeOK, CallOK, SourceOK, Snapshot
<1> QED
  BY <1>1, ReturnEffect DEF Respects, Busy

\* The two names of a call, and the one it writes.
LEMMA TwoNames ==
    ASSUME TypeOK, PathsInv, OwnInv, NEW c \in Callers,
           pc[c] \notin {"idle", "list", "sort", "rotate"}
    PROVE  /\ dest[c] \in Path /\ ZipOf(dest[c]) \in Path /\ ZipOf(dest[c]).name = dest[c].name
           /\ Target(c) = (IF Zipping(c) THEN ZipOf(dest[c]) ELSE dest[c])
           /\ Target(c) \in Path /\ Target(c).name = dest[c].name
           /\ Busy(c) => Own(c) /\ ZipOf(dest[c]) # dest[c]
<1>1. dest[c] \in Path /\ Target(c) \in Path /\ ZipOf(dest[c]) \in Path
  BY TargetPath DEF PathsInv
<1> QED
  BY <1>1, PathFacts DEF OwnInv, Own, Target

LEMMA UnlinksOwn ==
    ASSUME TypeOK, PathsInv, OwnInv, PartialsAreOwned, NEW c \in Callers, UnlinkTarget(c)
    PROVE  OwnInv' /\ PartialsAreOwned'
<1>1. /\ pc[c] \in {"unlink", "unlinkZip"} /\ pc[c] # "idle"
      /\ pc'[c] = IF pc[c] = "unlink" THEN "touch" ELSE "touchZip"
      /\ \A d \in Callers \ {c} : pc'[d] = pc[d]
      /\ UNCHANGED <<dest, since, steady, read, left, serial, commits>>
  BY DEF UnlinkTarget, Goto, Within, locals, arguments, source, TypeOK, CallOK
<1>2. DirectoryOK /\ Unlink(Target(c))
  BY DEF TypeOK, UnlinkTarget
<1>3. /\ \A q \in Path : body'[q] = IF q = Target(c) THEN Absent ELSE body[q]
      /\ \A d \in Callers : opened'[d] = (opened[d] /\ Target(d) # Target(c))
  BY <1>1, <1>2, TwoNames, UnlinkEffect
<1>4. Respects(c) /\ (Busy(c)' => Busy(c))
  BY <1>1, <1>3, TwoNames, MoveRespects
<1>5. Target(c)' = Target(c)
  BY <1>1 DEF Target, Zipping, ZipOf
<1>6. Cleans(c)
  BY <1>1, <1>3, <1>5 DEF Cleans, Partial, Blank, Absent
<1>7. ASSUME Busy(c) PROVE Own(c)'
  BY <1>1, <1>3, <1>4, <1>7, TwoNames, AlwaysApart DEF Own, Kept, Sound, Zipping
<1> QED
  BY <1>4, <1>6, <1>7, StepOf

LEMMA TouchesOwn ==
    ASSUME TypeOK, PathsInv, OwnInv, PartialsAreOwned, NEW c \in Callers, TouchTarget(c)
    PROVE  OwnInv' /\ PartialsAreOwned'
<1>1. /\ pc[c] \in {"touch", "touchZip"} /\ pc[c] # "idle"
      /\ pc'[c] = IF pc[c] = "touch" THEN "connect" ELSE "zip"
      /\ \A d \in Callers \ {c} : pc'[d] = pc[d]
      /\ UNCHANGED <<opened, dest, since, steady, read, left, serial, commits>>
  BY DEF TouchTarget, Goto, Within, locals, arguments, source, TypeOK, CallOK
<1>2. \A q \in Path : q # Target(c) => body'[q] = body[q]
  BY DEF TypeOK, DirectoryOK, TouchTarget, Write
<1>3. Respects(c) /\ (Busy(c)' => Busy(c))
  BY <1>1, <1>2, TwoNames, MoveRespects
<1>4. Target(c)' = Target(c)
  BY <1>1 DEF Target, Zipping, ZipOf
<1>5. Cleans(c)
  BY <1>1, <1>2, <1>4 DEF Cleans
<1>6. ASSUME Busy(c) PROVE Own(c)'
  BY <1>1, <1>2, <1>3, <1>6, TwoNames, AlwaysApart DEF Own, Kept, Sound, Zipping
<1> QED
  BY <1>3, <1>5, <1>6, StepOf

LEMMA ConnectsOwn ==
    ASSUME TypeOK, PathsInv, OwnInv, PartialsAreOwned, NEW c \in Callers, Connect(c)
    PROVE  OwnInv' /\ PartialsAreOwned'
<1>1. /\ pc[c] = "connect" /\ pc'[c] = "open" /\ \A d \in Callers \ {c} : pc'[d] = pc[d]
      /\ UNCHANGED <<body, opened, dest, since, steady, read, left, serial, commits>>
  BY DEF Connect, Goto, directory, locals, arguments, TypeOK, CallOK
<1>2. Respects(c) /\ (Busy(c)' => Busy(c))
  BY <1>1, TwoNames, MoveRespects
<1>3. Target(c)' = Target(c)
  BY <1>1 DEF Target, Zipping, ZipOf
<1>4. Cleans(c)
  BY <1>1, <1>3 DEF Cleans
<1>5. ASSUME Busy(c) PROVE Own(c)'
  BY <1>1, <1>2, <1>5, TwoNames, AlwaysApart DEF Own, Kept, Sound, Zipping
<1> QED
  BY <1>2, <1>4, <1>5, StepOf

LEMMA OpensOwn ==
    ASSUME TypeOK, PathsInv, OwnInv, PartialsAreOwned, NEW c \in Callers, Open(c)
    PROVE  OwnInv' /\ PartialsAreOwned'
<1>1. /\ pc[c] = "open" /\ pc'[c] = "copy" /\ \A d \in Callers \ {c} : pc'[d] = pc[d]
      /\ UNCHANGED <<dest, since, steady, read, left, serial, commits>>
  BY DEF Open, Goto, Within, locals, arguments, source, TypeOK, CallOK
<1>2. DirectoryOK /\ OpenTarget(c)
  BY DEF TypeOK, Open
<1>3. /\ \A q \in Path : q # Target(c) => body'[q] = body[q]
      /\ opened'[c] /\ \A d \in Callers \ {c} : opened'[d] = opened[d]
  BY <1>1, <1>2, TwoNames, OpenEffect
<1>4. Respects(c) /\ (Busy(c)' => Busy(c))
  BY <1>1, <1>3, TwoNames, MoveRespects
<1>5. Target(c)' = Target(c)
  BY <1>1 DEF Target, Zipping, ZipOf
<1>6. Cleans(c)
  BY <1>1, <1>3, <1>5 DEF Cleans
<1>7. ASSUME Busy(c) PROVE Own(c)'
  BY <1>1, <1>3, <1>4, <1>7, TwoNames, AlwaysApart DEF Own, Kept, Sound, Zipping
<1> QED
  BY <1>4, <1>6, <1>7, StepOf

LEMMA CopiesOwn ==
    ASSUME TypeOK, PathsInv, OwnInv, PartialsAreOwned, NEW c \in Callers, Copy(c)
    PROVE  OwnInv' /\ PartialsAreOwned'
<1>1. /\ pc[c] = "copy" /\ pc'[c] = "copying" /\ \A d \in Callers \ {c} : pc'[d] = pc[d]
      /\ UNCHANGED <<opened, dest, since, steady, left, serial, commits>>
      /\ \A d \in Callers \ {c} : read'[d] = read[d]
      /\ read'[c] = commits \/ (~steady[c] /\ read'[c] = Blank)
  BY DEF Copy, Goto, Within, arguments, source, TypeOK, CallOK
<1>2. \A q \in Path : q # dest[c] \/ ~opened[c] => body'[q] = body[q]
  BY DEF TypeOK, DirectoryOK, Copy, Write
<1>3. Respects(c) /\ (Busy(c)' => Busy(c))
  BY <1>1, <1>2, TwoNames, MoveRespects
<1>4. Target(c)' = Target(c) /\ Target(c) = dest[c]
  BY <1>1 DEF Target, Zipping, ZipOf
<1>5. Cleans(c)
  BY <1>1, <1>2, <1>4 DEF Cleans
<1>6. ASSUME Busy(c) PROVE Own(c)'
  <2>1. commits \in Snapshot /\ since[c] \in Snapshot
    BY DEF TypeOK, SourceOK, SeenOK
  <2>2. Sound(c, read[c])'
    BY <1>1, <1>6, <2>1, TwoNames, Bounds_Assumption DEF Sound, Own, Snapshot
  <2> QED
    BY <1>1, <1>2, <1>3, <1>6, <2>2, TwoNames, AlwaysApart DEF Own
<1> QED
  BY <1>3, <1>5, <1>6, StepOf

\* What was written is a backup, or it has left a file that is none.
LEMMA CopiedOwn ==
    ASSUME TypeOK, PathsInv, OwnInv, PartialsAreOwned, NEW c \in Callers, Copied(c)
    PROVE  OwnInv' /\ PartialsAreOwned'
<1>1. /\ pc[c] = "copying" /\ pc'[c] \in {"unlinkZip", "list", "rotate"}
      /\ \A d \in Callers \ {c} : pc'[d] = pc[d]
      /\ UNCHANGED <<dest, since, steady, read, serial, commits>>
      /\ left' = left \union {p \in {dest[c]} : read[c] = Blank}
  BY DEF Copied, AfterWriting, Within, locals, arguments, source, TypeOK, CallOK
<1>2. DirectoryOK /\ WriteTarget(c, read[c]) /\ read[c] \in Content
  BY DEF TypeOK, CallOK, Copied
<1>3. Target(c) = dest[c]
  BY <1>1, TwoNames DEF Zipping
<1>4. /\ \A q \in Path : body'[q] = IF q = dest[c] /\ opened[c] THEN read[c] ELSE body[q]
      /\ \A d \in Callers \ {c} : opened'[d] = opened[d]
  BY <1>1, <1>2, <1>3, TwoNames, WriteTargetEffect
<1>5. Respects(c) /\ (Busy(c)' => Busy(c))
  BY <1>1, <1>4, TwoNames, MoveRespects
<1>6. ASSUME Busy(c) PROVE Own(c)' /\ body'[dest[c]] # Partial /\ (body'[dest[c]] = Blank => dest[c] \in left')
  <2>1. Own(c) /\ dest[c] \in Path
    BY <1>1, <1>6, TwoNames
  <2>2. Sound(c, read[c]) /\ Sound(c, read[c])'
    BY <1>1, <2>1 DEF Own, Sound
  <2>3. body'[dest[c]] = Absent \/ (body'[dest[c]] = read[c] /\ (read[c] = Blank => dest[c] \in left'))
    BY <1>1, <1>4, <2>1 DEF Own
  <2>4. Kept(c, dest[c])'
    BY <1>1, <2>2, <2>3 DEF Kept, Sound
  <2>5. Own(c)'
    BY <1>1, <1>5, <1>6, <2>1, <2>4, TwoNames, AlwaysApart DEF Own
  <2> QED
    BY <2>2, <2>3, <2>5, Bounds_Assumption DEF Sound, Snapshot, Partial, Blank, Absent
<1>7. Cleans(c)
  <2> SUFFICES ASSUME NEW p \in Path, InFamily(p), body'[p] \in {Partial, Blank}, p = dest[c]
               PROVE  p \in left'
    BY <1>1, <1>3, <1>4 DEF Cleans
  <2>1. Busy(c)
    BY <1>1 DEF Busy
  <2> QED
    BY <1>6, <2>1
<1> QED
  BY <1>5, <1>6, <1>7, StepOf

LEMMA ZipsOwn ==
    ASSUME TypeOK, PathsInv, OwnInv, PartialsAreOwned, NEW c \in Callers, Zip(c)
    PROVE  OwnInv' /\ PartialsAreOwned'
<1>1. /\ pc[c] = "zip" /\ pc'[c] = "zipping" /\ \A d \in Callers \ {c} : pc'[d] = pc[d]
      /\ UNCHANGED <<dest, since, steady, left, serial, commits>>
      /\ \A d \in Callers \ {c} : read'[d] = read[d]
      /\ read'[c] = body[dest[c]] /\ body[dest[c]] # Absent
  BY DEF Zip, Goto, Within, Exists, arguments, source, TypeOK, CallOK
<1>2. DirectoryOK /\ OpenTarget(c)
  BY DEF TypeOK, Zip
<1>3. /\ \A q \in Path : q # Target(c) => body'[q] = body[q]
      /\ opened'[c] /\ \A d \in Callers \ {c} : opened'[d] = opened[d]
  BY <1>1, <1>2, TwoNames, OpenEffect
<1>4. Respects(c) /\ (Busy(c)' => Busy(c))
  BY <1>1, <1>3, TwoNames, MoveRespects
<1>5. Target(c)' = Target(c)
  BY <1>1 DEF Target, Zipping, ZipOf
<1>6. Cleans(c)
  BY <1>1, <1>3, <1>5 DEF Cleans
<1>7. ASSUME Busy(c) PROVE Own(c)'
  BY <1>1, <1>3, <1>4, <1>7, TwoNames, AlwaysApart DEF Own, Kept, Sound, Zipping
<1> QED
  BY <1>4, <1>6, <1>7, StepOf

LEMMA ZippedOwn ==
    ASSUME TypeOK, PathsInv, OwnInv, PartialsAreOwned, NEW c \in Callers, Zipped(c)
    PROVE  OwnInv' /\ PartialsAreOwned'
<1>1. /\ pc[c] = "zipping" /\ pc'[c] = "drop" /\ \A d \in Callers \ {c} : pc'[d] = pc[d]
      /\ UNCHANGED <<dest, since, steady, read, serial, commits>>
      /\ left' = left \union {p \in {Target(c)} : read[c] = Blank}
  BY DEF Zipped, Goto, Within, locals, arguments, source, TypeOK, CallOK
<1>2. DirectoryOK /\ WriteTarget(c, read[c]) /\ read[c] \in Content
  BY DEF TypeOK, CallOK, Zipped
<1>3. Target(c) = ZipOf(dest[c])
  BY <1>1, TwoNames DEF Zipping
<1>4. /\ \A q \in Path : body'[q] = IF q = ZipOf(dest[c]) /\ opened[c] THEN read[c] ELSE body[q]
      /\ \A d \in Callers \ {c} : opened'[d] = opened[d]
  BY <1>1, <1>2, <1>3, TwoNames, WriteTargetEffect
<1>5. Respects(c) /\ (Busy(c)' => Busy(c))
  BY <1>1, <1>4, TwoNames, MoveRespects
<1>6. ASSUME Busy(c)
      PROVE  /\ Own(c)' /\ body'[ZipOf(dest[c])] # Partial
             /\ body'[ZipOf(dest[c])] = Blank => ZipOf(dest[c]) \in left'
  <2>1. Own(c) /\ ZipOf(dest[c]) \in Path /\ dest[c] \in Path /\ ZipOf(dest[c]) # dest[c]
    BY <1>1, <1>6, TwoNames
  <2>2. Sound(c, read[c]) /\ \A b : Sound(c, b) => Sound(c, b)'
    BY <1>1, <2>1 DEF Own, Sound
  <2>3. \/ body'[ZipOf(dest[c])] = Absent
        \/ body'[ZipOf(dest[c])] = read[c] /\ (read[c] = Blank => ZipOf(dest[c]) \in left')
    BY <1>1, <1>3, <1>4, <2>1 DEF Own
  <2>4. ZipOf(dest[c])' = ZipOf(dest[c])
    BY <1>1 DEF ZipOf
  <2>5. Kept(c, ZipOf(dest[c]))' /\ Kept(c, dest[c])'
    BY <1>1, <1>4, <2>1, <2>2, <2>3, <2>4 DEF Kept, Own
  <2>6. Own(c)'
    BY <1>1, <1>5, <1>6, <2>1, <2>5, TwoNames, AlwaysApart DEF Own
  <2> QED
    BY <2>2, <2>3, <2>6, Bounds_Assumption DEF Sound, Snapshot, Partial, Blank, Absent
<1>7. Cleans(c)
  <2> SUFFICES ASSUME NEW p \in Path, InFamily(p), body'[p] \in {Partial, Blank}, p = ZipOf(dest[c])
               PROVE  p \in left'
    BY <1>1, <1>3, <1>4 DEF Cleans
  <2>1. Busy(c)
    BY <1>1, TwoNames DEF Busy, InFamily
  <2> QED
    BY <1>6, <2>1
<1> QED
  BY <1>5, <1>6, <1>7, StepOf

\* The calls that end with an error take their file away, or leave it by name.
LEMMA FailuresOwn ==
    ASSUME TypeOK, PathsInv, OwnInv, PartialsAreOwned, NEW c \in Callers,
           CopyFails(c) \/ CopyRaises(c) \/ SetupFails(c) \/ ZipFails(c) \/ Crash(c)
    PROVE  OwnInv' /\ PartialsAreOwned'
<1>1. Return(c) /\ UNCHANGED <<serial, commits>> /\ left \subseteq left'
  BY DEF CopyFails, CopyRaises, SetupFails, ZipFails, Crash, Within, source
<1>2. DirectoryOK
  BY DEF TypeOK
<1>3. CASE CopyFails(c) \/ ZipFails(c)
  <2>1. Target(c) \in Path /\ Target(c) \in {dest[c], ZipOf(dest[c])} /\ Unlink(Target(c))
    BY <1>3, TwoNames DEF CopyFails, ZipFails, Zipping
  <2>2. /\ \A q \in Path : body'[q] = IF q = Target(c) THEN Absent ELSE body[q]
        /\ \A d \in Callers : opened'[d] = (opened[d] /\ Target(d) # Target(c))
    BY <1>2, <2>1, UnlinkEffect
  <2>3. Respects(c) /\ ~Busy(c)'
    BY <1>1, <2>1, <2>2, ReturnRespects
  <2>4. Cleans(c)
    BY <2>2 DEF Cleans, Partial, Blank, Absent
  <2> QED
    BY <2>3, <2>4, StepOf
<1>4. CASE CopyRaises(c) \/ SetupFails(c) \/ Crash(c)
  <2>1. body' = body /\ left' = left \union Leftovers(c)
        /\ \A d \in Callers \ {c} : opened'[d] = opened[d]
    BY <1>2, <1>4 DEF CopyRaises, SetupFails, Crash, directory, DirectoryOK
  <2>2. Respects(c) /\ ~Busy(c)'
    BY <1>1, <2>1, ReturnRespects
  <2>3. Cleans(c)
    BY <2>1 DEF Cleans, Leftovers, Target
  <2> QED
    BY <2>2, <2>3, StepOf
<1> QED
  BY <1>3, <1>4

LEMMA DropsOwn ==
    ASSUME TypeOK, PathsInv, OwnInv, PartialsAreOwned, NEW c \in Callers, Drop(c)
    PROVE  OwnInv' /\ PartialsAreOwned'
<1>1. pc[c] = "drop" /\ UNCHANGED <<left, serial, commits>> /\ DirectoryOK
  BY DEF Drop, Within, source, TypeOK
<1>2. Target(c) = dest[c]
  BY <1>1, TwoNames DEF Zipping
<1>3. CASE ~Exists(dest[c])
  <2>1. Return(c) /\ UNCHANGED <<body, opened>>
    BY <1>3 DEF Drop, directory
  <2>2. Respects(c) /\ ~Busy(c)'
    BY <1>1, <2>1, ReturnRespects
  <2>3. Cleans(c)
    BY <1>2, <1>3, <2>1 DEF Cleans, Exists, Partial, Blank, Absent
  <2> QED
    BY <2>2, <2>3, StepOf
<1>4. CASE Exists(dest[c])
  <2>1. /\ Unlink(dest[c]) /\ UNCHANGED <<since, steady, read>>
        /\ pc'[c] \in {"list", "rotate"} /\ dest'[c] = ZipOf(dest[c])
        /\ \A d \in Callers \ {c} : pc'[d] = pc[d] /\ dest'[d] = dest[d]
    BY <1>4 DEF Drop, AfterWriting, TypeOK, CallOK
  <2>2. /\ \A q \in Path : body'[q] = IF q = dest[c] THEN Absent ELSE body[q]
        /\ \A d \in Callers : opened'[d] = (opened[d] /\ Target(d) # dest[c])
    BY <1>1, <2>1, TwoNames, UnlinkEffect
  <2>3. Respects(c) /\ (Busy(c)' => Busy(c))
    BY <1>1, <2>1, <2>2, TwoNames, MoveRespects
  <2>4. Cleans(c)
    BY <1>2, <2>2 DEF Cleans, Partial, Blank, Absent
  <2>5. ASSUME Busy(c) PROVE Own(c)'
    <3>1. Kept(c, ZipOf(dest[c])) /\ ZipOf(dest[c]) \in Path /\ ZipOf(dest[c]) # dest[c]
      BY <1>1, <2>5, TwoNames DEF Own
    <3>2. Kept(c, dest[c])'
      BY <1>1, <2>1, <2>2, <3>1 DEF Kept, Sound
    <3> QED
      BY <1>1, <2>1, <2>3, <2>5, <3>2, TwoNames, AlwaysApart DEF Own
  <2> QED
    BY <2>3, <2>4, <2>5, StepOf
<1> QED
  BY <1>3, <1>4

\* The rotation, where a call's own file is a backup or gone.
LEMMA PrunesOwn ==
    ASSUME TypeOK, PathsInv, OwnInv, PartialsAreOwned, NEW c \in Callers, Prunes(c) \/ Stat(c)
    PROVE  OwnInv' /\ PartialsAreOwned'
<1>1. /\ pc[c] \in {"list", "sort", "rotate"} /\ pc[c] # "idle"
      /\ UNCHANGED <<left, serial, commits>> /\ DirectoryOK
  BY DEF Prunes, List, Sort, Rotate, Stat, Pruned, Within, source, TypeOK
<1>2. Target(c) = dest[c]
  BY <1>1 DEF Target, Zipping
<1>3. InFamily(dest[c]) /\ body[dest[c]] \in {Partial, Blank} => dest[c] \in left
  BY <1>1, Bounds_Assumption DEF OwnInv, Own, Kept, Sound, Busy, Snapshot, Partial, Blank, Absent
<1>4. CASE Return(c) /\ UNCHANGED <<body, opened>>
  <2>1. Respects(c) /\ ~Busy(c)'
    BY <1>1, <1>4, ReturnRespects
  <2>2. Cleans(c)
    BY <1>1, <1>2, <1>3, <1>4 DEF Cleans
  <2> QED
    BY <2>1, <2>2, StepOf
<1>5. CASE /\ pc'[c] \in {"sort", "rotate"}
           /\ \A d \in Callers \ {c} : pc'[d] = pc[d]
           /\ UNCHANGED <<dest, since, steady, read>>
           /\ \A q \in Path : body'[q] \in {body[q], Absent}
           /\ \A d \in Callers : opened'[d] \in BOOLEAN
                /\ (~opened'[d] => ~opened[d] \/ body'[Target(d)] = Absent)
  <2>1. Respects(c) /\ (Busy(c)' => Busy(c))
    BY <1>1, <1>5, MoveRespects
  <2>2. Target(c)' = Target(c)
    BY <1>1, <1>5 DEF Target, Zipping, ZipOf
  <2>3. Cleans(c)
    BY <1>5, <2>2 DEF Cleans, Partial, Blank, Absent
  <2>4. ASSUME Busy(c) PROVE Own(c)'
    <3>1. Own(c) /\ dest[c] \in Path
      <4>1. dest[c] \in Path \union {NoPath}
        BY DEF TypeOK, CallOK
      <4> QED
        BY <2>4, <4>1, PathFacts DEF OwnInv, Busy
    <3>2. Kept(c, dest[c])'
      BY <1>1, <1>5, <3>1 DEF Own, Kept, Sound
    <3> QED
      BY <1>1, <1>5, <2>1, <2>4, <3>1, <3>2, AlwaysApart DEF Own
  <2> QED
    BY <2>1, <2>3, <2>4, StepOf
<1>6. CASE List(c) \/ Sort(c)
  <2>1. UNCHANGED <<body, opened>>
    BY <1>6 DEF List, Sort, directory
  <2>2. \/ Return(c)
        \/ \E to \in {"sort", "rotate"} : pc' = [pc EXCEPT ![c] = to]
             /\ UNCHANGED <<dest, since, steady, read>>
    BY <1>6 DEF List, Sort, Goto, arguments
  <2> QED
    BY <1>1, <1>4, <1>5, <2>1, <2>2 DEF TypeOK, CallOK, DirectoryOK
<1>7. CASE Rotate(c)
  <2>1. PICK p \in Path : Unlink(p)
    BY <1>7 DEF Rotate, TypeOK, CallOK
  <2>2. /\ \A q \in Path : body'[q] = IF q = p THEN Absent ELSE body[q]
        /\ \A d \in Callers : opened'[d] = (opened[d] /\ Target(d) # p)
    BY <1>1, <2>1, UnlinkEffect
  <2>3. pc' = pc /\ pc[c] = "rotate" /\ UNCHANGED <<dest, since, steady, read>>
    BY <1>7 DEF Rotate, arguments
  <2> QED
    BY <1>5, <2>2, <2>3
<1>8. CASE Stat(c)
  BY <1>4, <1>8 DEF Stat, directory
<1> QED
  BY <1>6, <1>7, <1>8 DEF Prunes

\* The application's commits and the database's misfortunes.
LEMMA OutsideOwn ==
    ASSUME TypeOK, PathsInv, OwnInv, PartialsAreOwned, Commit \/ Damage \/ Repair \/ UNCHANGED vars
    PROVE  OwnInv' /\ PartialsAreOwned'
<1>1. /\ UNCHANGED <<body, opened, left, serial, pc, dest, since, read>>
      /\ commits \in Nat /\ commits' \in Nat /\ commits <= commits'
      /\ \A c \in Callers : steady'[c] => steady[c] \/ pc[c] = "idle"
  BY Bounds_Assumption
  DEF Commit, Damage, Repair, vars, directory, source, locals, arguments, TypeOK, SourceOK, SeenOK, Snapshot
<1>2. \A c \in Callers : Target(c)' = Target(c) /\ Busy(c)' = Busy(c) /\ ZipOf(dest[c])' = ZipOf(dest[c])
  BY <1>1 DEF Target, Zipping, ZipOf, Busy
<1>3. PartialsAreOwned'
  BY <1>1, <1>2 DEF PartialsAreOwned
<1>4. ASSUME NEW c \in Callers, Busy(c) PROVE Own(c)'
  <2>1. Own(c) /\ (steady'[c] => steady[c]) /\ since[c] \in Nat
    BY <1>1, <1>4, Bounds_Assumption DEF OwnInv, Busy, TypeOK, SeenOK, Snapshot
  <2>2. \A b : Sound(c, b) => Sound(c, b)'
    BY <1>1, <2>1 DEF Sound, Snapshot
  <2>3. Sound(c, read[c]) => Sound(c, read[c])'
    BY <1>1, <2>2 DEF Sound
  <2>4. Kept(c, dest[c]) => Kept(c, dest[c])'
    BY <1>1, <2>2 DEF Kept, Sound
  <2>5. Kept(c, ZipOf(dest[c])) => Kept(c, ZipOf(dest[c]))'
    BY <1>1, <1>2, <2>2 DEF Kept, Sound
  <2> QED
    BY <1>1, <1>2, <2>1, <2>3, <2>4, <2>5 DEF Own
<1> QED
  BY <1>2, <1>3, <1>4 DEF OwnInv

LEMMA OwnInductive == Spec => [](OwnInv /\ PartialsAreOwned)
<1>1. Init => OwnInv /\ PartialsAreOwned
  BY DEF Init, OwnInv, Busy, PartialsAreOwned, Partial, Blank, Absent
<1>2. TypeOK /\ PathsInv /\ OwnInv /\ PartialsAreOwned /\ [Next]_vars => OwnInv' /\ PartialsAreOwned'
  BY CallsOwn, UnlinksOwn, TouchesOwn, ConnectsOwn, OpensOwn, CopiesOwn, CopiedOwn, ZipsOwn, ZippedOwn,
     DropsOwn, FailuresOwn, PrunesOwn, OutsideOwn
  DEF Next, Copies, Compresses, Environment
<1> QED
  BY <1>1, <1>2, TypesInductive, PTL DEF Spec

\* What a failed or a finished call leaves in the family is a backup, unless a
\* crash, an unreadable database or one that could not be opened stopped it there.
THEOREM PartialsHaveOwners == Spec => []PartialsAreOwned
BY OwnInductive, PTL

\* A reported automatic backup holds what was committed while it was taken,
\* however the calls interleave.
THEOREM ReportedAreFresh == Spec => []ReportedIsFresh
<1>1. TypeOK /\ OwnInv => ReportedIsFresh
  <2> SUFFICES ASSUME TypeOK, OwnInv, NEW c \in Callers,
                      Pruned(c), InFamily(dest[c]), steady[c], Exists(dest[c])
               PROVE  body[dest[c]] \in since[c]..commits
    BY DEF ReportedIsFresh
  <2>1. pc[c] = "rotate" /\ Own(c)
    BY DEF Pruned, OwnInv, Busy
  <2> QED
    BY <2>1 DEF Own, Kept, Sound, Exists
<1> QED
  BY <1>1, OwnInductive, TypesInductive, PTL

-----------------------------------------------------------------------------
(* A backup that no other overlaps stays the newest of its family *)

\* Nothing is at the path, and no rotation has listed it.
Unused(p) == ~Exists(p) /\ \A d \in Callers : p \notin names[d]

\* No rotation is to delete the file, and none would: it is the newest.
Newest(p) ==
    /\ Exists(p) /\ \A q \in later[p] : ~InFamily(q)
    /\ \A d \in Callers : pc[d] = "rotate" => p \notin names[d]

\* What holds of a backup while it is the only one being taken.
Survivor(c) ==
    /\ \A d \in Callers \ {c} : ~Busy(d)
    /\ pc[c] \in {"unlink", "touch"} => Unused(dest[c])
    /\ pc[c] \in {"connect", "open", "copy", "copying", "list", "sort", "rotate"} => Newest(dest[c])
    /\ pc[c] \in {"unlink", "touch", "connect", "open", "copy", "copying", "unlinkZip", "touchZip"} =>
         Unused(ZipOf(dest[c]))
    /\ pc[c] \in {"zip", "zipping", "drop"} => Newest(ZipOf(dest[c]))

Undisturbed(c) == Busy(c) /\ alone[c] /\ "clock" \notin faults /\ least > 0

\* A call names nothing to rotate before it lists; a name not given out is free.
NamesInv ==
    /\ \A c \in Callers : pc[c] \notin {"sort", "rotate"} => names[c] = {}
    /\ \A p \in Path : p.name \in Automatic /\ p.name > serial => Unused(p)

SurvivalInv == NamesInv /\ \A c \in Callers : Undisturbed(c) => Survivor(c)

\* The step is c's: what it may do to files and to the rotations of others.
Mild(c) ==
    /\ \A d \in Callers : \A p \in names'[d] : p \in names[d] \/ Exists(p)
    /\ \A d \in Callers : pc'[d] = "rotate" =>
         \A p \in names'[d] : \/ pc[d] = "rotate" /\ p \in names[d]
                              \/ least' > 0 => \E q \in later[p] : InFamily(q)
    /\ \A d \in Callers : pc'[d] \notin {"sort", "rotate"} => names'[d] = {}
    /\ (least' > 0 => least > 0) /\ faults \subseteq faults'
    /\ \A d \in Callers \ {c} :
         /\ pc'[d] = pc[d] /\ dest'[d] = dest[d]
         /\ Busy(d) /\ alone'[d] => alone[d] /\ (Busy(c)' => Busy(c))
    /\ \A p \in Path : p \notin {dest[c], ZipOf(dest[c])} =>
         body'[p] = body[p] \/ (body'[p] = Absent /\ pc[c] = "rotate" /\ p \in names[c])
    /\ "clock" \notin faults' =>
         \A p \in Path : \A q \in later'[p] : q \in later[p] \/ q \in {dest[c], ZipOf(dest[c])}

LEMMA StampLater ==
    ASSUME NEW p \in Path, Stamp(p), "clock" \notin faults'
    PROVE  \A q \in Path : later'[q] = IF q = p \/ ~Exists(q) THEN {} ELSE later[q] \union {p}
BY DEF Stamp, Fault

\* A file that the step neither writes nor may rotate out.
LEMMA Stays ==
    ASSUME NEW c \in Callers, Mild(c), NEW p \in Path, least' > 0,
           body'[p] = body[p] \/ (body'[p] = Absent /\ pc[c] = "rotate" /\ p \in names[c]),
           \A q \in later'[p] : q \in later[p] \/ ~InFamily(q)
    PROVE  (Unused(p) => Unused(p)') /\ (Newest(p) => Newest(p)')
<1>1. Unused(p) => Unused(p)'
  BY DEF Mild, Unused, Exists
<1>2. ASSUME Newest(p) PROVE Newest(p)'
  <2>1. Exists(p)' /\ \A q \in later'[p] : ~InFamily(q)
    BY <1>2 DEF Newest, Exists
  <2>2. ASSUME NEW d \in Callers, pc'[d] = "rotate" PROVE p \notin names'[d]
    BY <1>2, <2>2 DEF Mild, Newest
  <2> QED
    BY <2>1, <2>2 DEF Newest, InFamily
<1> QED
  BY <1>1, <1>2

\* A file that the step writes is the newest.
LEMMA Written ==
    ASSUME NEW c \in Callers, Mild(c), NEW p \in Path, least' > 0,
           body'[p] # Absent, later'[p] = {}, Unused(p) \/ Newest(p)
    PROVE  Newest(p)'
<1>1. ASSUME NEW d \in Callers, pc'[d] = "rotate" PROVE p \notin names'[d]
  BY <1>1 DEF Mild, Newest, Unused
<1> QED
  BY <1>1 DEF Newest, Exists

LEMMA SurvivorsAmongOthers ==
    ASSUME TypeOK, PathsInv, OwnInv, SurvivalInv, NEW c \in Callers, Mild(c),
           NEW d \in Callers \ {c}, Undisturbed(d)'
    PROVE  Survivor(d)'
<1>1. Busy(d) /\ Undisturbed(d) /\ (Busy(c)' => Busy(c)) /\ pc'[d] = pc[d] /\ dest'[d] = dest[d]
      /\ "clock" \notin faults' /\ least' > 0
  BY DEF Mild, Undisturbed, Busy
<1>2. Survivor(d) /\ ~Busy(c)
  BY <1>1 DEF SurvivalInv, Survivor
<1>3. dest[d] \in Path /\ ZipOf(dest[d]) \in Path /\ InFamily(dest[d]) /\ InFamily(ZipOf(dest[d]))
  BY <1>1, Apart, PathFacts DEF Busy, InFamily
<1>4. ~InFamily(dest[c]) /\ ~InFamily(ZipOf(dest[c]))
  <2>1. dest[c] \in Path \union {NoPath} /\ (pc[c] = "idle" => dest[c] = NoPath)
    BY DEF TypeOK, CallOK, PathsInv, PathInv
  <2> QED
    BY <1>2, <2>1, PathFacts DEF Busy, InFamily
<1>5. ASSUME NEW p \in {dest[d], ZipOf(dest[d])}
      PROVE  (Unused(p) => Unused(p)') /\ (Newest(p) => Newest(p)')
  <2>1. p \in Path /\ (body'[p] = body[p] \/ (body'[p] = Absent /\ pc[c] = "rotate" /\ p \in names[c]))
    BY <1>3, <1>4 DEF Mild
  <2>2. \A q \in later'[p] : q \in later[p] \/ ~InFamily(q)
    BY <1>1, <1>3, <1>4 DEF Mild
  <2> QED
    BY <1>1, <1>3, <2>1, <2>2, Stays
<1>6. ZipOf(dest[d])' = ZipOf(dest[d])
  BY <1>1 DEF ZipOf
<1>7. (Unused(dest[d]) => Unused(dest[d])') /\ (Newest(dest[d]) => Newest(dest[d])')
  BY <1>1, <1>5 DEF Unused, Newest, Exists
<1>8. /\ Unused(ZipOf(dest[d])) => Unused(ZipOf(dest[d]))'
      /\ Newest(ZipOf(dest[d])) => Newest(ZipOf(dest[d]))'
  BY <1>5, <1>6 DEF Unused, Newest, Exists
<1>9. \A e \in Callers \ {d} : ~Busy(e)'
  <2> SUFFICES ASSUME NEW e \in Callers \ {d}, Busy(e)' PROVE FALSE
    OBVIOUS
  <2>1. e # c
    BY <1>1, <1>2
  <2> QED
    BY <1>2, <2>1 DEF Mild, Busy, Survivor
<1> QED
  BY <1>1, <1>2, <1>7, <1>8, <1>9 DEF Survivor

LEMMA SurvivalStep ==
    ASSUME TypeOK, PathsInv, OwnInv, SurvivalInv, NEW c \in Callers, Mild(c),
           serial' \in Nat, serial <= serial', Undisturbed(c)' => Survivor(c)'
    PROVE  SurvivalInv'
<1>1. \A d \in Callers : pc'[d] \notin {"sort", "rotate"} => names'[d] = {}
  BY DEF Mild
<1>2. ASSUME NEW p \in Path, p.name \in Automatic, p.name > serial' PROVE Unused(p)'
  <2>1. serial \in Nat /\ p.name \in Nat
    BY <1>2, Bounds_Assumption DEF TypeOK, CallOK, Automatic
  <2>2. Unused(p)
    BY <1>2, <2>1 DEF SurvivalInv, NamesInv
  <2>3. dest[c] \in Path \union {NoPath} /\ (pc[c] = "idle" => dest[c] = NoPath)
    BY DEF TypeOK, CallOK, PathsInv, PathInv
  <2>4. p \notin {dest[c], ZipOf(dest[c])}
    <3>1. CASE Busy(c)
      <4>1. dest[c].name <= serial /\ ZipOf(dest[c]).name = dest[c].name /\ dest[c].name \in Nat
        BY <2>3, <3>1, PathFacts, Bounds_Assumption DEF OwnInv, Own, Busy, InFamily, Automatic
      <4> QED
        BY <1>2, <2>1, <4>1
    <3>2. CASE ~Busy(c)
      BY <1>2, <2>3, <3>2, PathFacts DEF Busy, InFamily
    <3> QED
      BY <3>1, <3>2
  <2> QED
    BY <2>2, <2>4 DEF Mild, Unused, Exists
<1>3. \A d \in Callers : Undisturbed(d)' => Survivor(d)'
  BY SurvivorsAmongOthers
<1> QED
  BY <1>1, <1>2, <1>3 DEF SurvivalInv, NamesInv

\* A step outside the rotation.
LEMMA MildOutside ==
    ASSUME TypeOK, NamesInv, NEW c \in Callers, pc[c] \notin {"idle", "sort", "rotate"},
           names' = names \/ names' = [names EXCEPT ![c] = {}],
           least' = least, faults \subseteq faults',
           \A d \in Callers \ {c} : pc'[d] = pc[d] /\ dest'[d] = dest[d] /\ alone'[d] = alone[d],
           pc'[c] # "sort", pc'[c] # "idle" => dest'[c].name = dest[c].name,
           \A p \in Path : p \notin {dest[c], ZipOf(dest[c])} => body'[p] = body[p],
           "clock" \notin faults' =>
             \A p \in Path : \A q \in later'[p] : q \in later[p] \/ q \in {dest[c], ZipOf(dest[c])}
    PROVE  Mild(c) /\ names'[c] = {} /\ (Busy(c)' => Busy(c))
<1>1. names[c] = {} /\ names' = names
  BY DEF NamesInv, TypeOK, CallOK
<1>2. Busy(c)' => Busy(c)
  BY DEF Busy, InFamily
<1>3. \A d \in Callers : pc'[d] = "rotate" => \A p \in names'[d] : pc[d] = "rotate" /\ p \in names[d]
  BY <1>1
<1>4. \A d \in Callers : pc'[d] \notin {"sort", "rotate"} => names'[d] = {}
  BY <1>1 DEF NamesInv
<1> QED
  BY <1>1, <1>2, <1>3, <1>4 DEF Mild

LEMMA CallsSurvive ==
    ASSUME TypeOK, PathsInv, OwnInv, SurvivalInv, NEW c \in Callers, Calls(c)
    PROVE  SurvivalInv'
<1>1. /\ pc[c] = "idle" /\ body' = body /\ later' = later /\ faults' = faults /\ least' = least
      /\ names' = [names EXCEPT ![c] = {}] \/ names' = names
      /\ \A d \in Callers \ {c} : pc'[d] = pc[d] /\ dest'[d] = dest[d]
      /\ serial' = serial \/ serial' = serial + 1
  BY DEF Calls, Call, CallByOperator, CallPrune, Refuse, Number, Begin, Within, Goto, Return, directory,
         TypeOK, CallOK
<1>2. pc'[c] \in {"idle", "unlink", "list"}
  BY DEF Calls, Call, CallByOperator, CallPrune, Refuse, Goto, Return, TypeOK, CallOK
<1>3. names[c] = {} /\ names' = names /\ serial \in Nat
  <2>1. names \in [Callers -> SUBSET Path] /\ serial \in Nat
    BY Bounds_Assumption DEF TypeOK, CallOK
  <2>2. names[c] = {}
    BY <1>1 DEF SurvivalInv, NamesInv
  <2> QED
    BY <1>1, <2>1, <2>2
<1>4. ASSUME \A d \in Callers \ {c} : Busy(d) /\ alone'[d] => alone[d] /\ (Busy(c)' => Busy(c))
      PROVE  Mild(c)
  <2>1. \A d \in Callers : pc'[d] = "rotate" => \A p \in names'[d] : pc[d] = "rotate" /\ p \in names[d]
    BY <1>1, <1>3
  <2>2. \A d \in Callers : pc'[d] \notin {"sort", "rotate"} => names'[d] = {}
    BY <1>1, <1>3 DEF SurvivalInv, NamesInv
  <2> QED
    BY <1>1, <1>3, <1>4, <2>1, <2>2 DEF Mild
<1>5. CASE Call(c)
  <2>1. /\ dest'[c] = [name |-> serial + 1, zip |-> FALSE] /\ pc'[c] = "unlink"
        /\ alone' = [d \in Callers |->
             IF d = c THEN \A o \in Callers : ~Busy(o) ELSE alone[d] /\ ~Busy(d)]
        /\ serial + 1 \in Automatic
    BY <1>3, <1>5, Bounds_Assumption DEF Call, Number, Begin, Goto, TypeOK, CallOK, Automatic
  <2>2. \A d \in Callers \ {c} : Busy(d) /\ alone'[d] => alone[d] /\ (Busy(c)' => Busy(c))
    BY <2>1
  <2>3. Mild(c)
    BY <1>4, <2>2
  <2>4. ASSUME alone'[c] PROVE Survivor(c)'
    <3>1. \A d \in Callers \ {c} : ~Busy(d)'
      BY <1>1, <2>1, <2>4 DEF Busy
    <3>2. dest'[c] \in Path /\ ZipOf(dest'[c]) \in Path /\ ZipOf(dest'[c]).name = serial + 1
      BY <2>1, PathFacts
    <3>3. Unused(dest'[c]) /\ Unused(ZipOf(dest'[c]))
      BY <1>3, <2>1, <3>2 DEF SurvivalInv, NamesInv
    <3>4. Unused(dest[c])' /\ Unused(ZipOf(dest[c]))'
      BY <1>1, <1>3, <3>3 DEF Unused, Exists, ZipOf
    <3> QED
      BY <2>1, <3>1, <3>4 DEF Survivor
  <2> QED
    BY <1>1, <1>3, <2>3, <2>4, SurvivalStep DEF Undisturbed
<1>6. CASE CallByOperator(c) \/ CallPrune(c) \/ Refuse(c)
  <2>1. ~Busy(c)'
    <3>1. CASE CallByOperator(c)
      BY <3>1, Operators_Assumption DEF CallByOperator, Busy, InFamily, Automatic, TypeOK, CallOK
    <3>2. CASE CallPrune(c)
      BY <3>2, PathFacts DEF CallPrune, Busy, TypeOK, CallOK, InFamily
    <3>3. CASE Refuse(c)
      BY <3>3, ReturnEffect DEF Refuse, Busy
    <3> QED
      BY <1>6, <3>1, <3>2, <3>3
  <2>2. \A d \in Callers \ {c} : alone'[d] = alone[d]
    BY <1>6 DEF CallByOperator, CallPrune, Refuse, Return, TypeOK, SeenOK
  <2>3. Mild(c)
    BY <1>4, <2>1, <2>2
  <2> QED
    BY <1>1, <1>3, <2>1, <2>3, SurvivalStep DEF Undisturbed
<1> QED
  BY <1>5, <1>6 DEF Calls

LEMMA WritesSurvive ==
    ASSUME TypeOK, PathsInv, OwnInv, SurvivalInv, NEW c \in Callers,
           UnlinkTarget(c) \/ TouchTarget(c) \/ Connect(c) \/ Open(c) \/ Copy(c)
    PROVE  SurvivalInv'
<1>1. /\ pc[c] \in {"unlink", "unlinkZip", "touch", "touchZip", "connect", "open", "copy"}
      /\ pc'[c] \in {"touch", "touchZip", "connect", "open", "zip", "copy", "copying"}
      /\ \A d \in Callers \ {c} : pc'[d] = pc[d]
      /\ UNCHANGED <<dest, alone, names, least, serial>>
  BY DEF UnlinkTarget, TouchTarget, Connect, Open, Copy, Goto, Within, locals, arguments, TypeOK, CallOK
<1>2. /\ dest[c] \in Path /\ ZipOf(dest[c]) \in Path /\ Target(c) \in Path
      /\ Target(c) = (IF Zipping(c) THEN ZipOf(dest[c]) ELSE dest[c])
      /\ Busy(c) => Own(c) /\ ZipOf(dest[c]) # dest[c]
  BY <1>1, TwoNames
<1>3. DirectoryOK /\ serial \in Nat
  BY Bounds_Assumption DEF TypeOK, CallOK
<1>4. faults \subseteq faults' /\ \A p \in Path : p # Target(c) => body'[p] = body[p]
  <2>1. CASE UnlinkTarget(c)
    BY <1>2, <1>3, <2>1 DEF UnlinkTarget, Unlink, DirectoryOK
  <2>2. ASSUME NEW b, Write(Target(c), b)
        PROVE  faults \subseteq faults' /\ \A p \in Path : p # Target(c) => body'[p] = body[p]
    BY <1>2, <1>3, <2>2 DEF Write, Stamp, Fault, DirectoryOK
  <2>3. CASE TouchTarget(c)
    BY <2>2, <2>3 DEF TouchTarget
  <2>4. CASE Open(c)
    BY <2>2, <2>4 DEF Open, OpenTarget
  <2>5. CASE Copy(c)
    BY <1>2, <2>2, <2>5 DEF Copy, Goto, Zipping
  <2>6. CASE Connect(c)
    BY <2>6 DEF Connect, directory
  <2> QED
    BY <2>1, <2>3, <2>4, <2>5, <2>6
<1>5. "clock" \notin faults' =>
        \/ later' = later /\ body' = body
        \/ \A q \in Path : later'[q] = IF q = Target(c) \/ ~Exists(q) THEN {} ELSE later[q] \union {Target(c)}
        \/ UnlinkTarget(c) /\ \A q \in Path : later'[q] \subseteq later[q]
  <2>1. CASE UnlinkTarget(c)
    BY <1>3, <2>1 DEF UnlinkTarget, Unlink
  <2>2. CASE TouchTarget(c)
    BY <1>2, <2>2, StampLater DEF TouchTarget, Write
  <2>3. CASE Open(c)
    BY <1>2, <2>3, StampLater DEF Open, OpenTarget, Write
  <2>4. CASE Copy(c)
    BY <1>2, <2>4, StampLater DEF Copy, Write, Goto, Zipping
  <2>5. CASE Connect(c)
    BY <2>5 DEF Connect, directory
  <2> QED
    BY <2>1, <2>2, <2>3, <2>4, <2>5
<1>6. Target(c) \in {dest[c], ZipOf(dest[c])}
  BY <1>2
<1>7. Mild(c) /\ (Busy(c)' => Busy(c))
  <2>1. "clock" \notin faults' =>
          \A p \in Path : \A q \in later'[p] : q \in later[p] \/ q \in {dest[c], ZipOf(dest[c])}
    BY <1>5, <1>6
  <2>2. \A p \in Path : p \notin {dest[c], ZipOf(dest[c])} => body'[p] = body[p]
    BY <1>4, <1>6
  <2> QED
    BY <1>1, <1>4, <2>1, <2>2, MildOutside DEF SurvivalInv
<1>8. ASSUME Undisturbed(c)' PROVE Survivor(c)'
  <2>1. Busy(c) /\ Survivor(c) /\ "clock" \notin faults' /\ least' > 0 /\ InFamily(dest[c])
        /\ ZipOf(dest[c])' = ZipOf(dest[c])
    BY <1>1, <1>4, <1>7, <1>8 DEF Undisturbed, SurvivalInv, Busy, ZipOf
  <2>2. \A d \in Callers \ {c} : ~Busy(d)'
    BY <1>1, <2>1 DEF Survivor, Busy
  <2>3. \A p \in Path : p # Target(c) /\ Unused(p) => Unused(p)'
    BY <1>1, <1>4 DEF Unused, Exists
  <2>4. CASE UnlinkTarget(c)
    <3>1. body'[Target(c)] = Absent
      BY <1>2, <1>3, <2>4 DEF UnlinkTarget, Unlink, DirectoryOK
    <3>2. \A p \in Path : Unused(p) => Unused(p)'
      BY <1>1, <2>3, <3>1 DEF Unused, Exists
    <3>3. \/ pc[c] = "unlink" /\ pc'[c] = "touch"
          \/ pc[c] = "unlinkZip" /\ pc'[c] = "touchZip"
      BY <2>4 DEF UnlinkTarget, Goto, TypeOK, CallOK
    <3>4. Unused(dest[c]) => Unused(dest[c])'
      BY <1>1, <1>2, <3>2 DEF Unused, Exists
    <3>5. Unused(ZipOf(dest[c])) => Unused(ZipOf(dest[c]))'
      BY <1>1, <1>2, <2>1, <3>2 DEF Unused, Exists
    <3> QED
      BY <2>1, <2>2, <3>3, <3>4, <3>5 DEF Survivor
  <2>5. CASE TouchTarget(c)
    <3>1. body'[Target(c)] # Absent /\ later'[Target(c)] = {}
      <4>1. body'[Target(c)] # Absent
        BY <1>2, <1>3, <2>5 DEF TouchTarget, Write, DirectoryOK, Exists, Partial, Absent
      <4>2. Write(Target(c), IF Exists(Target(c)) THEN body[Target(c)] ELSE Partial)
        BY <2>5 DEF TouchTarget
      <4> QED
        BY <1>2, <2>1, <4>1, <4>2, StampLater DEF Write
    <3>2. \/ pc[c] = "touch" /\ pc'[c] = "connect"
          \/ pc[c] = "touchZip" /\ pc'[c] = "zip"
      BY <2>5 DEF TouchTarget, Goto, TypeOK, CallOK
    <3>3. CASE pc[c] = "touch"
      <4>1. Target(c) = dest[c] /\ Unused(dest[c]) /\ Unused(ZipOf(dest[c]))
        BY <1>2, <2>1, <3>3 DEF Zipping, Survivor
      <4>2. Newest(dest[c])'
        <5>1. PICK p \in Path : p = dest[c]
          BY <1>2
        <5>2. Newest(p)'
          BY <1>7, <2>1, <3>1, <4>1, <5>1, Written
        <5> QED
          BY <1>1, <5>1, <5>2 DEF Newest, Exists
      <4>3. Unused(ZipOf(dest[c]))'
        BY <1>1, <1>2, <2>1, <2>3, <4>1 DEF Unused, Exists
      <4> QED
        BY <2>1, <2>2, <3>2, <3>3, <4>2, <4>3 DEF Survivor
    <3>4. CASE pc[c] = "touchZip"
      <4>1. Target(c) = ZipOf(dest[c]) /\ Unused(ZipOf(dest[c]))
        BY <1>2, <2>1, <3>4 DEF Zipping, Survivor
      <4>2. Newest(ZipOf(dest[c]))'
        <5>1. PICK p \in Path : p = ZipOf(dest[c])
          BY <1>2
        <5>2. Newest(p)'
          BY <1>7, <2>1, <3>1, <4>1, <5>1, Written
        <5> QED
          BY <2>1, <5>1, <5>2 DEF Newest, Exists
      <4> QED
        BY <2>1, <2>2, <3>2, <3>4, <4>2 DEF Survivor
    <3> QED
      BY <3>2, <3>3, <3>4
  <2>6. CASE Connect(c) \/ Open(c) \/ Copy(c)
    <3>1. pc[c] \in {"connect", "open", "copy"} /\ pc'[c] \in {"open", "copy", "copying"}
      BY <2>6 DEF Connect, Open, Copy, Goto, TypeOK, CallOK
    <3>2. Target(c) = dest[c] /\ Newest(dest[c]) /\ Unused(ZipOf(dest[c]))
      BY <1>2, <2>1, <3>1 DEF Zipping, Survivor
    <3>3. body'[dest[c]] # Absent
      BY <1>2, <1>3, <2>6, <3>2
      DEF Connect, directory, Open, OpenTarget, Copy, Write, DirectoryOK, Newest, Exists, Partial, Absent
    <3>4. PICK p \in Path : p = dest[c]
      BY <1>2
    <3>5. Newest(p)'
      <4>1. CASE later' = later /\ body' = body
        BY <1>7, <2>1, <3>2, <3>4, <4>1, Stays
      <4>2. CASE \A q \in Path : later'[q] = IF q = Target(c) \/ ~Exists(q) THEN {} ELSE later[q] \union {Target(c)}
        BY <1>7, <2>1, <3>2, <3>3, <3>4, <4>2, Written
      <4>3. ~UnlinkTarget(c)
        BY <3>1 DEF UnlinkTarget, Goto
      <4> QED
        BY <1>5, <2>1, <4>1, <4>2, <4>3
    <3>6. Newest(dest[c])'
      BY <1>1, <3>4, <3>5 DEF Newest, Exists
    <3>7. Unused(ZipOf(dest[c]))'
      BY <1>1, <1>2, <2>1, <2>3, <3>2 DEF Unused, Exists
    <3> QED
      BY <2>1, <2>2, <3>1, <3>6, <3>7 DEF Survivor
  <2> QED
    BY <2>4, <2>5, <2>6
<1> QED
  BY <1>1, <1>3, <1>7, <1>8, SurvivalStep

LEMMA FillsSurvive ==
    ASSUME TypeOK, PathsInv, OwnInv, SurvivalInv, NEW c \in Callers, Copied(c) \/ Zip(c) \/ Zipped(c)
    PROVE  SurvivalInv'
<1>1. /\ \/ pc[c] = "copying" /\ pc'[c] \in {"unlinkZip", AfterWriting(c)}
         \/ pc[c] = "zip" /\ pc'[c] = "zipping"
         \/ pc[c] = "zipping" /\ pc'[c] = "drop"
      /\ \A d \in Callers \ {c} : pc'[d] = pc[d]
      /\ UNCHANGED <<dest, alone, names, least, serial>>
  BY DEF Copied, Zip, Zipped, Goto, Within, locals, arguments, TypeOK, CallOK
<1>2. /\ dest[c] \in Path /\ ZipOf(dest[c]) \in Path /\ Target(c) \in Path
      /\ Target(c) = (IF pc[c] = "copying" THEN dest[c] ELSE ZipOf(dest[c]))
      /\ Target(c) \in {dest[c], ZipOf(dest[c])}
      /\ Busy(c) => Own(c) /\ ZipOf(dest[c]) # dest[c]
  BY <1>1, TwoNames DEF Zipping
<1>3. DirectoryOK /\ serial \in Nat /\ read[c] # Absent
  BY Bounds_Assumption DEF TypeOK, CallOK
<1>4. \/ UNCHANGED <<body, later, faults>>
      \/ \E b \in Content \ {Absent} : Write(Target(c), b)
  <2>1. Partial \in Content \ {Absent} /\ read[c] \in Content \ {Absent}
    BY Bounds_Assumption DEF Content, Partial, Absent, TypeOK, CallOK
  <2>2. CASE Zip(c)
    BY <2>1, <2>2 DEF Zip, OpenTarget
  <2>3. CASE Copied(c) \/ Zipped(c)
    BY <2>1, <2>3 DEF Copied, Zipped, WriteTarget
  <2> QED
    BY <2>2, <2>3
<1>5. faults \subseteq faults' /\ \A p \in Path : p # Target(c) => body'[p] = body[p]
  BY <1>2, <1>3, <1>4 DEF Write, Stamp, Fault, DirectoryOK
<1>6. "clock" \notin faults' =>
        \/ later' = later /\ body' = body
        \/ /\ body'[Target(c)] # Absent
           /\ \A q \in Path : later'[q] = IF q = Target(c) \/ ~Exists(q) THEN {} ELSE later[q] \union {Target(c)}
  <2>1. ASSUME NEW b \in Content \ {Absent}, Write(Target(c), b), "clock" \notin faults'
        PROVE  /\ body'[Target(c)] # Absent
               /\ \A q \in Path : later'[q] = IF q = Target(c) \/ ~Exists(q) THEN {} ELSE later[q] \union {Target(c)}
    BY <1>2, <1>3, <2>1, StampLater DEF Write, DirectoryOK
  <2> QED
    BY <1>4, <2>1
<1>7. Mild(c) /\ (Busy(c)' => Busy(c))
  <2>1. "clock" \notin faults' =>
          \A p \in Path : \A q \in later'[p] : q \in later[p] \/ q \in {dest[c], ZipOf(dest[c])}
    BY <1>2, <1>6
  <2>2. \A p \in Path : p \notin {dest[c], ZipOf(dest[c])} => body'[p] = body[p]
    BY <1>2, <1>5
  <2>3. pc'[c] # "sort" /\ pc[c] \notin {"idle", "sort", "rotate"}
    BY <1>1 DEF AfterWriting
  <2> QED
    BY <1>1, <1>5, <2>1, <2>2, <2>3, MildOutside DEF SurvivalInv
<1>8. ASSUME Undisturbed(c)' PROVE Survivor(c)'
  <2>1. Busy(c) /\ Survivor(c) /\ "clock" \notin faults' /\ least' > 0 /\ InFamily(dest[c])
        /\ ZipOf(dest[c])' = ZipOf(dest[c])
    BY <1>1, <1>5, <1>7, <1>8 DEF Undisturbed, SurvivalInv, Busy, ZipOf
  <2>2. \A d \in Callers \ {c} : ~Busy(d)'
    BY <1>1, <2>1 DEF Survivor, Busy
  <2>3. PICK p \in Path : p = Target(c)
    BY <1>2
  <2>4. ASSUME Newest(p) PROVE Newest(p)'
    <3>1. CASE later' = later /\ body' = body
      BY <1>7, <2>1, <2>3, <2>4, <3>1, Stays
    <3>2. CASE body'[p] # Absent /\ later'[p] = {}
      BY <1>7, <2>1, <2>3, <2>4, <3>2, Written
    <3> QED
      BY <1>6, <2>1, <2>3, <3>1, <3>2
  <2>5. CASE pc[c] = "copying"
    <3>1. Newest(dest[c]) /\ Unused(ZipOf(dest[c])) /\ p = dest[c]
      BY <1>2, <2>1, <2>3, <2>5 DEF Survivor
    <3>2. Newest(dest[c])'
      BY <1>1, <2>4, <3>1 DEF Newest, Exists
    <3>3. Unused(ZipOf(dest[c]))'
      BY <1>1, <1>2, <1>5, <2>1, <2>3, <3>1 DEF Unused, Exists
    <3>4. pc'[c] \in {"unlinkZip", "list"}
      BY <1>1, <2>1, <2>5 DEF AfterWriting
    <3> QED
      BY <2>1, <2>2, <3>2, <3>3, <3>4 DEF Survivor
  <2>6. CASE pc[c] # "copying"
    <3>1. Newest(ZipOf(dest[c])) /\ p = ZipOf(dest[c]) /\ pc'[c] \in {"zipping", "drop"}
      BY <1>1, <1>2, <2>1, <2>3, <2>6 DEF Survivor
    <3>2. Newest(ZipOf(dest[c]))'
      BY <2>1, <2>4, <3>1 DEF Newest, Exists
    <3> QED
      BY <2>1, <2>2, <3>1, <3>2 DEF Survivor
  <2> QED
    BY <2>5, <2>6
<1> QED
  BY <1>1, <1>3, <1>7, <1>8, SurvivalStep

LEMMA EndsSurvive ==
    ASSUME TypeOK, PathsInv, OwnInv, SurvivalInv, NEW c \in Callers,
           CopyFails(c) \/ CopyRaises(c) \/ SetupFails(c) \/ ZipFails(c) \/ Crash(c) \/ (Drop(c) /\ ~Exists(dest[c]))
    PROVE  SurvivalInv'
<1>1. Return(c) /\ UNCHANGED <<serial, least>> /\ pc[c] # "idle" /\ DirectoryOK /\ serial \in Nat
  BY Bounds_Assumption
  DEF CopyFails, CopyRaises, SetupFails, ZipFails, Crash, Drop, Within, TypeOK, CallOK
<1>2. pc[c] \notin {"list", "sort", "rotate"} \/ Crash(c)
  BY DEF CopyFails, CopyRaises, SetupFails, ZipFails, Drop
<1>3. /\ \A p \in Path : p \notin {dest[c], ZipOf(dest[c])} => body'[p] = body[p]
      /\ \A p \in Path : later'[p] \subseteq later[p]
      /\ faults \subseteq faults'
  <2>1. CASE CopyFails(c) \/ ZipFails(c)
    <3>1. \E p \in {dest[c], ZipOf(dest[c])} : Unlink(p)
      BY <2>1 DEF CopyFails, ZipFails, Target
    <3> QED
      BY <1>1, <3>1 DEF Unlink, DirectoryOK
  <2>2. CASE CopyRaises(c) \/ SetupFails(c) \/ Crash(c) \/ (Drop(c) /\ ~Exists(dest[c]))
    BY <2>2 DEF CopyRaises, SetupFails, Crash, Drop, Fault, directory
  <2> QED
    BY <2>1, <2>2
<1>4. /\ pc'[c] = "idle" /\ names' = [names EXCEPT ![c] = {}]
      /\ \A d \in Callers \ {c} : pc'[d] = pc[d] /\ dest'[d] = dest[d] /\ alone'[d] = alone[d]
  BY <1>1 DEF Return, TypeOK, CallOK, SeenOK
<1>5. /\ \A d \in Callers : names'[d] \subseteq names[d]
      /\ \A d \in Callers : pc'[d] \notin {"sort", "rotate"} => names'[d] = {}
  BY <1>4 DEF SurvivalInv, NamesInv, TypeOK, CallOK
<1>6. ~Busy(c)'
  BY <1>4 DEF Busy
<1>7. Mild(c)
  BY <1>1, <1>3, <1>4, <1>5, <1>6 DEF Mild
<1> QED
  BY <1>1, <1>6, <1>7, SurvivalStep DEF Undisturbed

LEMMA DropsSurvive ==
    ASSUME TypeOK, PathsInv, OwnInv, SurvivalInv, NEW c \in Callers, Drop(c), Exists(dest[c])
    PROVE  SurvivalInv'
<1>1. /\ pc[c] = "drop" /\ pc'[c] = AfterWriting(c) /\ Unlink(dest[c])
      /\ dest'[c] = ZipOf(dest[c]) /\ UNCHANGED <<alone, names, least, serial>>
      /\ \A d \in Callers \ {c} : pc'[d] = pc[d] /\ dest'[d] = dest[d]
  BY DEF Drop, Within, TypeOK, CallOK
<1>2. /\ dest[c] \in Path /\ ZipOf(dest[c]) \in Path /\ ZipOf(dest[c]).name = dest[c].name
      /\ Busy(c) => ZipOf(dest[c]) # dest[c]
  BY <1>1, TwoNames
<1>3. DirectoryOK /\ serial \in Nat
  BY Bounds_Assumption DEF TypeOK, CallOK
<1>4. /\ \A p \in Path : p # dest[c] => body'[p] = body[p]
      /\ \A p \in Path : later'[p] \subseteq later[p]
      /\ faults' = faults
  BY <1>1, <1>2, <1>3 DEF Unlink, DirectoryOK
<1>5. Mild(c) /\ (Busy(c)' => Busy(c))
  BY <1>1, <1>2, <1>4, MildOutside DEF SurvivalInv, AfterWriting
<1>6. ASSUME Undisturbed(c)' PROVE Survivor(c)'
  <2>1. Busy(c) /\ Survivor(c) /\ "clock" \notin faults' /\ least' > 0
    BY <1>1, <1>4, <1>5, <1>6 DEF Undisturbed, SurvivalInv
  <2>2. \A d \in Callers \ {c} : ~Busy(d)'
    BY <1>1, <2>1 DEF Survivor, Busy
  <2>3. PICK p \in Path : p = ZipOf(dest[c])
    BY <1>2
  <2>4. Newest(p)'
    BY <1>1, <1>2, <1>4, <1>5, <2>1, <2>3, Stays DEF Survivor
  <2>5. Newest(dest[c])'
    BY <1>1, <2>3, <2>4 DEF Newest, Exists
  <2>6. pc'[c] = "list"
    BY <1>1, <2>1 DEF AfterWriting, Busy
  <2> QED
    BY <2>2, <2>5, <2>6 DEF Survivor
<1> QED
  BY <1>1, <1>3, <1>5, <1>6, SurvivalStep

LEMMA ListsSurvive ==
    ASSUME TypeOK, PathsInv, OwnInv, SurvivalInv, NEW c \in Callers, List(c) \/ Sort(c)
    PROVE  SurvivalInv'
<1>1. /\ pc[c] \in {"list", "sort"}
      /\ body' = body /\ later' = later /\ faults' = faults /\ serial' = serial /\ serial \in Nat
  BY Bounds_Assumption DEF List, Sort, Goto, directory, TypeOK, CallOK
<1>2. \/ Return(c) /\ least' = least
      \/ /\ pc' = [pc EXCEPT ![c] = IF pc[c] = "list" THEN "sort" ELSE "rotate"]
         /\ UNCHANGED <<dest, alone>>
  BY DEF List, Sort, Goto, arguments
<1>3. \A d \in Callers \ {c} : pc'[d] = pc[d] /\ dest'[d] = dest[d] /\ alone'[d] = alone[d]
  BY <1>2 DEF Return, TypeOK, CallOK, SeenOK
<1>4. /\ \A d \in Callers \ {c} : names'[d] = names[d]
      /\ pc'[c] \in {"idle", "sort", "rotate"} /\ (pc'[c] = "idle" => names'[c] = {} /\ least' = least)
      /\ pc'[c] = "sort" => least' = least /\ \A p \in names'[c] : Exists(p)
      /\ pc'[c] = "rotate" => \E keep \in Retentions \intersect Nat :
           /\ names'[c] = Doomed(c, keep)
           /\ least' = IF keep < least THEN keep ELSE least
  BY DEF List, Sort, Goto, Return, TypeOK, CallOK
<1>5. least \in Nat /\ (least' > 0 => least > 0)
  <2>1. least \in Nat
    BY Bounds_Assumption DEF TypeOK, SeenOK, KeepAll
  <2> QED
    BY <1>4, <2>1
\* The newest is not doomed: nothing of the family is later.
<1>6. ASSUME NEW p \in names'[c], pc'[c] = "rotate", least' > 0
      PROVE  p \in names[c] /\ \E q \in later[p] : InFamily(q)
  <2>1. PICK keep \in Retentions \intersect Nat :
           names'[c] = Doomed(c, keep) /\ least' = IF keep < least THEN keep ELSE least
    BY <1>4, <1>6
  <2>2. keep > 0 /\ p \in names[c] /\ Cardinality(names[c] \intersect later[p]) >= keep
    BY <1>5, <1>6, <2>1 DEF Doomed
  <2>3. names[c] \intersect later[p] # {}
    BY <2>1, <2>2, FS_EmptySet
  <2> QED
    BY <2>2, <2>3 DEF PathsInv, PathInv
<1>7. Mild(c)
  <2>1. ASSUME NEW p \in names'[c] PROVE p \in names[c] \/ Exists(p)
    <3>1. CASE pc'[c] = "rotate"
      <4>1. PICK keep \in Retentions \intersect Nat : names'[c] = Doomed(c, keep)
        BY <1>4, <3>1
      <4> QED
        BY <4>1 DEF Doomed
    <3> QED
      BY <1>4, <3>1
  <2>2. \A d \in Callers : pc'[d] \notin {"sort", "rotate"} => names'[d] = {}
    BY <1>3, <1>4 DEF SurvivalInv, NamesInv
  <2>3. Busy(c)' => Busy(c)
    BY <1>1, <1>2, <1>4 DEF Busy, InFamily, Return, TypeOK, CallOK
  <2>4. \A d \in Callers : pc'[d] = "rotate" =>
         \A p \in names'[d] : \/ pc[d] = "rotate" /\ p \in names[d]
                              \/ least' > 0 => \E q \in later[p] : InFamily(q)
    BY <1>3, <1>4, <1>6
  <2> QED
    BY <1>1, <1>3, <1>4, <1>5, <2>1, <2>2, <2>3, <2>4 DEF Mild
<1>8. ASSUME Undisturbed(c)' PROVE Survivor(c)'
  <2>1. dest' = dest /\ alone' = alone /\ pc'[c] \in {"sort", "rotate"}
    BY <1>2, <1>4, <1>8 DEF Undisturbed, Busy, Return, TypeOK, CallOK
  <2>2. Busy(c) /\ Survivor(c) /\ "clock" \notin faults' /\ least' > 0
    BY <1>1, <1>5, <1>8, <2>1 DEF Undisturbed, SurvivalInv, Busy
  <2>3. \A d \in Callers \ {c} : ~Busy(d)'
    BY <1>3, <2>2 DEF Survivor, Busy
  <2>4. dest[c] \in Path /\ Newest(dest[c])
    BY <1>1, <2>2, PathFacts DEF Survivor, Busy, TypeOK, CallOK
  <2>5. PICK p \in Path : p = dest[c]
    BY <2>4
  <2>6. Newest(p)'
    BY <1>1, <1>7, <2>2, <2>4, <2>5, Stays
  <2>7. Newest(dest[c])'
    BY <2>1, <2>5, <2>6 DEF Newest, Exists
  <2> QED
    BY <2>1, <2>3, <2>7 DEF Survivor
<1> QED
  BY <1>1, <1>7, <1>8, SurvivalStep

LEMMA RotatesSurvive ==
    ASSUME TypeOK, PathsInv, OwnInv, SurvivalInv, NEW c \in Callers, Rotate(c) \/ Stat(c)
    PROVE  SurvivalInv'
<1>1. pc[c] = "rotate" /\ UNCHANGED <<serial, least>> /\ DirectoryOK /\ serial \in Nat
  BY Bounds_Assumption DEF Rotate, Stat, Pruned, Within, TypeOK, CallOK
<1>2. CASE Rotate(c)
  <2>1. PICK r \in names[c] : Unlink(r) /\ names' = [names EXCEPT ![c] = names[c] \ {r}]
    BY <1>2 DEF Rotate
  <2>2. r \in Path /\ UNCHANGED <<pc, dest, alone>>
    BY <1>2, <2>1 DEF Rotate, arguments, TypeOK, CallOK
  <2>3. /\ \A p \in Path : body'[p] = IF p = r THEN Absent ELSE body[p]
        /\ \A p \in Path : later'[p] \subseteq later[p]
        /\ faults' = faults
    BY <1>1, <2>1, <2>2 DEF Unlink, DirectoryOK
  <2>4. \A d \in Callers : names'[d] \subseteq names[d]
    BY <2>1 DEF TypeOK, CallOK
  <2>5. Mild(c)
    BY <1>1, <2>1, <2>2, <2>3, <2>4 DEF Mild, SurvivalInv, NamesInv, Busy
  <2>6. ASSUME Undisturbed(c)' PROVE Survivor(c)'
    <3>1. Busy(c) /\ Survivor(c) /\ least' > 0
      BY <1>1, <2>2, <2>3, <2>6 DEF Undisturbed, SurvivalInv, Busy
    <3>2. \A d \in Callers \ {c} : ~Busy(d)'
      BY <2>2, <3>1 DEF Survivor, Busy
    <3>3. dest[c] \in Path /\ Newest(dest[c])
      BY <1>1, <3>1, PathFacts DEF Survivor, Busy, TypeOK, CallOK
    <3>4. PICK p \in Path : p = dest[c]
      BY <3>3
    <3>5. Newest(p)'
      BY <1>1, <2>1, <2>3, <2>5, <3>1, <3>3, <3>4, Stays
    <3>6. Newest(dest[c])'
      BY <2>2, <3>4, <3>5 DEF Newest, Exists
    <3> QED
      BY <1>1, <2>2, <3>2, <3>6 DEF Survivor
  <2> QED
    BY <1>1, <2>5, <2>6, SurvivalStep
<1>3. CASE Stat(c)
  <2>1. Return(c) /\ UNCHANGED directory
    BY <1>3 DEF Stat
  <2>2. /\ pc'[c] = "idle" /\ names' = [names EXCEPT ![c] = {}]
        /\ \A d \in Callers \ {c} : pc'[d] = pc[d] /\ dest'[d] = dest[d] /\ alone'[d] = alone[d]
    BY <2>1 DEF Return, TypeOK, CallOK, SeenOK
  <2>3. /\ \A d \in Callers : names'[d] \subseteq names[d]
        /\ \A d \in Callers : pc'[d] \notin {"sort", "rotate"} => names'[d] = {}
    BY <2>2 DEF SurvivalInv, NamesInv, TypeOK, CallOK
  <2>4. ~Busy(c)'
    BY <2>2 DEF Busy
  <2>5. Mild(c)
    BY <1>1, <2>1, <2>2, <2>3, <2>4 DEF Mild, directory
  <2> QED
    BY <1>1, <2>4, <2>5, SurvivalStep DEF Undisturbed
<1> QED
  BY <1>2, <1>3

LEMMA OutsideSurvives ==
    ASSUME TypeOK, SurvivalInv, Commit \/ Damage \/ Repair \/ UNCHANGED vars
    PROVE  SurvivalInv'
<1>1. /\ UNCHANGED <<body, later, serial, pc, dest, alone, names, least>>
      /\ faults \subseteq faults'
  BY DEF Commit, Damage, Repair, Fault, vars, directory, source, locals, arguments
<1>2. \A p : Unused(p)' = Unused(p) /\ Newest(p)' = Newest(p)
  BY <1>1 DEF Unused, Newest, Exists
<1>3. NamesInv'
  BY <1>1, <1>2 DEF SurvivalInv, NamesInv
<1>4. ASSUME NEW c \in Callers, Undisturbed(c)' PROVE Survivor(c)'
  <2>1. Survivor(c)
    BY <1>1, <1>4 DEF SurvivalInv, Undisturbed, Busy
  <2> QED
    BY <1>1, <2>1 DEF Survivor, Unused, Newest, Exists, ZipOf, Busy
<1> QED
  BY <1>3, <1>4 DEF SurvivalInv

LEMMA SurvivalInductive == Spec => []SurvivalInv
<1>1. Init => SurvivalInv
  BY DEF Init, SurvivalInv, NamesInv, Unused, Exists, Undisturbed, Busy
<1>2. TypeOK /\ PathsInv /\ OwnInv /\ SurvivalInv /\ [Next]_vars => SurvivalInv'
  <2> SUFFICES ASSUME TypeOK, PathsInv, OwnInv, SurvivalInv, [Next]_vars PROVE SurvivalInv'
    OBVIOUS
  <2>1. ASSUME NEW c \in Callers, Calls(c) \/ Copies(c) PROVE SurvivalInv'
    BY <2>1, CallsSurvive, WritesSurvive, FillsSurvive, EndsSurvive DEF Copies
  <2>2. ASSUME NEW c \in Callers, Compresses(c) PROVE SurvivalInv'
    BY <2>2, FillsSurvive, EndsSurvive, DropsSurvive DEF Compresses
  <2>3. ASSUME NEW c \in Callers, Prunes(c) \/ Stat(c) \/ Crash(c) PROVE SurvivalInv'
    BY <2>3, ListsSurvive, RotatesSurvive, EndsSurvive DEF Prunes
  <2> QED
    BY <2>1, <2>2, <2>3, OutsideSurvives DEF Next, Environment
<1> QED
  BY <1>1, <1>2, OwnInductive, TypesInductive, PTL DEF Spec

\* A backup that no other automatic backup overlapped is still there when it
\* is reported, whatever the prunings and the operators did meanwhile.
THEOREM OwnBackupIsThere == Spec => []OwnBackupSurvives
<1>1. SurvivalInv => OwnBackupSurvives
  BY DEF SurvivalInv, Undisturbed, Survivor, Newest, Busy, Pruned, OwnBackupSurvives
<1> QED
  BY <1>1, SurvivalInductive, PTL

=============================================================================
