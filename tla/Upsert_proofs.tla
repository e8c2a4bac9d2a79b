--------------------------- MODULE Upsert_proofs ---------------------------
(***************************************************************************)
(* Proofs about Upsert, for any units of work, keys, columns and programs. *)
(* What a unit has written of a key is what Sightings makes of the calls   *)
(* it has made so far (UnitInv), whatever the others commit meanwhile.     *)
(***************************************************************************)
EXTENDS Upsert, TLAPS

\* A draft or a committed row, upserted, is a row.
LEMMA UpsertedRow ==
    ASSUME TypeOK, NEW s \in Session, NEW call \in Call
    PROVE  /\ Inserted(s, call) \in Row
           /\ \A row \in Row : Updated(s, call, row) \in Row
           /\ Found(s, call.key) \in Row \union {NoRow}
           /\ Upserted(s, call) \in Row
<1> DEFINE val == <<s, next[s]>>
<1>1. val \in Value /\ val \in Session \X (Nat \ {0}) /\ Default \in Value
  BY DEF TypeOK, Value
<1> HIDE DEF val
<1>2. Inserted(s, call) \in Row
  BY <1>1 DEF Inserted, Row, val
<1>3. ASSUME NEW row \in Row PROVE Updated(s, call, row) \in Row
  <2> DEFINE cols == [c \in Column |-> IF c \in Set(call) THEN val ELSE row.columns[c]]
  <2>1. cols \in [Column -> Value]
    BY <1>1 DEF Row
  <2> HIDE DEF cols
  <2>2. [row EXCEPT !.columns = cols] \in Row
    BY <2>1 DEF Row
  <2> QED
    BY <2>2 DEF Updated, cols, val
<1>4. Found(s, call.key) \in Row \union {NoRow}
  BY DEF Found, TypeOK, Call
<1> QED
  BY <1>2, <1>3, <1>4 DEF Upserted

\* The calls of a unit are calls.
LEMMA CurrentCall ==
    ASSUME TypeOK, NEW s \in Session, ~Finished(s)
    PROVE  Current(s) \in Call /\ next[s] \in DOMAIN program[s] /\ Current(s).key \in Key
<1>1. program[s] \in Seq(Call) /\ next[s] \in Nat \ {0}
  BY ProgramsOfCalls DEF TypeOK
<1>2. next[s] \in 1..Len(program[s])
  BY <1>1 DEF Finished
<1>3. program[s][next[s]] \in Call /\ next[s] \in DOMAIN program[s]
  BY <1>1, <1>2
<1>4. \A call \in Call : call.key \in Key
  BY DEF Call
<1> QED
  BY <1>3, <1>4 DEF Current

\* The table holds rows, and every unit is at a place of its program.
THEOREM TypeCorrect == Spec => []TypeOK
<1>1. Init => TypeOK
  BY DEF Init, TypeOK, PC, Outcomes
<1>2. TypeOK /\ [Next]_vars => TypeOK'
  <2> SUFFICES ASSUME TypeOK, [Next]_vars PROVE TypeOK'
    OBVIOUS
  <2>1. ASSUME NEW s \in Session, NEW why \in Outcomes, Rollback(s, why) PROVE TypeOK'
    BY <2>1 DEF Rollback, End, Release, TypeOK, PC
  <2>2. ASSUME NEW s \in Session, Enter(s) PROVE TypeOK'
    BY <2>2 DEF Enter, Goto, TypeOK, PC, table
  <2>3. ASSUME NEW s \in Session, Begin(s) PROVE TypeOK'
    BY <2>3 DEF Begin, Goto, TypeOK, PC
  <2>4. ASSUME NEW s \in Session, Upsert(s) PROVE TypeOK'
    <3>1. Current(s) \in Call /\ Current(s).key \in Key
      BY <2>4, CurrentCall DEF Upsert
    <3>2. Upserted(s, Current(s)) \in Row
      BY <3>1, UpsertedRow
    <3> QED
      BY <2>4, <3>1, <3>2 DEF Upsert, TypeOK
  <2>5. ASSUME NEW s \in Session, Commit(s) PROVE TypeOK'
    <3>1. \A k \in Key : Found(s, k) \in Row \union {NoRow}
      BY DEF TypeOK, Found
    <3>2. rows' \in [Key -> Row \union {NoRow}]
      BY <2>5, <3>1 DEF Commit
    <3> QED
      BY <2>5, <3>2 DEF Commit, End, Release, TypeOK, PC, Outcomes
  <2>6. CASE UNCHANGED vars
    BY <2>6 DEF vars, table, TypeOK
  <2> QED
    BY <2>1, <2>2, <2>3, <2>4, <2>5, <2>6
    DEF Next, Steps, BusyTimeout, Refuse, LockTimeout, Deadlock, Raise, Outcomes
<1> QED
  BY <1>1, <1>2, PTL DEF Spec

-----------------------------------------------------------------------------
(* What a unit has made of a key *)

\* The calls a unit has made on a key.
Before(s, k) == {i \in Promise!On(s, k) : i < next[s]}

WritingIn(calls, B, c, row, f) ==
    {i \in B : c \in calls[i].values /\ (c \notin Once \/ (row = NoRow /\ i = f))}

ColumnIs(s, W, old, v) ==
    IF W = {} THEN v = old ELSE \E w \in W : (\A j \in W : j <= w) /\ v = <<s, w>>

Old(row, c) == IF row = NoRow THEN Default ELSE row.columns[c]

\* d is what the calls at the places B make of row.
Sees(s, calls, B, row, d) ==
    \E f \in B :
      /\ \A j \in B : f <= j
      /\ d.id = IF row = NoRow THEN <<s, f>> ELSE row.id
      /\ \A c \in Column : ColumnIs(s, WritingIn(calls, B, c, row, f), Old(row, c), d.columns[c])

UnitInv(s) ==
    /\ pc[s] \in {"new", "begin"} => next[s] = 1
    /\ outcome[s] = "none" <=> pc[s] # "done"
    /\ \A k \in Key : holder[k] = s => pc[s] = "statement"
    /\ \A k \in Key : pc[s] # "done" => (holder[k] = s <=> Before(s, k) # {})
    /\ \A k \in Key : holder[k] = s =>
         draft[k] \in Row /\ Sees(s, program[s], Before(s, k), rows[k], draft[k])

UnitsInv == \A s \in Session : UnitInv(s)

\* A step of another unit leaves a unit what it relies on.
LEMMA OthersKeep ==
    ASSUME NEW t \in Session, UnitInv(t), program' = program,
           pc'[t] = pc[t], next'[t] = next[t], outcome'[t] = outcome[t],
           \A k \in Key : holder'[k] = t <=> holder[k] = t,
           \A k \in Key : holder[k] = t => draft'[k] = draft[k] /\ rows'[k] = rows[k]
    PROVE  UnitInv(t)'
<1>1. ASSUME NEW k \in Key PROVE Before(t, k)' = Before(t, k)
  BY DEF Before, Promise!On
<1> QED
  BY <1>1 DEF UnitInv

\* One more call on a key the unit has already written.
LEMMA SeesUpdate ==
    ASSUME TypeOK, NEW s \in Session, NEW n \in Nat, n = next[s],
           NEW calls \in Seq(Call), NEW B \in SUBSET Nat, n \in DOMAIN calls,
           \A i \in B : i < n,
           NEW row, NEW d \in Row, Sees(s, calls, B, row, d)
    PROVE  Sees(s, calls, B \union {n}, row, Updated(s, calls[n], d))
<1> DEFINE u == Updated(s, calls[n], d)
<1>1. PICK f \in B :
        /\ \A j \in B : f <= j
        /\ d.id = IF row = NoRow THEN <<s, f>> ELSE row.id
        /\ \A c \in Column : ColumnIs(s, WritingIn(calls, B, c, row, f), Old(row, c), d.columns[c])
  BY DEF Sees
<1>2. f # n /\ f \in Nat /\ f <= n
  OBVIOUS
<1>3. u.id = d.id
  BY DEF Updated, Row
<1>4. \A c \in Column : u.columns[c] = IF c \in Set(calls[n]) THEN <<s, n>> ELSE d.columns[c]
  BY DEF Updated, Row
<1>5. ASSUME NEW c \in Column
      PROVE  ColumnIs(s, WritingIn(calls, B \union {n}, c, row, f), Old(row, c), u.columns[c])
  <2> DEFINE W == WritingIn(calls, B, c, row, f)
             X == WritingIn(calls, B \union {n}, c, row, f)
  <2>1. CASE c \in Set(calls[n])
    <3>1. c \in calls[n].values /\ c \notin Once
      BY <2>1 DEF Set
    <3>2. n \in X
      BY <3>1 DEF WritingIn
    <3>3. \A j \in X : j \in B \union {n}
      BY DEF WritingIn
    <3> HIDE DEF X
    <3>4. ASSUME NEW j \in X PROVE j <= n
      <4>1. CASE j \in B
        <5>1. j \in Nat /\ j < n
          BY <4>1
        <5> QED
          BY <5>1
      <4>2. CASE j = n
        BY <4>2
      <4> QED
        BY <3>3, <4>1, <4>2
    <3>5. ColumnIs(s, X, Old(row, c), <<s, n>>)
      BY <3>2, <3>4 DEF ColumnIs
    <3> QED
      BY <2>1, <3>5, <1>4 DEF X
  <2>2. CASE c \notin Set(calls[n])
    <3>1. X = W
      BY <2>2, <1>2 DEF WritingIn, Set
    <3> QED
      BY <2>2, <3>1, <1>1, <1>4
  <2> QED
    BY <2>1, <2>2
<1> HIDE DEF u
<1>6. \A j \in B \union {n} : f <= j
  BY <1>1, <1>2
<1>7. u.id = IF row = NoRow THEN <<s, f>> ELSE row.id
  BY <1>1, <1>3
<1>8. Sees(s, calls, B \union {n}, row, u)
  BY <1>5, <1>6, <1>7 DEF Sees
<1> QED
  BY <1>8 DEF u

\* A column one call may have written.
LEMMA Single ==
    ASSUME NEW s, NEW n \in Nat, NEW old
    PROVE  ColumnIs(s, {n}, old, <<s, n>>) /\ ColumnIs(s, {}, old, old)
  BY DEF ColumnIs

\* The first call on a key.
LEMMA SeesFirst ==
    ASSUME TypeOK, NEW s \in Session, NEW n \in Nat, n = next[s],
           NEW calls \in Seq(Call), n \in DOMAIN calls, NEW row \in Row \union {NoRow}
    PROVE  Sees(s, calls, {n}, row,
                IF row = NoRow THEN Inserted(s, calls[n]) ELSE Updated(s, calls[n], row))
<1> DEFINE u == IF row = NoRow THEN Inserted(s, calls[n]) ELSE Updated(s, calls[n], row)
<1>1. u.id = IF row = NoRow THEN <<s, n>> ELSE row.id
  BY DEF Inserted, Updated, Row
<1>2. ASSUME NEW c \in Column
      PROVE  ColumnIs(s, WritingIn(calls, {n}, c, row, n), Old(row, c), u.columns[c])
  <2>1. CASE row = NoRow
    <3>1. u.columns[c] = IF c \in calls[n].values THEN <<s, n>> ELSE Default
      BY <2>1 DEF Inserted
    <3>2. WritingIn(calls, {n}, c, row, n) = IF c \in calls[n].values THEN {n} ELSE {}
      BY <2>1 DEF WritingIn
    <3> QED
      BY <2>1, <3>1, <3>2, Single DEF Old
  <2>2. CASE row # NoRow
    <3>1. u.columns[c] = IF c \in Set(calls[n]) THEN <<s, n>> ELSE row.columns[c]
      BY <2>2 DEF Updated, Row
    <3>2. WritingIn(calls, {n}, c, row, n) = IF c \in Set(calls[n]) THEN {n} ELSE {}
      BY <2>2 DEF WritingIn, Set
    <3> QED
      BY <2>2, <3>1, <3>2, Single DEF Old
  <2> QED
    BY <2>1, <2>2
<1> HIDE DEF u
<1>3. n \in {n} /\ \A j \in {n} : n <= j
  OBVIOUS
<1>4. Sees(s, calls, {n}, row, u)
  BY <1>1, <1>2, <1>3 DEF Sees
<1> QED
  BY <1>4 DEF u

-----------------------------------------------------------------------------
(* Every unit has written what its calls so far make of the committed rows *)

LEMMA Inductive == Spec => [](TypeOK /\ UnitsInv)
<1>1. Init => UnitsInv
  <2> SUFFICES ASSUME Init, NEW s \in Session PROVE UnitInv(s)
    BY DEF UnitsInv
  <2>1. \A k \in Key : holder[k] # s
    BY NobodyIsNone DEF Init
  <2>2. \A k \in Key : Before(s, k) = {}
    <3>1. \A i \in DOMAIN program[s] : i \in Nat \ {0}
      BY ProgramsOfCalls DEF Init
    <3>2. next[s] = 1
      BY DEF Init
    <3> QED
      BY <3>1, <3>2 DEF Before, Promise!On
  <2> QED
    BY <2>1, <2>2 DEF Init, UnitInv
<1>2. TypeOK /\ UnitsInv /\ [Next]_vars => UnitsInv'
  <2> SUFFICES ASSUME TypeOK, UnitsInv, [Next]_vars, NEW t \in Session PROVE UnitInv(t)'
    BY DEF UnitsInv
  <2>0. UnitInv(t)
    BY DEF UnitsInv
  <2>1. CASE UNCHANGED vars
    BY <2>0, <2>1, OthersKeep DEF vars, table
  <2>2. ASSUME NEW s \in Session, NEW why \in Outcomes \ {"none"}, Rollback(s, why)
        PROVE  UnitInv(t)'
    <3>1. CASE t = s
      BY <2>2, <3>1, NobodyIsNone DEF Rollback, End, Release, UnitInv, TypeOK
    <3>2. CASE t # s
      <4>1. pc'[t] = pc[t] /\ outcome'[t] = outcome[t]
        BY <2>2, <3>2 DEF Rollback, End, TypeOK
      <4>2. \A k \in Key : holder'[k] = t <=> holder[k] = t
        BY <2>2, <3>2, NobodyIsNone DEF Rollback, End, Release, TypeOK
      <4>3. \A k \in Key : holder[k] = t => draft'[k] = draft[k]
        BY <2>2, <3>2 DEF Rollback, End, Release, TypeOK
      <4> QED
        BY <2>0, <2>2, <4>1, <4>2, <4>3, OthersKeep DEF Rollback, End
    <3> QED
      BY <3>1, <3>2
  <2>3. ASSUME NEW s \in Session, Commit(s) PROVE UnitInv(t)'
    <3>1. CASE t = s
      BY <2>3, <3>1, NobodyIsNone DEF Commit, End, Release, UnitInv, TypeOK
    <3>2. CASE t # s
      <4>1. pc'[t] = pc[t] /\ outcome'[t] = outcome[t]
        BY <2>3, <3>2 DEF Commit, End, TypeOK
      <4>2. \A k \in Key : holder'[k] = t <=> holder[k] = t
        BY <2>3, <3>2, NobodyIsNone DEF Commit, End, Release, TypeOK
      <4>3. \A k \in Key : holder[k] = t => draft'[k] = draft[k] /\ rows'[k] = rows[k]
        BY <2>3, <3>2 DEF Commit, End, Release, TypeOK, Found
      <4> QED
        BY <2>0, <2>3, <4>1, <4>2, <4>3, OthersKeep DEF Commit, End
    <3> QED
      BY <3>1, <3>2
  <2>4. ASSUME NEW s \in Session, Enter(s) \/ Begin(s) PROVE UnitInv(t)'
    <3>1. CASE t = s
      <4>1. \A k \in Key : Before(s, k)' = Before(s, k)
        BY <2>4 DEF Enter, Begin, Before, Promise!On
      <4>2. UNCHANGED <<rows, holder, draft, program, next, outcome>>
        BY <2>4 DEF Enter, Begin, table
      <4>3. pc[s] \in {"new", "begin"} /\ pc'[s] \in {"begin", "statement"} /\ pc[s] # pc'[s]
        BY <2>4 DEF Enter, Begin, Goto, TypeOK
      <4> QED
        BY <2>0, <3>1, <4>1, <4>2, <4>3 DEF UnitInv
    <3>2. CASE t # s
      <4>1. pc'[t] = pc[t]
        BY <2>4, <3>2 DEF Enter, Begin, Goto, TypeOK
      <4> QED
        BY <2>0, <2>4, <4>1, OthersKeep DEF Enter, Begin, table
    <3> QED
      BY <3>1, <3>2
  <2>5. ASSUME NEW s \in Session, Upsert(s) PROVE UnitInv(t)'
    <3>0. PICK n, call, j : n = next[s] /\ call = Current(s) /\ j = call.key
      OBVIOUS
    <3>1. call \in Call /\ n \in DOMAIN program[s] /\ j \in Key /\ n \in Nat
      BY <2>5, <3>0, CurrentCall DEF Upsert, TypeOK
    <3>2. holder[j] \in {s, Nobody}
      BY <2>5, <3>0 DEF Upsert, Blocked, Blocker
    <3>3. CASE t # s
      <4>1. \A k \in Key : holder'[k] = t <=> holder[k] = t
        BY <2>5, <3>0, <3>1, <3>2, <3>3, NobodyIsNone DEF Upsert, TypeOK
      <4>2. \A k \in Key : holder[k] = t => draft'[k] = draft[k]
        BY <2>5, <3>0, <3>1, <3>2, <3>3, NobodyIsNone DEF Upsert, TypeOK
      <4>3. next'[t] = next[t]
        BY <2>5, <3>3 DEF Upsert, TypeOK
      <4> QED
        BY <2>0, <2>5, <4>1, <4>2, <4>3, OthersKeep DEF Upsert
    <3>4. CASE t = s
      <4>1. UnitInv(s) /\ pc[s] = "statement" /\ pc' = pc /\ outcome' = outcome
            /\ rows' = rows /\ program' = program
        BY <2>0, <2>5, <3>4 DEF Upsert
      <4>2. program[s] \in Seq(Call) /\ rows[j] \in Row \union {NoRow} /\ program[s][n] = call
        BY <3>0, <3>1, ProgramsOfCalls DEF TypeOK, Current
      <4>3. next' = [next EXCEPT ![s] = n + 1] /\ holder' = [holder EXCEPT ![j] = s]
            /\ draft' = [draft EXCEPT ![j] = Upserted(s, call)]
        BY <2>5, <3>0 DEF Upsert
      <4>4. \A k \in Key : Before(s, k) \subseteq Nat /\ \A i \in Before(s, k) : i < n
        BY <3>0, <4>2 DEF Before, Promise!On
      <4>5. Before(s, j)' = Before(s, j) \union {n}
        BY <3>0, <3>1, <4>1, <4>2, <4>3 DEF Before, Promise!On, TypeOK
      <4>6. \A k \in Key \ {j} : Before(s, k)' = Before(s, k)
        <5> SUFFICES ASSUME NEW k \in Key \ {j}
                     PROVE  Before(s, k)' = Before(s, k)
          OBVIOUS
        <5>1. next'[s] = n + 1
          BY <4>3 DEF TypeOK
        <5>2. \A i \in DOMAIN program[s] : i \in Nat /\ (i < n + 1 <=> i < n \/ i = n)
          BY <3>1, <4>2
        <5>3. program[s][n].key # k
          BY <3>0, <4>2
        <5> QED
          BY <3>0, <4>1, <5>1, <5>2, <5>3 DEF Before, Promise!On
      <4>7. Upserted(s, call) \in Row
        BY <3>1, UpsertedRow
      <4>8. Sees(s, program[s], Before(s, j) \union {n}, rows[j], Upserted(s, call))
        <5>1. CASE holder[j] = s
          <6>1. draft[j] \in Row /\ Sees(s, program[s], Before(s, j), rows[j], draft[j])
            BY <3>1, <4>1, <5>1 DEF UnitInv
          <6>2. Upserted(s, call) = Updated(s, call, draft[j])
            BY <3>0, <5>1, <6>1, NoRowIsNone DEF Upserted, Found
          <6> QED
            BY <3>0, <3>1, <4>2, <4>4, <6>1, <6>2, SeesUpdate
        <5>2. CASE holder[j] # s
          <6>1. Before(s, j) = {}
            BY <3>1, <4>1, <5>2 DEF UnitInv
          <6>2. Upserted(s, call) = IF rows[j] = NoRow THEN Inserted(s, call)
                                    ELSE Updated(s, call, rows[j])
            BY <3>0, <5>2 DEF Upserted, Found
          <6>3. Sees(s, program[s], {n}, rows[j],
                     IF rows[j] = NoRow THEN Inserted(s, program[s][n])
                     ELSE Updated(s, program[s][n], rows[j]))
            BY <3>0, <3>1, <4>2, SeesFirst
          <6> QED
            BY <4>2, <6>1, <6>2, <6>3
        <5> QED
          BY <5>1, <5>2
      <4>9. \A k \in Key : holder'[k] = IF k = j THEN s ELSE holder[k]
        BY <4>3 DEF TypeOK
      <4>10. \A k \in Key : draft'[k] = IF k = j THEN Upserted(s, call) ELSE draft[k]
        BY <4>3 DEF TypeOK
      <4>11. ASSUME NEW k \in Key
             PROVE  /\ (holder'[k] = s <=> Before(s, k)' # {})
                    /\ holder'[k] = s => draft'[k] \in Row
                         /\ Sees(s, program'[s], Before(s, k)', rows'[k], draft'[k])
        <5>1. CASE k = j
          <6>1. holder'[k] = s /\ draft'[k] = Upserted(s, call) /\ rows'[k] = rows[j]
            BY <3>1, <4>1, <4>9, <4>10, <5>1
          <6>2. Before(s, k)' = Before(s, j) \union {n} /\ program'[s] = program[s]
            BY <4>1, <4>5, <5>1
          <6> QED
            BY <4>7, <4>8, <6>1, <6>2
        <5>2. CASE k # j
          BY <4>1, <4>6, <4>9, <4>10, <5>2 DEF UnitInv
        <5> QED
          BY <5>1, <5>2
      <4> QED
        BY <3>4, <4>1, <4>11 DEF UnitInv
    <3> QED
      BY <3>3, <3>4
  <2> QED
    BY <2>1, <2>2, <2>3, <2>4, <2>5
    DEF Next, Steps, BusyTimeout, Refuse, LockTimeout, Deadlock, Raise, Outcomes
<1> QED
  BY <1>1, <1>2, TypeCorrect, PTL DEF Spec

\* Only a unit that upserts several keys can be in a deadlock: what it has
\* written, and others wait for, is not what it waits for itself.
THEOREM DeadlocksTakeTwoKeys == Spec => []OneKeyNeverDeadlocks
<1>1. TypeOK /\ UnitsInv => OneKeyNeverDeadlocks
  <2> SUFFICES ASSUME TypeOK, UnitsInv, NEW s \in Session, Deadlocked(s)
               PROVE  \E i, j \in DOMAIN program[s] : program[s][i].key # program[s][j].key
    BY DEF OneKeyNeverDeadlocks
  <2>1. PICK u \in Session : Blocked(s) /\ Blocked(u) /\ s \in Blocker(u)
    BY DEF Deadlocked
  <2>2. Current(u).key \in Key /\ holder[Current(u).key] = s
    BY <2>1, CurrentCall DEF Blocked, Blocker
  <2>3. Before(s, Current(u).key) # {}
    BY <2>1, <2>2 DEF UnitsInv, UnitInv, Blocked
  <2>4. PICK i \in DOMAIN program[s] : program[s][i].key = Current(u).key
    BY <2>3 DEF Before, Promise!On
  <2>5. next[s] \in DOMAIN program[s] /\ holder[Current(s).key] # s
    BY <2>1, CurrentCall DEF Blocked, Blocker
  <2> QED
    BY <2>2, <2>4, <2>5 DEF Current
<1> QED
  BY <1>1, Inductive, PTL

\* A commit leaves the id and the columns of no_update of a row as they were.
THEOREM FirstSightingIsKept == Spec => FirstSightingStays
<1> DEFINE Kept == \A k \in Key : rows[k] # NoRow =>
                     /\ rows'[k] # NoRow
                     /\ rows'[k].id = rows[k].id
                     /\ \A c \in Once : rows'[k].columns[c] = rows[k].columns[c]
<1>1. TypeOK /\ UnitsInv /\ [Next]_vars => [Kept]_vars
  <2> SUFFICES ASSUME TypeOK, UnitsInv, [Next]_vars, NEW k \in Key, rows[k] # NoRow
               PROVE  /\ rows'[k] # NoRow
                      /\ rows'[k].id = rows[k].id
                      /\ \A c \in Once : rows'[k].columns[c] = rows[k].columns[c]
    OBVIOUS
  <2>1. CASE rows' = rows
    BY <2>1
  <2>2. ASSUME NEW s \in Session, Commit(s)
        PROVE  /\ rows'[k] # NoRow
               /\ rows'[k].id = rows[k].id
               /\ \A c \in Once : rows'[k].columns[c] = rows[k].columns[c]
    <3>1. rows'[k] = IF holder[k] = s THEN draft[k] ELSE rows[k]
      BY <2>2 DEF Commit, Found
    <3>2. CASE holder[k] = s
      <4>1. draft[k] \in Row /\ Sees(s, program[s], Before(s, k), rows[k], draft[k])
        BY <3>2 DEF UnitsInv, UnitInv
      <4>2. PICK f \in Before(s, k) :
              /\ draft[k].id = rows[k].id
              /\ \A c \in Column :
                   ColumnIs(s, WritingIn(program[s], Before(s, k), c, rows[k], f),
                            Old(rows[k], c), draft[k].columns[c])
        BY <4>1 DEF Sees
      <4>3. ASSUME NEW c \in Once PROVE draft[k].columns[c] = rows[k].columns[c]
        <5>1. WritingIn(program[s], Before(s, k), c, rows[k], f) = {}
          BY DEF WritingIn
        <5> QED
          BY <4>2, <5>1, OnceIsColumns DEF ColumnIs, Old
      <4> QED
        BY <3>1, <3>2, <4>1, <4>2, <4>3, NoRowIsNone
    <3> QED
      BY <3>1, <3>2
  <2> QED
    BY <2>1, <2>2 DEF Next, Steps, Enter, Begin, BusyTimeout, Upsert, Refuse, LockTimeout, Deadlock,
       Raise, Rollback, vars, table
<1> QED
  BY <1>1, Inductive, PTL DEF Spec, FirstSightingStays

-----------------------------------------------------------------------------
(* Upsert implements Sightings *)

LEMMA LeastIsFirst ==
    ASSUME NEW s, NEW k, Promise!On(s, k) \subseteq Nat, NEW f \in Promise!On(s, k),
           \A j \in Promise!On(s, k) : f <= j
    PROVE  Promise!First(s, k) = f
<1> DEFINE F == Promise!First(s, k)
<1>1. F \in Promise!On(s, k) /\ \A j \in Promise!On(s, k) : F <= j
  BY DEF Promise!First
<1>2. F <= f /\ f <= F /\ F \in Nat /\ f \in Nat
  BY <1>1
<1> QED
  BY <1>2

LEMMA GreatestIsLatest ==
    ASSUME NEW W \in SUBSET Nat, NEW w \in W, \A j \in W : j <= w
    PROVE  Promise!Latest(W) = w
<1> DEFINE L == Promise!Latest(W)
<1>1. L \in W /\ \A j \in W : j <= L
  BY DEF Promise!Latest
<1>2. L <= w /\ w <= L /\ L \in Nat /\ w \in Nat
  BY <1>1
<1> QED
  BY <1>2

\* When its unit commits, the row a key gets is the one its list of calls makes.
LEMMA CommittedIsSeen ==
    ASSUME TypeOK, UnitsInv, NEW s \in Session, Finished(s), pc[s] # "done", NEW k \in Key
    PROVE  Found(s, k) = Promise!Seen(s, k, rows[k])
<1>1. program[s] \in Seq(Call) /\ next[s] \in Nat /\ next[s] > Len(program[s])
  BY ProgramsOfCalls DEF TypeOK, Finished
<1>2. Promise!On(s, k) \subseteq Nat /\ \A i \in Promise!On(s, k) : i < next[s]
  BY <1>1 DEF Promise!On
<1>3. Before(s, k) = Promise!On(s, k)
  BY <1>2 DEF Before
<1>4. CASE holder[k] # s
  BY <1>3, <1>4 DEF UnitsInv, UnitInv, Found, Promise!Seen
<1>5. CASE holder[k] = s
  <2> DEFINE d == draft[k]
             row == rows[k]
  <2>1. d \in Row /\ Sees(s, program[s], Promise!On(s, k), row, d)
    BY <1>3, <1>5 DEF UnitsInv, UnitInv
  <2>2. PICK f \in Promise!On(s, k) :
          /\ \A j \in Promise!On(s, k) : f <= j
          /\ d.id = IF row = NoRow THEN <<s, f>> ELSE row.id
          /\ \A c \in Column :
               ColumnIs(s, WritingIn(program[s], Promise!On(s, k), c, row, f), Old(row, c), d.columns[c])
    BY <2>1 DEF Sees
  <2>3. Promise!First(s, k) = f
    BY <1>2, <2>2, LeastIsFirst
  <2>4. ASSUME NEW c \in Column
        PROVE  d.columns[c] =
                 IF Promise!Writing(s, k, c, row) # {}
                 THEN <<s, Promise!Latest(Promise!Writing(s, k, c, row))>>
                 ELSE IF row = NoRow THEN Default ELSE row.columns[c]
    <3> DEFINE W == Promise!Writing(s, k, c, row)
    <3>1. W = WritingIn(program[s], Promise!On(s, k), c, row, f) /\ W \subseteq Nat
      BY <1>2, <2>3 DEF Promise!Writing, WritingIn
    <3>2. ColumnIs(s, W, Old(row, c), d.columns[c])
      BY <2>2, <3>1
    <3> HIDE DEF W
    <3>3. CASE W = {}
      BY <3>2, <3>3 DEF ColumnIs, Old, W
    <3>4. CASE W # {}
      <4>1. PICK w \in W : (\A j \in W : j <= w) /\ d.columns[c] = <<s, w>>
        BY <3>2, <3>4 DEF ColumnIs
      <4>2. Promise!Latest(W) = w
        BY <3>1, <4>1, GreatestIsLatest
      <4> QED
        BY <3>4, <4>1, <4>2 DEF W
    <3> QED
      BY <3>3, <3>4
  <2>5. d = [id |-> d.id, columns |-> [c \in Column |-> d.columns[c]]]
    BY <2>1 DEF Row
  <2> HIDE DEF d, row
  <2>6. d = [id |-> IF row = NoRow THEN <<s, Promise!First(s, k)>> ELSE row.id,
             columns |-> [c \in Column |->
               IF Promise!Writing(s, k, c, row) # {}
               THEN <<s, Promise!Latest(Promise!Writing(s, k, c, row))>>
               ELSE IF row = NoRow THEN Default ELSE row.columns[c]]]
    BY <2>2, <2>3, <2>4, <2>5
  <2>7. Promise!On(s, k) # {}
    BY <2>2
  <2> QED
    BY <1>5, <2>6, <2>7 DEF Found, Promise!Seen, d, row
<1> QED
  BY <1>4, <1>5

\* However their statements interleave, wait, time out or are rolled back, the
\* units of work take effect as if one ran after the other.
THEOREM UpsertImplementsSightings == Spec => OneAfterTheOther
<1>1. Init => Promise!Init
  BY ProgramsOfCalls DEF Init, Promise!Init, Call
<1>2. TypeOK /\ UnitsInv /\ [Next]_vars => [Promise!Next]_Promise!vars
  <2> SUFFICES ASSUME TypeOK, UnitsInv, [Next]_vars PROVE [Promise!Next]_Promise!vars
    OBVIOUS
  <2>1. ASSUME NEW s \in Session, NEW why \in Outcomes \ {"none", "committed"}, Rollback(s, why),
               pc[s] # "done"
        PROVE  Promise!Next
    <3>1. outcome[s] = "none"
      BY <2>1 DEF UnitsInv, UnitInv
    <3>2. Promise!Raise(s)
      BY <2>1, <3>1 DEF Rollback, End, Promise!Raise, Promise!Outcomes, Outcomes
    <3> QED
      BY <3>2 DEF Promise!Next
  <2>2. ASSUME NEW s \in Session, Commit(s) PROVE Promise!Next
    <3>1. outcome[s] = "none" /\ pc[s] # "done"
      BY <2>2 DEF Commit, UnitsInv, UnitInv
    <3>2. \A k \in Key : Found(s, k) = Promise!Seen(s, k, rows[k])
      BY <2>2, <3>1, CommittedIsSeen DEF Commit
    <3>3. Promise!Commit(s)
      BY <2>2, <3>1, <3>2 DEF Commit, End, Promise!Commit
    <3> QED
      BY <3>3 DEF Promise!Next
  <2>3. CASE UNCHANGED <<rows, program, outcome>>
    BY <2>3 DEF Promise!vars
  <2> QED
    BY <2>1, <2>2, <2>3 DEF Next, Steps, Enter, Begin, BusyTimeout, Upsert, Refuse, LockTimeout,
       Deadlock, Raise, Blocked, Deadlocked, Outcomes, vars, table
<1> QED
  BY <1>1, <1>2, Inductive, PTL DEF Spec, OneAfterTheOther, Promise!Spec
=============================================================================
