--------------------------- MODULE Sessions_proofs ---------------------------
(***************************************************************************)
(* Proofs about Sessions, for any sessions, nesting, pool and writes: who  *)
(* holds which connection, what a session relies on in its block, and      *)
(* hence that units of work are atomic, and all of them are units in the   *)
(* sense of Units.                                                         *)
(***************************************************************************)
EXTENDS Sessions, TLAPS

\* A session has a connection between its checkout and its close.
Held(s) == pc[s] \in {"hook", "begin", "work", "rollback", "close"}

Clean(c) == lock # c /\ tx[c] = "none" /\ snapshot[c] = Unread

PoolInv ==
    /\ \A s \in Session : Held(s) => conn[s] \in Connection \ pool
    /\ \A s, t \in Session : s # t /\ Held(s) /\ Held(t) => conn[s] # conn[t]
    /\ \A c \in pool : Clean(c)
    /\ \A s \in Session : pc[s] \in {"hook", "close"} => Clean(conn[s])

\* Whoever has the lock sees the last commit.
LockInv == lock # Nobody => snapshot[lock] = db

\* What a session relies on at each point of session_scope().
BlockInv == \A s \in Session :
    /\ pc[s] \in {"new", "checkout", "hook", "begin"} => wrote[s] = 0 /\ seen[s] = {}
    /\ pc[s] \in {"new", "checkout", "hook", "begin", "work"} => outcome[s] = "none"
    /\ pc[s] \in {"begin", "work"} => queryOnly[conn[s]] = (kind[s] = "readonly")
    /\ pc[s] = "begin" => Clean(conn[s])
    /\ pc[s] = "work" /\ kind[s] = "write" => lock = conn[s] /\ tx[conn[s]] = "immediate"
    /\ pc[s] = "work" /\ kind[s] = "autocommit" =>
          tx[conn[s]] = "each" /\ snapshot[conn[s]] = Unread
    /\ pc[s] = "work" /\ kind[s] = "readonly" =>
          /\ tx[conn[s]] = "deferred"
          /\ seen[s] = IF snapshot[conn[s]] = Unread THEN {} ELSE {snapshot[conn[s]]}
    /\ pc[s] \in {"work", "rollback"} /\ kind[s] # "write" => lock # conn[s]

IInv == TypeOK /\ PoolInv /\ LockInv /\ BlockInv

-----------------------------------------------------------------------------

\* A transaction that has read has a set of writes for its snapshot.
LEMMA WritesAreSets == \A d \in SUBSET Writes : d # Unread
BY NobodyIsNone, SomeWrites DEF Writes, Unread

LEMMA ReleaseType ==
    ASSUME TypeOK, NEW c \in Connection, Release(c)
    PROVE  /\ lock' \in Connection \union {Nobody}
           /\ tx' \in [Connection -> Transactions]
           /\ snapshot' \in [Connection -> {Unread} \union SUBSET Writes]
<1> DEFINE Snapshots == {Unread} \union SUBSET Writes
<1>1. Unread \in Snapshots
  OBVIOUS
<1>2. snapshot \in [Connection -> Snapshots]
  BY DEF TypeOK
<1>3. snapshot' \in [Connection -> Snapshots]
  <2> HIDE DEF Snapshots
  <2> QED
    BY <1>1, <1>2 DEF Release
<1> QED
  BY <1>3 DEF Release, TypeOK, Transactions

LEMMA TypeStep ==
    ASSUME IInv, NEW s \in Session, Open(s) \/ Run(s)
    PROVE  TypeOK'
<1> USE SomeWrites DEF IInv, TypeOK, PC, Goto, End, sqlite, session
<1>1. CASE Open(s) \/ PoolTimeout(s)
  BY <1>1 DEF Open, PoolTimeout, Outcomes
<1>2. CASE Checkout(s)
  BY <1>2 DEF Checkout
<1>3. CASE Hook(s)
  BY <1>3 DEF Hook
<1>4. CASE BeginDeferred(s) \/ NoBegin(s)
  BY <1>4 DEF BeginDeferred, NoBegin, Transactions
<1>5. CASE BeginImmediate(s)
  BY <1>5 DEF BeginImmediate, Transactions
<1>6. CASE BeginBusy(s) \/ Raise(s)
  BY <1>6 DEF BeginBusy, Raise, Outcomes
<1>7. CASE Read(s)
  <2>1. pc' \in [Session -> PC]
    BY <1>7 DEF Read
  <2>2. conn[s] \in Connection
    BY <1>7 DEF Read, PoolInv, Held
  <2>3. snapshot[conn[s]] \in {Unread} \union SUBSET Writes
    BY <2>2
  <2> DEFINE now == IF tx[conn[s]] = "each" \/ snapshot[conn[s]] = Unread THEN db
                    ELSE snapshot[conn[s]]
  <2>4. now \in SUBSET Writes
    <3>1. CASE snapshot[conn[s]] = Unread
      BY <3>1
    <3>2. CASE snapshot[conn[s]] # Unread
      BY <2>3, <3>2
    <3> QED
      BY <3>1, <3>2
  <2>5. seen' = [seen EXCEPT ![s] = IF kind[s] = "readonly" THEN @ \union {now} ELSE @]
    BY <1>7 DEF Read
  <2>6. snapshot' = [snapshot EXCEPT ![conn[s]] = IF tx[conn[s]] = "each" THEN @ ELSE now]
    BY <1>7 DEF Read
  <2> HIDE DEF now
  <2> QED
    BY <1>7, <2>1, <2>2, <2>3, <2>4, <2>5, <2>6 DEF Read
<1>8. CASE Write(s)
  <2>1. conn[s] \in Connection
    BY <1>8 DEF Write, PoolInv, Held
  <2>2. wrote' \in [Session -> 0..MaxWrites] /\ wrote'[s] \in 1..MaxWrites
    BY <1>8 DEF Write
  <2>3. db \union {<<s, wrote'[s]>>} \in SUBSET Writes
    BY <2>2 DEF Writes
  <2> QED
    BY <1>8, <2>1, <2>2, <2>3 DEF Write
<1>9. CASE WriteRefused(s)
  BY <1>9 DEF WriteRefused, Refusal, Outcomes
<1>10. CASE Commit(s)
  <2>1. conn[s] \in Connection
    BY <1>10 DEF Commit, PoolInv, Held
  <2>2. lock = conn[s] => snapshot[conn[s]] = db
    BY <2>1, NobodyIsNone DEF LockInv
  <2>3. WrittenBy(s) \in SUBSET Writes
    BY DEF WrittenBy, Writes
  <2>4. db' \in SUBSET Writes
    BY <1>10, <2>2, <2>3 DEF Commit
  <2> QED
    BY <1>10, <2>1, <2>4, ReleaseType DEF Commit, Outcomes
<1>11. CASE Rollback(s)
  <2>1. conn[s] \in Connection
    BY <1>11 DEF Rollback, PoolInv, Held
  <2> QED
    BY <1>11, <2>1, ReleaseType DEF Rollback
<1>12. CASE Close(s)
  BY <1>12 DEF Close, PoolInv, Held
<1> QED
  BY <1>1, <1>2, <1>3, <1>4, <1>5, <1>6, <1>7, <1>8, <1>9, <1>10, <1>11, <1>12 DEF Run

\* No step gives a connection to two sessions or soils one in the pool.
LEMMA PoolStep ==
    ASSUME IInv, TypeOK', NEW s \in Session, Open(s) \/ Run(s)
    PROVE  PoolInv'
<1> USE NobodyIsNone DEF IInv, TypeOK, PoolInv, Held, Clean, Goto, End, Release, sqlite, session
<1>1. CASE Open(s) \/ PoolTimeout(s)
  BY <1>1 DEF Open, PoolTimeout
<1>2. CASE Checkout(s)
  BY <1>2 DEF Checkout
<1>3. CASE Hook(s)
  BY <1>3 DEF Hook
<1>4. CASE BeginDeferred(s) \/ NoBegin(s)
  BY <1>4 DEF BeginDeferred, NoBegin
<1>5. CASE BeginImmediate(s)
  BY <1>5 DEF BeginImmediate
<1>6. CASE BeginBusy(s) \/ Raise(s) \/ WriteRefused(s)
  BY <1>6 DEF BeginBusy, Raise, WriteRefused
<1>7. CASE Read(s)
  BY <1>7 DEF Read
<1>8. CASE Write(s)
  BY <1>8 DEF Write
<1>9. CASE Commit(s)
  BY <1>9 DEF Commit
<1>10. CASE Rollback(s)
  BY <1>10 DEF Rollback
<1>11. CASE Close(s)
  BY <1>11 DEF Close
<1> QED
  BY <1>1, <1>2, <1>3, <1>4, <1>5, <1>6, <1>7, <1>8, <1>9, <1>10, <1>11 DEF Run

\* A write takes the lock only with a current snapshot, and without the lock
\* only when nobody has it.
LEMMA LockStep ==
    ASSUME IInv, TypeOK', NEW s \in Session, Open(s) \/ Run(s)
    PROVE  LockInv'
<1> USE NobodyIsNone DEF IInv, TypeOK, LockInv, PoolInv, Held, Goto, Release, sqlite, session
<1>1. CASE Read(s)
  BY <1>1 DEF Read
<1>2. CASE Write(s)
  BY <1>2 DEF Write, Refusal, BlockInv, Kinds
<1>3. CASE BeginImmediate(s)
  BY <1>3 DEF BeginImmediate
<1>4. CASE Commit(s) \/ Rollback(s)
  BY <1>4 DEF Commit, Rollback
<1>5. CASE UNCHANGED <<db, lock, snapshot>>
  BY <1>5
<1> QED
  BY <1>1, <1>2, <1>3, <1>4, <1>5 DEF Run, Open, Checkout, PoolTimeout, Hook, BeginDeferred,
     BeginBusy, NoBegin, WriteRefused, Raise, Close

LEMMA BlockStep ==
    ASSUME IInv, TypeOK', PoolInv', NEW s \in Session, Open(s) \/ Run(s)
    PROVE  BlockInv'
<1> USE NobodyIsNone DEF IInv, TypeOK, PoolInv, BlockInv, Held, Clean, Goto, End, Release, sqlite,
    session, Kinds
<1>1. CASE Open(s) \/ PoolTimeout(s)
  BY <1>1 DEF Open, PoolTimeout
<1>2. CASE Checkout(s)
  BY <1>2 DEF Checkout
<1>3. CASE Hook(s)
  BY <1>3 DEF Hook
<1>4. CASE BeginDeferred(s)
  BY <1>4 DEF BeginDeferred
<1>5. CASE NoBegin(s)
  BY <1>5 DEF NoBegin
<1>6. CASE BeginImmediate(s)
  BY <1>6 DEF BeginImmediate
<1>7. CASE BeginBusy(s) \/ Raise(s) \/ WriteRefused(s)
  BY <1>7 DEF BeginBusy, Raise, WriteRefused
<1>8. CASE Read(s)
  <2> DEFINE c == conn[s]
  <2>1. c \in Connection /\ pc[s] = "work" /\ pc' = pc
    BY <1>8 DEF Read
  <2>2. \A d \in Connection \ {c} : snapshot'[d] = snapshot[d]
    BY <1>8, <2>1 DEF Read
  <2>3. \A t \in Session \ {s} : seen'[t] = seen[t]
    BY <1>8 DEF Read
  <2>4. UNCHANGED <<kind, conn, wrote, outcome, queryOnly, tx, lock>>
    BY <1>8 DEF Read
  <2>5. kind[s] = "autocommit" => snapshot'[c] = Unread
    BY <1>8, <2>1 DEF Read
  <2>6. kind[s] = "readonly" => seen'[s] = {snapshot'[c]} /\ snapshot'[c] # Unread
    <3>1. db # Unread
      BY WritesAreSets
    <3> QED
      BY <1>8, <2>1, <3>1 DEF Read
  <2> QED
    BY <2>1, <2>2, <2>3, <2>4, <2>5, <2>6
<1>9. CASE Write(s)
  BY <1>9 DEF Write, Refusal
<1>10. CASE Commit(s)
  BY <1>10 DEF Commit
<1>11. CASE Rollback(s)
  BY <1>11 DEF Rollback
<1>12. CASE Close(s)
  BY <1>12 DEF Close
<1> QED
  BY <1>1, <1>2, <1>3, <1>4, <1>5, <1>6, <1>7, <1>8, <1>9, <1>10, <1>11, <1>12 DEF Run

\* IInv holds in the initial states and is kept by every step.
LEMMA Inductive == Spec => []IInv
<1>1. Init => IInv
  BY NobodyIsNone, SomeWrites DEF Init, IInv, TypeOK, PoolInv, LockInv, BlockInv, Held, Clean,
     PC, Kinds, Transactions, Outcomes
<1>2. IInv /\ [Next]_vars => IInv'
  <2> SUFFICES ASSUME IInv, [Next]_vars PROVE IInv'
    OBVIOUS
  <2>1. ASSUME NEW s \in Session, Open(s) \/ Run(s) PROVE IInv'
    <3>1. TypeOK'
      BY <2>1, TypeStep
    <3>2. PoolInv'
      BY <2>1, <3>1, PoolStep
    <3> QED
      BY <2>1, <3>1, <3>2, LockStep, BlockStep DEF IInv
  <2>2. CASE UNCHANGED vars
    BY <2>2 DEF vars, sqlite, session, IInv, TypeOK, PoolInv, LockInv, BlockInv, Held, Clean
  <2> QED
    BY <2>1, <2>2 DEF Next
<1> QED
  BY <1>1, <1>2, PTL DEF Spec

\* The state of sessions and connections is of its types.
THEOREM TypeCorrect == Spec => []TypeOK
<1>1. IInv => TypeOK
  BY DEF IInv
<1> QED
  BY <1>1, Inductive, PTL

\* A connection in the pool is clean, whatever the sessions before did with it,
\* and no connection is checked out twice.
THEOREM PoolStaysClean == Spec => []PoolIsClean
<1>1. IInv => PoolIsClean
  BY DEF IInv, TypeOK, PC, PoolInv, PoolIsClean, Held, Clean
<1> QED
  BY <1>1, Inductive, PTL

-----------------------------------------------------------------------------

\* A session that was not declared read-only is never refused a write for
\* query_only or for a stale snapshot, and waits for the lock at BEGIN only.
THEOREM WritersBeginOrFail == Spec => []WritersContendOnlyAtBegin
<1>1. Init => WritersContendOnlyAtBegin
  BY DEF Init, WritersContendOnlyAtBegin
<1>2. IInv /\ WritersContendOnlyAtBegin /\ [Next]_vars => WritersContendOnlyAtBegin'
  <2> SUFFICES ASSUME IInv, WritersContendOnlyAtBegin, [Next]_vars
               PROVE  WritersContendOnlyAtBegin'
    OBVIOUS
  <2> USE DEF IInv, TypeOK, WritersContendOnlyAtBegin, Goto, End, sqlite, session
  <2>1. ASSUME NEW s \in Session, WriteRefused(s) PROVE WritersContendOnlyAtBegin'
    BY <2>1, NobodyIsNone DEF WriteRefused, Refusal, BlockInv, PoolInv, Held, Kinds
  <2>2. ASSUME NEW s \in Session, Write(s) PROVE WritersContendOnlyAtBegin'
    BY <2>2 DEF Write, BlockInv
  <2>3. ASSUME NEW s \in Session, PoolTimeout(s) \/ BeginBusy(s) \/ Raise(s) \/ Commit(s)
        PROVE  WritersContendOnlyAtBegin'
    BY <2>3 DEF PoolTimeout, BeginBusy, Raise, Commit, BlockInv
  <2>4. CASE UNCHANGED <<kind, wrote, outcome>>
    BY <2>4
  <2> QED
    BY <2>1, <2>2, <2>3, <2>4 DEF Next, Run, Open, Checkout, Hook, BeginDeferred, BeginImmediate,
       NoBegin, Read, Rollback, Close, vars
<1> QED
  BY <1>1, <1>2, Inductive, PTL DEF Spec

\* Readers write nothing, take no lock, wait for none, and see one state.
THEOREM ReadersRead == Spec => []ReadersOnlyRead
<1>1. Init => ReadersOnlyRead
  BY DEF Init, ReadersOnlyRead
<1>2. IInv /\ IInv' /\ ReadersOnlyRead /\ [Next]_vars => ReadersOnlyRead'
  <2> SUFFICES ASSUME IInv, IInv', ReadersOnlyRead, [Next]_vars
               PROVE  ReadersOnlyRead'
    OBVIOUS
  <2>1. \A s \in Session : kind'[s] = "readonly" /\ pc'[s] \in {"work", "rollback", "close"} =>
           lock' # conn'[s]
    BY DEF IInv, PoolInv, BlockInv, Clean
  <2> USE DEF IInv, TypeOK, ReadersOnlyRead, Goto, End, sqlite, session
  <2>2. ASSUME NEW s \in Session, WriteRefused(s) PROVE ReadersOnlyRead'
    BY <2>1, <2>2 DEF WriteRefused, Refusal, BlockInv, PoolInv, Held, Kinds
  <2>3. ASSUME NEW s \in Session, Write(s) PROVE ReadersOnlyRead'
    BY <2>1, <2>3 DEF Write, Refusal, BlockInv
  <2>4. ASSUME NEW s \in Session, Read(s) PROVE ReadersOnlyRead'
    <3>1. kind[s] = "readonly" => \A a, b \in seen'[s] : a = b
      BY <2>4 DEF Read, BlockInv
    <3> QED
      BY <2>1, <2>4, <3>1 DEF Read
  <2>5. ASSUME NEW s \in Session, PoolTimeout(s) \/ BeginBusy(s) \/ Raise(s) \/ Commit(s)
        PROVE  ReadersOnlyRead'
    BY <2>1, <2>5 DEF PoolTimeout, BeginBusy, Raise, Commit
  <2>6. CASE UNCHANGED <<kind, wrote, outcome, seen>>
    BY <2>1, <2>6
  <2> QED
    BY <2>2, <2>3, <2>4, <2>5, <2>6 DEF Next, Run, Open, Checkout, Hook, BeginDeferred,
       BeginImmediate, NoBegin, Rollback, Close, vars
<1> QED
  BY <1>1, <1>2, Inductive, PTL DEF Spec

\* A unit of work is all or nothing.
THEOREM UnitsAreAtomic == Spec => []AllOrNothing
<1>1. Init => AllOrNothing
  BY DEF Init, AllOrNothing
<1>2. IInv /\ ReadersOnlyRead /\ AllOrNothing /\ [Next]_vars => AllOrNothing'
  <2> SUFFICES ASSUME IInv, ReadersOnlyRead, AllOrNothing, [Next]_vars PROVE AllOrNothing'
    OBVIOUS
  <2> USE DEF IInv, TypeOK, AllOrNothing, Goto, End, sqlite, session
  <2>1. ASSUME NEW s \in Session, Commit(s) PROVE AllOrNothing'
    <3>1. kind[s] # "write" => lock # conn[s]
      BY <2>1 DEF Commit, BlockInv
    <3>2. lock = conn[s] => snapshot[conn[s]] = db
      BY <2>1, NobodyIsNone DEF Commit, PoolInv, Held, LockInv
    <3>3. kind[s] = "readonly" => wrote[s] = 0
      BY DEF ReadersOnlyRead
    <3> QED
      BY <2>1, <3>1, <3>2, <3>3 DEF Commit, WrittenBy, BlockInv, Kinds
  <2>2. ASSUME NEW s \in Session, Write(s) PROVE AllOrNothing'
    BY <2>2 DEF Write, BlockInv, Kinds, WrittenBy
  <2>3. ASSUME NEW s \in Session, PoolTimeout(s) \/ BeginBusy(s) \/ Raise(s) \/ WriteRefused(s)
        PROVE  AllOrNothing'
    BY <2>3 DEF PoolTimeout, BeginBusy, Raise, WriteRefused, Refusal, BlockInv, WrittenBy
  <2>4. CASE UNCHANGED <<db, kind, wrote, outcome>>
    BY <2>4 DEF WrittenBy
  <2> QED
    BY <2>1, <2>2, <2>3, <2>4 DEF Next, Run, Open, Checkout, Hook, BeginDeferred, BeginImmediate,
       NoBegin, Read, Rollback, Close, vars
<1> QED
  BY <1>1, <1>2, Inductive, ReadersRead, PTL DEF Spec

-----------------------------------------------------------------------------
(* Sessions implements Units *)

\* A step of s changes nothing of another session, and no snapshot but that of
\* its own connection.
ActsFor(s) ==
    /\ UNCHANGED kind
    /\ \A t \in Session \ {s} : pc'[t] = pc[t] /\ conn'[t] = conn[t] /\ wrote'[t] = wrote[t]
                                 /\ outcome'[t] = outcome[t]
    /\ \A c \in Connection : snapshot'[c] # snapshot[c] => Held(s) /\ c = conn[s]

LEMMA Acts ==
    ASSUME IInv, NEW s \in Session, Open(s) \/ Run(s)
    PROVE  ActsFor(s)
<1> USE DEF IInv, TypeOK, ActsFor, Held, Goto, End, Release, sqlite, session
<1>1. CASE Open(s) \/ Checkout(s) \/ PoolTimeout(s) \/ Hook(s)
  BY <1>1 DEF Open, Checkout, PoolTimeout, Hook
<1>2. CASE BeginDeferred(s) \/ BeginImmediate(s) \/ BeginBusy(s) \/ NoBegin(s)
  BY <1>2 DEF BeginDeferred, BeginImmediate, BeginBusy, NoBegin
<1>3. CASE Read(s)
  BY <1>3 DEF Read
<1>4. CASE Write(s)
  BY <1>4 DEF Write
<1>5. CASE WriteRefused(s) \/ Raise(s)
  BY <1>5 DEF WriteRefused, Raise
<1>6. CASE Commit(s) \/ Rollback(s) \/ Close(s)
  BY <1>6 DEF Commit, Rollback, Close
<1> QED
  BY <1>1, <1>2, <1>3, <1>4, <1>5, <1>6 DEF Run

\* Hence Units sees nothing change but what s is to it.
LEMMA View ==
    ASSUME IInv, NEW s \in Session, ActsFor(s)
    PROVE  /\ Base' = [Base EXCEPT ![s] = Base'[s]]
           /\ Pending' = [Pending EXCEPT ![s] = Pending'[s]]
           /\ State' = [State EXCEPT ![s] = State'[s]]
<1>1. ASSUME NEW t \in Session \ {s}
      PROVE  Base'[t] = Base[t] /\ Pending'[t] = Pending[t] /\ State'[t] = State[t]
  <2>1. (pc[t] = "work" <=> pc'[t] = "work") /\ (InBlock(t)' <=> InBlock(t))
    BY DEF ActsFor, InBlock
  <2>2. InBlock(t) => snapshot'[conn'[t]] = snapshot[conn[t]]
    BY DEF ActsFor, InBlock, IInv, PoolInv, Held
  <2>3. WrittenBy(t)' = WrittenBy(t)
    BY DEF ActsFor, WrittenBy
  <2>4. /\ Base[t] = IF InBlock(t) THEN snapshot[conn[t]] ELSE Unread
        /\ Base'[t] = IF InBlock(t)' THEN snapshot'[conn'[t]] ELSE Unread
    BY DEF Base
  <2>5. /\ Pending[t] = IF InBlock(t) THEN WrittenBy(t) ELSE {}
        /\ Pending'[t] = IF InBlock(t)' THEN WrittenBy(t)' ELSE {}
    BY DEF Pending
  <2>6. State'[t] = State[t]
    BY DEF ActsFor, State
  <2> QED
    BY <2>1, <2>2, <2>3, <2>4, <2>5, <2>6
<1> QED
  BY <1>1 DEF Base, Pending, State

\* What s is to Units, now and after the step.
LEMMA OwnView ==
    ASSUME NEW s \in Session
    PROVE  /\ Base[s] = IF InBlock(s) THEN snapshot[conn[s]] ELSE Unread
           /\ Base'[s] = IF InBlock(s)' THEN snapshot'[conn'[s]] ELSE Unread
           /\ Pending[s] = IF InBlock(s) THEN WrittenBy(s) ELSE {}
           /\ Pending'[s] = IF InBlock(s)' THEN WrittenBy(s)' ELSE {}
           /\ State[s] = EndOf(outcome[s])
           /\ State'[s] = EndOf(outcome'[s])
  BY DEF Base, Pending, State

LEMMA Ends ==
    /\ EndOf("none") = "open" /\ EndOf("committed") = "committed"
    /\ EndOf("raised") = "failed" /\ EndOf("readonly") = "failed"
    /\ EndOf("busy") = "refused" /\ EndOf("noConnection") = "refused"
  BY DEF EndOf

\* Before its first write a session has nothing pending.
LEMMA NothingWritten ==
    ASSUME NEW s \in Session, wrote[s] = 0
    PROVE  WrittenBy(s) = {}
<1>1. 1..0 = {}
  OBVIOUS
<1> QED
  BY <1>1 DEF WrittenBy

LEMMA PairAdded ==
    ASSUME NEW x, NEW y, NEW Y
    PROVE  {x} \X (Y \union {y}) = ({x} \X Y) \union {<<x, y>>}
  OBVIOUS

\* Every behaviour of sessions, for any nesting, pool and number of writes, is one
\* of Units: the begin hook, the pool and the one lock isolate units of work.
THEOREM SessionsImplementUnits == Spec => KeepsUnits
<1>1. Init => Promise!Init
  <2> SUFFICES ASSUME Init PROVE Promise!Init
    OBVIOUS
  <2>1. \A s \in Session : ~InBlock(s)
    BY DEF Init, InBlock
  <2>2. Base = [s \in Session |-> Unread] /\ Pending = [s \in Session |-> {}]
    BY <2>1 DEF Base, Pending
  <2>3. State = [s \in Session |-> "open"]
    BY Ends DEF Init, State
  <2> QED
    BY <2>2, <2>3 DEF Init, Promise!Init, Kinds, Promise!Kinds
<1>2. IInv /\ IInv' /\ ReadersOnlyRead /\ [Next]_vars => [Promise!Next]_Promise!vars
  <2> SUFFICES ASSUME IInv, IInv', ReadersOnlyRead, [Next]_vars PROVE [Promise!Next]_Promise!vars
    OBVIOUS
  <2>1. ASSUME NEW s \in Session, Open(s) \/ Run(s) PROVE [Promise!Next]_Promise!vars
    <3>0. /\ Base' = [Base EXCEPT ![s] = Base'[s]]
          /\ Pending' = [Pending EXCEPT ![s] = Pending'[s]]
          /\ State' = [State EXCEPT ![s] = State'[s]]
      BY <2>1, Acts, View
    <3>k. /\ Base'[s] = Base[s] => Base' = Base
          /\ Pending'[s] = Pending[s] => Pending' = Pending
          /\ State'[s] = State[s] => State' = State
      <4>1. /\ [Base EXCEPT ![s] = Base[s]] = Base
            /\ [Pending EXCEPT ![s] = Pending[s]] = Pending
            /\ [State EXCEPT ![s] = State[s]] = State
        BY DEF Base, Pending, State
      <4> QED
        BY <3>0, <4>1
    <3>s. UNCHANGED <<db, kind, seen, Base[s], Pending[s], State[s]>> => UNCHANGED Promise!vars
      BY <3>k DEF Promise!vars
    <3>d. db # Unread
      BY WritesAreSets DEF IInv, TypeOK
    <3> USE DEF IInv, TypeOK, BlockInv, InBlock, Goto, End, sqlite, session, Kinds
    <3>1. CASE Open(s) \/ Checkout(s) \/ Hook(s) \/ NoBegin(s)
      <4>1. UNCHANGED <<db, kind, seen, outcome, wrote>> /\ ~InBlock(s) /\ ~InBlock(s)'
        BY <3>1 DEF Open, Checkout, Hook, NoBegin
      <4> QED
        BY <4>1, <3>s, OwnView
    <3>2. CASE BeginDeferred(s)
      <4>1. /\ UNCHANGED <<db, kind, seen, outcome, wrote>> /\ ~InBlock(s) /\ wrote'[s] = 0
            /\ snapshot'[conn'[s]] = Unread
        BY <3>2 DEF BeginDeferred, Clean
      <4>2. WrittenBy(s) = {} /\ WrittenBy(s)' = {}
        BY <4>1, NothingWritten DEF WrittenBy
      <4>3. Base[s] = Unread /\ Base'[s] = Unread
        BY <4>1, OwnView
      <4>4. Pending[s] = {} /\ Pending'[s] = {}
        BY <4>2, OwnView
      <4> QED
        BY <4>1, <4>3, <4>4, <3>s, OwnView
    <3>3. CASE Rollback(s) \/ Close(s)
      <4>1. UNCHANGED <<db, kind, seen, outcome>> /\ ~InBlock(s) /\ ~InBlock(s)'
        BY <3>3 DEF Rollback, Close
      <4> QED
        BY <4>1, <3>s, OwnView
    <3>4. CASE BeginImmediate(s)
      <4>1. /\ UNCHANGED <<db, kind, seen, outcome, wrote>> /\ wrote[s] = 0 /\ outcome[s] = "none"
            /\ kind[s] = "write" /\ ~InBlock(s) /\ InBlock(s)'
        BY <3>4 DEF BeginImmediate
      <4>2. snapshot'[conn'[s]] = db
        BY <3>4 DEF BeginImmediate, PoolInv, Held
      <4>3. WrittenBy(s)' = {}
        BY <4>1, NothingWritten DEF WrittenBy
      <4>4. Base[s] = Unread /\ Base'[s] = db
        BY <4>1, <4>2, OwnView
      <4>5. Pending[s] = {} /\ Pending'[s] = {}
        BY <4>1, <4>3, OwnView
      <4>6. State[s] = "open" /\ State'[s] = "open"
        BY <4>1, OwnView, Ends
      <4>7. Pending' = Pending /\ State' = State
        BY <3>k, <4>5, <4>6
      <4>8. Promise!Begin(s)
        BY <3>0, <4>1, <4>4, <4>6, <4>7 DEF Promise!Begin
      <4> QED
        BY <4>8 DEF Promise!Next
    <3>5. CASE Read(s)
      <4>1. /\ UNCHANGED <<db, kind, conn, wrote, outcome>> /\ outcome[s] = "none"
            /\ pc[s] = "work" /\ pc'[s] = "work"
        BY <3>5 DEF Read
      <4>2. Pending' = Pending /\ State' = State
        <5>1. WrittenBy(s)' = WrittenBy(s)
          BY <4>1 DEF WrittenBy
        <5> QED
          BY <3>k, <4>1, <5>1, OwnView
      <4>3. /\ conn[s] \in Connection
            /\ snapshot'[conn[s]] = IF tx[conn[s]] = "each" \/ snapshot[conn[s]] # Unread
                                    THEN snapshot[conn[s]] ELSE db
        BY <3>5 DEF Read, PoolInv, Held
      <4>4. CASE kind[s] = "readonly"
        <5>1. Base[s] = snapshot[conn[s]] /\ Base'[s] = snapshot'[conn[s]]
          BY <4>1, <4>4, OwnView
        <5>2. tx[conn[s]] = "deferred"
          BY <4>1, <4>4
        <5>3. Base'[s] = IF Base[s] = Unread THEN db ELSE Base[s]
          BY <4>3, <5>1, <5>2
        <5>4. seen' = [seen EXCEPT ![s] = @ \union {Base'[s]}]
          BY <3>5, <4>4, <5>1, <5>2, <5>3 DEF Read
        <5>5. State[s] = "open"
          BY <4>1, OwnView, Ends
        <5>6. Promise!Show(s)
          BY <3>0, <4>1, <4>2, <4>4, <5>3, <5>4, <5>5 DEF Promise!Show
        <5> QED
          BY <5>6 DEF Promise!Next
      <4>5. CASE kind[s] # "readonly"
        <5>1. seen' = seen
          BY <3>5, <4>5 DEF Read
        <5>2. kind[s] = "write" => snapshot[conn[s]] # Unread
          BY <4>1, <3>d, NobodyIsNone, <4>3 DEF LockInv
        <5>3. Base' = Base
          BY <3>k, <4>1, <4>3, <4>5, <5>2, OwnView
        <5> QED
          BY <4>1, <4>2, <5>1, <5>3 DEF Promise!vars
      <4> QED
        BY <4>4, <4>5
    <3>6. CASE Write(s)
      <4>1. /\ UNCHANGED <<kind, conn, outcome, seen>> /\ outcome[s] = "none"
            /\ pc[s] = "work" /\ pc'[s] = "work" /\ conn[s] \in Connection
            /\ wrote'[s] = wrote[s] + 1 /\ wrote[s] \in Nat /\ wrote'[s] \in 1..MaxWrites
        BY <3>6, SomeWrites DEF Write, PoolInv, Held
      <4>2. State' = State /\ State[s] = "open"
        BY <3>k, <4>1, OwnView, Ends
      <4>3. kind[s] # "readonly"
        BY <3>6, <4>1 DEF Write, Refusal
      <4>4. CASE kind[s] = "autocommit"
        <5>1. tx[conn[s]] = "each"
          BY <4>1, <4>4
        <5>2. db' = db \union {<<s, wrote'[s]>>}
          BY <3>6, <5>1 DEF Write
        <5>3. Base' = Base /\ Pending' = Pending
          BY <3>k, <4>1, <4>4, OwnView
        <5>4. Promise!Statement(s, wrote'[s])
          BY <4>1, <4>2, <4>4, <5>2, <5>3 DEF Promise!Statement
        <5> QED
          BY <4>1, <5>4 DEF Promise!Next
      <4>5. CASE kind[s] = "write"
        <5>1. tx[conn[s]] # "each" /\ lock = conn[s] /\ snapshot[conn[s]] = db
          BY <4>1, <4>5, NobodyIsNone DEF LockInv
        <5>2. db' = db /\ snapshot'[conn[s]] = db
          BY <3>6, <4>1, <5>1 DEF Write
        <5>3. Base' = Base /\ Base[s] = db
          BY <3>k, <4>1, <4>5, <5>1, <5>2, OwnView
        <5>4. WrittenBy(s)' = WrittenBy(s) \union {<<s, wrote'[s]>>}
          <6>1. \A k \in Nat : 1..(k + 1) = (1..k) \union {k + 1}
            OBVIOUS
          <6>2. 1..wrote'[s] = (1..wrote[s]) \union {wrote'[s]}
            BY <4>1, <6>1
          <6>3. WrittenBy(s)' = {s} \X (1..wrote'[s]) /\ WrittenBy(s) = {s} \X (1..wrote[s])
            BY DEF WrittenBy
          <6> QED
            BY <6>2, <6>3, PairAdded
        <5>5. Pending'[s] = Pending[s] \union {<<s, wrote'[s]>>}
          BY <4>1, <4>5, <5>4, OwnView
        <5>6. Promise!Work(s, wrote'[s])
          BY <3>0, <3>d, <4>1, <4>2, <4>5, <5>2, <5>3, <5>5 DEF Promise!Work
        <5> QED
          BY <4>1, <5>6 DEF Promise!Next
      <4> QED
        BY <4>3, <4>4, <4>5
    <3>7. CASE Commit(s)
      <4>1. /\ UNCHANGED <<kind, seen>> /\ outcome[s] = "none" /\ outcome'[s] = "committed"
            /\ pc[s] = "work" /\ pc'[s] = "close" /\ conn[s] \in Connection
            /\ db' = IF lock = conn[s] THEN snapshot[conn[s]] \union WrittenBy(s) ELSE db
        BY <3>7 DEF Commit, PoolInv, Held
      <4>2. State[s] = "open" /\ State'[s] = "committed" /\ Base'[s] = Unread /\ Pending'[s] = {}
        BY <4>1, OwnView, Ends
      <4>3. (kind[s] = "write" => Base[s] = db) /\ db' = db \union Pending[s]
        <5>1. CASE kind[s] = "write"
          <6>1. lock = conn[s] /\ snapshot[conn[s]] = db
            BY <4>1, <5>1, NobodyIsNone DEF LockInv
          <6> QED
            BY <4>1, <5>1, <6>1, OwnView
        <5>2. CASE kind[s] = "readonly"
          <6>1. WrittenBy(s) = {}
            BY <5>2, NothingWritten DEF ReadersOnlyRead
          <6> QED
            BY <4>1, <5>2, <6>1, OwnView
        <5>3. CASE kind[s] = "autocommit"
          BY <4>1, <5>3, OwnView
        <5> QED
          BY <5>1, <5>2, <5>3
      <4>4. Promise!Commit(s)
        BY <3>0, <4>1, <4>2, <4>3 DEF Promise!Commit, Promise!End
      <4> QED
        BY <4>4 DEF Promise!Next
    <3>8. CASE Raise(s) \/ (WriteRefused(s) /\ outcome'[s] = "readonly")
      <4>1. /\ UNCHANGED <<db, kind, seen>> /\ outcome[s] = "none"
            /\ outcome'[s] \in {"raised", "readonly"} /\ pc'[s] = "rollback"
        BY <3>8 DEF Raise, WriteRefused
      <4>2. State[s] = "open" /\ State'[s] = "failed" /\ Base'[s] = Unread /\ Pending'[s] = {}
        BY <4>1, OwnView, Ends
      <4>3. Promise!Fail(s)
        BY <3>0, <4>1, <4>2 DEF Promise!Fail, Promise!End
      <4> QED
        BY <4>3 DEF Promise!Next
    <3>9. CASE PoolTimeout(s) \/ BeginBusy(s) \/ (WriteRefused(s) /\ outcome'[s] # "readonly")
      <4>1. /\ UNCHANGED <<db, kind, seen>> /\ outcome[s] = "none" /\ ~InBlock(s) /\ ~InBlock(s)'
            /\ outcome'[s] \in {"noConnection", "busy"}
        <5>1. CASE PoolTimeout(s)
          BY <5>1 DEF PoolTimeout
        <5>2. CASE BeginBusy(s)
          BY <5>2 DEF BeginBusy
        <5>3. CASE WriteRefused(s) /\ outcome'[s] # "readonly"
          <6>1. /\ pc[s] = "work" /\ pc'[s] = "rollback" /\ UNCHANGED <<db, kind, seen>>
                /\ outcome'[s] = Refusal(conn[s]) /\ Refusal(conn[s]) # "none"
            BY <5>3 DEF WriteRefused
          <6>2. ~queryOnly[conn[s]] /\ lock # conn[s]
            BY <5>3, <6>1 DEF Refusal
          <6>3. kind[s] = "autocommit" /\ snapshot[conn[s]] = Unread
            BY <6>1, <6>2
          <6> QED
            BY <6>1, <6>2, <6>3 DEF Refusal
        <5> QED
          BY <3>9, <5>1, <5>2, <5>3
      <4>2. State[s] = "open" /\ State'[s] = "refused"
        BY <4>1, OwnView, Ends
      <4>3. Base[s] = Unread /\ Base'[s] = Unread /\ Pending'[s] = {}
        BY <4>1, OwnView
      <4>4. Promise!Refuse(s)
        BY <3>0, <4>1, <4>2, <4>3 DEF Promise!Refuse, Promise!End
      <4> QED
        BY <4>4 DEF Promise!Next
    <3> QED
      BY <2>1, <3>1, <3>2, <3>3, <3>4, <3>5, <3>6, <3>7, <3>8, <3>9 DEF Run
  <2>2. CASE UNCHANGED vars
    <3>1. UNCHANGED <<Base, Pending, State>>
      BY <2>2 DEF vars, sqlite, session, Base, Pending, State, InBlock, WrittenBy
    <3> QED
      BY <2>2, <3>1 DEF vars, sqlite, session, Promise!vars
  <2> QED
    BY <2>1, <2>2 DEF Next
<1> QED
  BY <1>1, <1>2, Inductive, ReadersRead, PTL DEF Spec, KeepsUnits, Promise!Spec

=============================================================================
