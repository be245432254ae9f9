------------------------- MODULE TransactionsProofs -------------------------
(***************************************************************************)
(* Proofs about Transactions: its invariant, for any contents, any faults  *)
(* and any depth of nesting; that it implements NestedTransactions; and    *)
(* that without faults no call fails.                                      *)
(***************************************************************************)
EXTENDS Transactions, SequenceTheorems, TLAPS

USE TransactionsAssumption

-----------------------------------------------------------------------------
(* The stacks *)

LEMMA Prefix ==
  ASSUME NEW S, NEW s \in Seq(S), NEW n \in 0..Len(s)
  PROVE  /\ SubSeq(s, 1, n) \in Seq(S)
         /\ Len(SubSeq(s, 1, n)) = n
         /\ DOMAIN SubSeq(s, 1, n) = 1..n
         /\ \A i \in 1..n : SubSeq(s, 1, n)[i] = s[i]
<1>1. n \in Nat /\ n <= Len(s) /\ Len(s) \in Nat
  BY LenProperties
<1>2. \A i \in 1..n : s[i] \in S
  BY <1>1, ElementOfSeq
<1>3. /\ SubSeq(s, 1, n) \in Seq(S)
      /\ Len(SubSeq(s, 1, n)) = n
      /\ \A i \in 1..n : SubSeq(s, 1, n)[i] = s[i]
  BY <1>1, <1>2, SubSeqProperties
<1>4. DOMAIN SubSeq(s, 1, n) = 1..n
  BY <1>3, LenProperties
<1> QED
  BY <1>3, <1>4

LEMMA Push ==
  ASSUME NEW S, NEW s \in Seq(S), NEW e \in S
  PROVE  /\ Append(s, e) \in Seq(S)
         /\ Len(Append(s, e)) = Len(s) + 1
         /\ DOMAIN s = 1..Len(s)
         /\ DOMAIN Append(s, e) = 1..Len(s) + 1
         /\ \A i \in 1..Len(s) : Append(s, e)[i] = s[i]
         /\ Append(s, e)[Len(s) + 1] = e
  OBVIOUS

LEMMA Shape ==
  ASSUME NEW S, NEW s \in Seq(S)
  PROVE  /\ Len(s) \in Nat
         /\ DOMAIN s = 1..Len(s)
         /\ \A i \in DOMAIN s : s[i] \in S
         /\ s = <<>> <=> Len(s) = 0
  BY LenProperties, ElementOfSeq, EmptySeq

LEMMA CallPopShape ==
  ASSUME TypeOK, calls # <<>>
  PROVE  /\ CallPop \in Seq(Savepoint)
         /\ Len(CallPop) = Len(calls) - 1
         /\ Len(calls) \in Nat \ {0}
         /\ DOMAIN CallPop = 1..Len(calls) - 1
         /\ \A i \in 1..Len(calls) - 1 : CallPop[i] = calls[i]
<1>1. calls \in Seq(Savepoint) /\ Len(calls) \in Nat \ {0}
  BY Shape DEF TypeOK
<1>2. Len(calls) - 1 \in 0..Len(calls)
  BY <1>1
<1> QED
  BY <1>1, <1>2, Prefix DEF CallPop

-----------------------------------------------------------------------------
(* The invariant.  First the three ways in which a step can change the     *)
(* savepoints: RELEASE succeeds, RELEASE fails, the transaction ends.      *)

LEMMA SavepointShape ==
  ASSUME TypeOK
  PROVE  \A i \in DOMAIN savepoints :
           /\ savepoints[i] \in Savepoint
           /\ savepoints[i].name \in Nat \ {0}
           /\ savepoints[i].snap \in Data
<1>1. savepoints \in Seq(Savepoint)
  BY DEF TypeOK
<1>2. \A i \in DOMAIN savepoints : savepoints[i] \in Savepoint
  BY <1>1, Shape
<1> QED
  BY <1>2 DEF Savepoint

LEMMA FoundShape ==
  ASSUME TypeOK, NEW i, Found(depth, i)
  PROVE  /\ savepoints \in Seq(Savepoint)
         /\ i \in Nat \ {0} /\ i <= Len(savepoints) /\ Len(savepoints) \in Nat
         /\ savepoints[i] \in Savepoint
         /\ savepoints[i].snap \in Data
         /\ depth = savepoints[i].name /\ depth \in Nat \ {0}
<1>1. savepoints \in Seq(Savepoint) /\ i \in DOMAIN savepoints
      /\ savepoints[i].name = depth
  BY DEF TypeOK, Found
<1>2. savepoints[i] \in Savepoint /\ Len(savepoints) \in Nat
      /\ i \in 1..Len(savepoints)
  BY <1>1, Shape
<1>3. savepoints[i].snap \in Data /\ savepoints[i].name \in Nat \ {0}
  BY <1>2 DEF Savepoint
<1> QED
  BY <1>1, <1>2, <1>3

LEMMA Cut ==
  ASSUME TypeOK, NamesFresh, NEW n \in 0..Len(savepoints),
         savepoints' = SubSeq(savepoints, 1, n)
  PROVE  /\ savepoints' \in Seq(Savepoint)
         /\ Len(savepoints') = n
         /\ DOMAIN savepoints = 1..Len(savepoints) /\ Len(savepoints) \in Nat
         /\ DOMAIN savepoints' = 1..n
         /\ \A i \in DOMAIN savepoints' : i \in DOMAIN savepoints /\ savepoints'[i] = savepoints[i]
         /\ \A i, j \in DOMAIN savepoints' :
              i < j => savepoints'[i].name < savepoints'[j].name
         /\ savepoints' = <<>> <=> n = 0
<1>1. savepoints \in Seq(Savepoint)
  BY DEF TypeOK
<1>2. DOMAIN savepoints = 1..Len(savepoints) /\ Len(savepoints) \in Nat
  BY <1>1, Shape
<1>3. /\ savepoints' \in Seq(Savepoint)
      /\ Len(savepoints') = n
      /\ DOMAIN savepoints' = 1..n
      /\ \A i \in 1..n : savepoints'[i] = savepoints[i]
  BY <1>1, Prefix
<1>4. \A i \in DOMAIN savepoints' : i \in DOMAIN savepoints /\ savepoints'[i] = savepoints[i]
  BY <1>2, <1>3
<1>5. savepoints' = <<>> <=> n = 0
  BY <1>3, Shape
<1> QED
  BY <1>2, <1>3, <1>4, <1>5 DEF NamesFresh

LEMMA ReleaseInductive ==
  ASSUME Inductive, threw' \in BOOLEAN, calls # <<>>, NEW i, NEW m \in Data,
         Found(depth, i), Release(i, m), Succeed, UNCHANGED <<open, writer>>
  PROVE  Inductive'
<1> USE DEF Inductive
<1> DEFINE n == i - 1
<1>1. /\ n \in 0..Len(savepoints) /\ i = n + 1 /\ i \in DOMAIN savepoints
      /\ Len(savepoints) \in Nat
      /\ savepoints' = SubSeq(savepoints, 1, n)
      /\ depth = savepoints[i].name /\ depth \in Nat \ {0} /\ savepoints # <<>>
  BY FoundShape DEF Release, Below, Found
<1> HIDE DEF n
<1>2. /\ savepoints' \in Seq(Savepoint)
      /\ DOMAIN savepoints' = 1..n
      /\ \A j \in DOMAIN savepoints' : j \in DOMAIN savepoints /\ savepoints'[j] = savepoints[j]
      /\ \A j, k \in DOMAIN savepoints' : j < k => savepoints'[j].name < savepoints'[k].name
      /\ savepoints' = <<>> <=> n = 0
  BY <1>1, Cut
<1>3. /\ depth' = depth - 1 /\ failed' = FALSE /\ calls' = CallPop
      /\ ~writer /\ mem' = m
      /\ disk' = IF Commits(i) THEN m ELSE disk
      /\ autocommit' = (autocommit \/ Commits(i))
      /\ txnSavepoint' = (txnSavepoint /\ ~Commits(i))
  BY DEF Release, Succeed
<1>4. autocommit = FALSE
  BY <1>1 DEF SavepointsInTransaction, TypeOK
<1>5. TypeOK'
  <2>1. depth' \in 0..MaxDepth
    BY <1>1, <1>3 DEF TypeOK
  <2>2. calls' \in Seq(Savepoint)
    BY <1>3, CallPopShape
  <2>3. mem' \in Data /\ disk' \in Data
    BY <1>3 DEF TypeOK
  <2>4. autocommit' \in BOOLEAN /\ txnSavepoint' \in BOOLEAN /\ failed' \in BOOLEAN
    BY <1>3
  <2> QED
    BY <1>2, <2>1, <2>2, <2>3, <2>4 DEF TypeOK
<1>6. NamesFresh'
  <2>1. \A j \in DOMAIN savepoints' : savepoints[j].name < savepoints[i].name
    BY <1>1, <1>2 DEF NamesFresh
  <2>2. \A j \in DOMAIN savepoints' : savepoints[j].name \in Nat
    BY <1>2, SavepointShape
  <2>3. \A j \in DOMAIN savepoints' : savepoints'[j].name <= depth'
    BY <1>1, <1>2, <1>3, <2>1, <2>2
  <2> QED
    BY <1>2, <2>3 DEF NamesFresh
<1>7. SavepointsInTransaction'
  <2>1. CASE Commits(i)
    <3>1. n = 0
      BY <1>1, <2>1 DEF Commits
    <3> QED
      BY <1>2, <1>3, <2>1, <3>1 DEF SavepointsInTransaction
  <2>2. CASE ~Commits(i)
    <3>1. autocommit' = FALSE
      BY <1>3, <1>4, <2>2
    <3>2. txnSavepoint' => txnSavepoint
      BY <1>3
    <3>3. txnSavepoint => n # 0
      BY <1>1, <2>2 DEF Commits
    <3>4. txnSavepoint' => savepoints' # <<>>
      BY <1>2, <3>2, <3>3
    <3> QED
      BY <3>1, <3>4 DEF SavepointsInTransaction
  <2> QED
    BY <2>1, <2>2
<1>8. OutermostIsCommitted'
  <2>1. SUFFICES ASSUME txnSavepoint' PROVE savepoints'[1].snap = disk'
    BY DEF OutermostIsCommitted
  <2>2. txnSavepoint /\ ~Commits(i)
    BY <1>3, <2>1
  <2>3. n # 0
    BY <1>1, <2>2 DEF Commits
  <2>4. 1 \in DOMAIN savepoints'
    BY <1>1, <1>2, <2>3
  <2> QED
    BY <1>2, <1>3, <2>2, <2>4 DEF OutermostIsCommitted
<1>9. NothingPending'
  BY <1>3, <1>4 DEF NothingPending
<1> QED
  BY <1>5, <1>6, <1>7, <1>8, <1>9

LEMMA ReleaseFailsInductive ==
  ASSUME Inductive, threw' \in BOOLEAN, calls # <<>>, NEW i, NEW m \in Data,
         NEW n \in 1..Len(savepoints),
         Found(depth, i), ReleaseFails(i, m, SubSeq(savepoints, 1, n)), Fail,
         UNCHANGED <<open, writer>>
  PROVE  Inductive'
<1> USE DEF Inductive
<1> DEFINE s == SubSeq(savepoints, 1, n)
<1>1. /\ UNCHANGED <<autocommit, txnSavepoint, disk, depth>>
      /\ calls' = CallPop /\ failed' = TRUE
      /\ \/ mem' = m /\ savepoints' = s
         \/ /\ mem' = disk
            /\ savepoints' = [j \in DOMAIN s |-> [s[j] EXCEPT !.snap = disk]]
  BY DEF ReleaseFails, Fail
<1>2. /\ savepoints \in Seq(Savepoint) /\ Len(savepoints) \in Nat
      /\ DOMAIN savepoints = 1..Len(savepoints)
      /\ n \in 0..Len(savepoints) /\ n \in Nat \ {0}
      /\ savepoints # <<>>
  BY Shape DEF TypeOK
<1>3. /\ s \in Seq(Savepoint) /\ Len(s) = n /\ DOMAIN s = 1..n
      /\ \A j \in 1..n : s[j] = savepoints[j]
  BY <1>2, Prefix
<1> HIDE DEF s
<1>4. \A j \in 1..n : j \in DOMAIN savepoints /\ s[j] \in Savepoint
  BY <1>2, <1>3, Shape
<1>5. /\ savepoints' \in Seq(Savepoint) /\ DOMAIN savepoints' = 1..n
      /\ \A j \in 1..n : /\ savepoints'[j].name = savepoints[j].name
                         /\ \/ savepoints'[j].snap = savepoints[j].snap
                            \/ savepoints'[j].snap = disk
  <2>1. CASE savepoints' = s
    BY <1>3, <2>1
  <2>2. CASE savepoints' = [j \in DOMAIN s |-> [s[j] EXCEPT !.snap = disk]]
    <3>1. \A j \in 1..n : [s[j] EXCEPT !.snap = disk] \in Savepoint
      BY <1>4 DEF TypeOK, Savepoint
    <3>2. savepoints' \in [1..n -> Savepoint]
      BY <1>3, <2>2, <3>1
    <3>3. savepoints' \in Seq(Savepoint)
      BY <1>2, <3>2, SeqDef
    <3>4. \A j \in 1..n : savepoints'[j] = [s[j] EXCEPT !.snap = disk]
      BY <1>3, <2>2
    <3>5. \A j \in 1..n : savepoints'[j].name = s[j].name /\ savepoints'[j].snap = disk
      BY <1>4, <3>4 DEF Savepoint
    <3> QED
      BY <1>3, <3>2, <3>3, <3>5
  <2> QED
    BY <1>1, <2>1, <2>2
<1>6. savepoints' # <<>> /\ 1 \in 1..n /\ autocommit = FALSE
  <2>1. savepoints' # <<>>
    BY <1>2, <1>5
  <2> QED
    BY <1>2, <2>1 DEF SavepointsInTransaction, TypeOK
<1>7. TypeOK'
  <2>1. calls' \in Seq(Savepoint)
    BY <1>1, CallPopShape
  <2>2. mem' \in Data
    BY <1>1 DEF TypeOK
  <2> QED
    BY <1>1, <1>5, <2>1, <2>2 DEF TypeOK
<1>8. NamesFresh'
  BY <1>1, <1>4, <1>5 DEF NamesFresh
<1>9. SavepointsInTransaction' /\ NothingPending'
  BY <1>1, <1>6 DEF SavepointsInTransaction, NothingPending
<1>10. OutermostIsCommitted'
  BY <1>1, <1>5, <1>6 DEF OutermostIsCommitted
<1> QED
  BY <1>7, <1>8, <1>9, <1>10

LEMMA EndInductive ==
  ASSUME Inductive, threw' \in BOOLEAN, EndTransaction, mem' = disk', mem' \in Data,
         UNCHANGED <<depth, calls, writer>>, open' \in BOOLEAN, failed' \in BOOLEAN
  PROVE  Inductive'
<1>1. <<>> \in Seq(Savepoint) /\ DOMAIN <<>> = {}
  OBVIOUS
<1>2. savepoints' = <<>> /\ autocommit' = TRUE /\ txnSavepoint' = FALSE
  BY DEF EndTransaction
<1>3. TypeOK'
  BY <1>1, <1>2 DEF Inductive, TypeOK
<1> QED
  BY <1>1, <1>2, <1>3 DEF Inductive, NamesFresh, SavepointsInTransaction,
     OutermostIsCommitted, NothingPending

\* A step that leaves the savepoints and the transaction alone.
LEMMA KeepInductive ==
  ASSUME Inductive, threw' \in BOOLEAN, UNCHANGED <<savepoints, autocommit, txnSavepoint>>,
         calls' \in Seq(Savepoint), depth' \in 0..MaxDepth, depth' >= depth,
         writer' \in BOOLEAN, open' \in BOOLEAN, failed' \in BOOLEAN,
         mem' \in Data, disk' \in Data, txnSavepoint => disk' = disk,
         autocommit /\ ~writer' => mem' = disk'
  PROVE  Inductive'
<1>1. TypeOK'
  BY DEF Inductive, TypeOK
<1>2. NamesFresh'
  <2>1. \A i \in DOMAIN savepoints : savepoints[i].name \in Nat
    BY SavepointShape DEF Inductive
  <2>2. \A i \in DOMAIN savepoints : savepoints[i].name <= depth'
    BY <2>1 DEF Inductive, NamesFresh, TypeOK
  <2> QED
    BY <2>2 DEF Inductive, NamesFresh
<1> QED
  BY <1>1, <1>2 DEF Inductive, SavepointsInTransaction, OutermostIsCommitted,
     NothingPending

-----------------------------------------------------------------------------
(* Every action keeps the invariant. *)

LEMMA InitInductive == Init => Inductive
<1> SUFFICES ASSUME Init PROVE Inductive
  OBVIOUS
<1>1. <<>> \in Seq(Savepoint) /\ DOMAIN <<>> = {} /\ 0 \in 0..MaxDepth
  OBVIOUS
<1>2. TypeOK
  BY <1>1 DEF Init, TypeOK
<1> QED
  BY <1>1, <1>2 DEF Init, Inductive, NamesFresh, SavepointsInTransaction,
     OutermostIsCommitted, NothingPending

LEMMA BeginInductive ==
  ASSUME Inductive, threw' \in BOOLEAN, Begin
  PROVE  Inductive'
<1> USE DEF Inductive
<1> DEFINE e == [name |-> depth + 1, snap |-> mem]
<1>1. /\ depth < MaxDepth /\ open /\ ~writer /\ depth' = depth + 1
      /\ savepoints' = Append(savepoints, e) /\ calls' = Append(calls, e)
      /\ autocommit' = FALSE /\ txnSavepoint' = (txnSavepoint \/ autocommit)
      /\ failed' = FALSE
      /\ UNCHANGED <<open, writer, mem, disk>>
  BY DEF Begin
<1>2. e \in Savepoint /\ e.name = depth + 1 /\ e.snap = mem /\ depth \in Nat
  BY DEF TypeOK, Savepoint
<1> HIDE DEF e
<1>3. savepoints \in Seq(Savepoint) /\ calls \in Seq(Savepoint)
  BY DEF TypeOK
<1>4. /\ savepoints' \in Seq(Savepoint)
      /\ DOMAIN savepoints = 1..Len(savepoints) /\ Len(savepoints) \in Nat
      /\ DOMAIN savepoints' = 1..Len(savepoints) + 1
      /\ \A i \in 1..Len(savepoints) : savepoints'[i] = savepoints[i]
      /\ savepoints'[Len(savepoints) + 1] = e
      /\ savepoints = <<>> <=> Len(savepoints) = 0
  BY <1>1, <1>2, <1>3, Push, Shape
<1>5. calls' \in Seq(Savepoint)
  BY <1>1, <1>2, <1>3, Push
<1>6. TypeOK'
  <2>1. depth' \in 0..MaxDepth
    BY <1>1 DEF TypeOK
  <2>2. txnSavepoint' \in BOOLEAN
    BY <1>1
  <2> QED
    BY <1>1, <1>4, <1>5, <2>1, <2>2 DEF TypeOK
<1>7. NamesFresh'
  <2>1. \A i \in DOMAIN savepoints :
          savepoints[i].name \in Nat /\ savepoints[i].name <= depth
    BY SavepointShape DEF NamesFresh
  <2>2. \A i \in DOMAIN savepoints' : savepoints'[i].name <= depth'
    BY <1>1, <1>2, <1>4, <2>1
  <2>3. \A i, j \in DOMAIN savepoints' : i < j => savepoints'[i].name < savepoints'[j].name
    BY <1>1, <1>2, <1>4, <2>1 DEF NamesFresh
  <2> QED
    BY <2>2, <2>3 DEF NamesFresh
<1>8. SavepointsInTransaction'
  BY <1>1, <1>4 DEF SavepointsInTransaction
<1>9. OutermostIsCommitted'
  <2>1. SUFFICES ASSUME txnSavepoint' PROVE savepoints'[1].snap = disk
    BY <1>1 DEF OutermostIsCommitted
  <2>2. CASE txnSavepoint
    <3>1. 1 \in 1..Len(savepoints)
      BY <1>4, <2>2 DEF SavepointsInTransaction
    <3> QED
      BY <1>4, <2>2, <3>1 DEF OutermostIsCommitted
  <2>3. CASE autocommit
    <3>1. savepoints'[1] = e
      BY <1>4, <2>3 DEF SavepointsInTransaction
    <3>2. mem = disk
      BY <1>1, <2>3 DEF NothingPending
    <3> QED
      BY <1>2, <3>1, <3>2
  <2> QED
    BY <1>1, <2>1, <2>2, <2>3
<1>10. NothingPending'
  BY <1>1 DEF NothingPending
<1> QED
  BY <1>6, <1>7, <1>8, <1>9, <1>10

LEMMA BeginFailsInductive ==
  ASSUME Inductive, threw' \in BOOLEAN, BeginFails
  PROVE  Inductive'
<1>1. /\ UNCHANGED <<open, calls, savepoints, autocommit, txnSavepoint, writer, mem, disk>>
      /\ depth' \in 0..MaxDepth /\ depth' >= depth /\ failed' = TRUE
  BY DEF BeginFails, Inductive, TypeOK
<1>2. calls' \in Seq(Savepoint) /\ writer' \in BOOLEAN /\ open' \in BOOLEAN
      /\ mem' \in Data /\ disk' \in Data
      /\ (autocommit /\ ~writer' => mem' = disk')
  BY <1>1 DEF Inductive, TypeOK, NothingPending
<1> QED
  BY <1>1, <1>2, KeepInductive

\* The statements of a call that has lost its savepoint change nothing.
LEMMA LostInductive ==
  ASSUME Inductive, threw' \in BOOLEAN, calls # <<>>, Fail,
         UNCHANGED <<savepoints, autocommit, txnSavepoint, mem, disk, open, writer>>
  PROVE  Inductive'
<1>1. depth' = depth /\ depth' >= depth /\ failed' = TRUE
  BY DEF Fail, Inductive, TypeOK
<1>2. calls' \in Seq(Savepoint)
  BY CallPopShape DEF Fail, Inductive
<1>3. /\ depth' \in 0..MaxDepth /\ writer' \in BOOLEAN /\ open' \in BOOLEAN
      /\ mem' \in Data /\ disk' \in Data
      /\ (autocommit /\ ~writer' => mem' = disk')
  BY <1>1 DEF Inductive, TypeOK, NothingPending
<1> QED
  BY <1>1, <1>2, <1>3, KeepInductive

LEMMA ReturnInductive ==
  ASSUME Inductive, threw' \in BOOLEAN, Return
  PROVE  Inductive'
<1>1. calls # <<>> /\ UNCHANGED <<open, writer>> /\ mem \in Data
  BY DEF Return, Inductive, TypeOK
<1>2. ASSUME NEW i \in DOMAIN savepoints, Found(depth, i), Release(i, mem), Succeed
      PROVE  Inductive'
  BY <1>1, <1>2, ReleaseInductive
<1>3. ASSUME NEW i \in DOMAIN savepoints, Found(depth, i),
             ReleaseFails(i, mem, savepoints), Fail
      PROVE  Inductive'
  <2> DEFINE n == Len(savepoints)
  <2>1. n \in 1..n /\ n \in 0..n /\ n \in Nat /\ savepoints \in Seq(Savepoint)
    BY <1>3, FoundShape DEF Inductive
  <2>2. SubSeq(savepoints, 1, n) = savepoints
    BY <2>1, Prefix, Shape, SeqEqual
  <2> QED
    BY <1>1, <1>3, <2>1, <2>2, ReleaseFailsInductive
<1>4. ASSUME NotFound(depth), Fail,
             UNCHANGED <<savepoints, autocommit, txnSavepoint, mem, disk>>
      PROVE  Inductive'
  BY <1>1, <1>4, LostInductive
<1> QED
  BY <1>2, <1>3, <1>4 DEF Return

LEMMA ThrowInductive ==
  ASSUME Inductive, threw' \in BOOLEAN, Throw
  PROVE  Inductive'
<1>1. calls # <<>> /\ UNCHANGED <<open, writer>>
  BY DEF Throw
<1>2. ASSUME NEW i \in DOMAIN savepoints, Found(depth, i),
             Release(i, savepoints[i].snap), Succeed
      PROVE  Inductive'
  <2>1. savepoints[i].snap \in Data
    BY SavepointShape DEF Inductive
  <2> QED
    BY <1>1, <1>2, <2>1, ReleaseInductive
<1>3. ASSUME NEW i \in DOMAIN savepoints, Found(depth, i),
             ReleaseFails(i, savepoints[i].snap, SubSeq(savepoints, 1, i)), Fail
      PROVE  Inductive'
  <2>1. savepoints[i].snap \in Data /\ i \in 1..Len(savepoints)
    BY <1>3, FoundShape DEF Inductive
  <2> QED
    BY <1>1, <1>3, <2>1, ReleaseFailsInductive
<1>4. ASSUME NotFound(depth), Fail,
             UNCHANGED <<savepoints, autocommit, txnSavepoint, mem, disk>>
      PROVE  Inductive'
  BY <1>1, <1>4, LostInductive
<1> QED
  BY <1>2, <1>3, <1>4 DEF Throw

LEMMA WritesInductive ==
  ASSUME Inductive, threw' \in BOOLEAN, NEW v \in Data, Write(v) \/ StartWriter(v) \/ FinishWriter
  PROVE  Inductive'
<1>1. UNCHANGED <<open, depth, calls, savepoints, autocommit, txnSavepoint>>
      /\ failed' = FALSE
  BY DEF Write, StartWriter, FinishWriter
<1>2. /\ calls' \in Seq(Savepoint) /\ depth' \in 0..MaxDepth /\ depth' >= depth
      /\ open' \in BOOLEAN /\ failed' \in BOOLEAN
  <2>1. /\ calls \in Seq(Savepoint) /\ depth \in 0..MaxDepth /\ depth >= depth
        /\ open \in BOOLEAN
    BY DEF Inductive, TypeOK
  <2> QED
    BY <1>1, <2>1
<1>3. txnSavepoint => ~autocommit
  BY DEF Inductive, SavepointsInTransaction
<1>4. /\ writer' \in BOOLEAN /\ mem' \in Data /\ disk' \in Data
      /\ (~autocommit => disk' = disk)
      /\ (autocommit /\ ~writer' => mem' = disk')
  <2>1. CASE Write(v)
    BY <2>1 DEF Write, Inductive, TypeOK
  <2>2. CASE StartWriter(v)
    BY <2>2 DEF StartWriter, Inductive, TypeOK
  <2>3. CASE FinishWriter
    BY <2>3 DEF FinishWriter, Inductive, TypeOK
  <2> QED
    BY <2>1, <2>2, <2>3
<1> QED
  BY <1>1, <1>2, <1>3, <1>4, KeepInductive

LEMMA OwnBeginInductive ==
  ASSUME Inductive, threw' \in BOOLEAN, OwnBegin
  PROVE  Inductive'
<1>1. /\ autocommit /\ autocommit' = FALSE /\ failed' = FALSE
      /\ UNCHANGED <<open, depth, calls, savepoints, txnSavepoint, writer, mem, disk>>
  BY DEF OwnBegin
<1>2. TypeOK'
  BY <1>1 DEF Inductive, TypeOK
<1> QED
  BY <1>1, <1>2 DEF Inductive, NamesFresh, SavepointsInTransaction,
     OutermostIsCommitted, NothingPending

LEMMA EndsInductive ==
  ASSUME Inductive, threw' \in BOOLEAN, OwnCommit \/ OwnRollback \/ Close
  PROVE  Inductive'
<1>1. /\ EndTransaction /\ UNCHANGED <<depth, calls, writer>>
      /\ mem' = disk' /\ mem' \in Data
      /\ open' \in BOOLEAN /\ failed' \in BOOLEAN
  BY DEF OwnCommit, OwnRollback, Close, Inductive, TypeOK
<1> QED
  BY <1>1, EndInductive

LEMMA NextInductive == Inductive /\ Next => Inductive'
<1>1. Next => threw' \in BOOLEAN
  BY DEF Next
<1> QED
  BY <1>1, BeginInductive, BeginFailsInductive, ReturnInductive, ThrowInductive,
     WritesInductive, OwnBeginInductive, EndsInductive, TransactionsAssumption DEF Next

LEMMA StutterInductive == Inductive /\ UNCHANGED vars => Inductive'
<1> SUFFICES ASSUME Inductive, UNCHANGED vars PROVE Inductive'
  OBVIOUS
<1>1. TypeOK'
  BY DEF vars, Inductive, TypeOK
<1> QED
  BY <1>1 DEF vars, Inductive, NamesFresh, SavepointsInTransaction,
     OutermostIsCommitted, NothingPending

(* In every reachable state the savepoints fit the counter, the outermost  *)
(* one restores the committed content, and nothing is pending outside of a *)
(* transaction: the invariant of db.ts:428-440 under every failure.        *)
THEOREM InductiveInvariant == Spec => []Inductive
<1>1. Inductive /\ [Next]_vars => Inductive'
  BY NextInductive, StutterInductive
<1> QED
  BY InitInductive, <1>1, PTL DEF Spec

(* The variables keep their types: in particular #transactionDepth never   *)
(* becomes negative.                                                       *)
THEOREM TypeCorrect == Spec => []TypeOK
  BY InductiveInvariant, PTL DEF Inductive

(* The name of the next savepoint is always free (db.ts:429-430).          *)
THEOREM SavepointNamesFresh == Spec => []NamesFresh
  BY InductiveInvariant, PTL DEF Inductive

(* A rollback of the outermost call restores the committed content.        *)
THEOREM OutermostRestoresCommitted == Spec => []OutermostIsCommitted
  BY InductiveInvariant, PTL DEF Inductive

(* Outside of a transaction, everything is committed.                      *)
THEOREM NothingStaysPending == Spec => []NothingPending
  BY InductiveInvariant, PTL DEF Inductive

-----------------------------------------------------------------------------
(* Calls around a call that ends, and what they opened, are left alone.    *)

LEMMA CallNames ==
  ASSUME TypeOK
  PROVE  \A i \in DOMAIN calls : calls[i].name \in Nat /\ i \in Nat
<1>1. calls \in Seq(Savepoint)
  BY DEF TypeOK
<1>2. \A i \in DOMAIN calls : calls[i] \in Savepoint
  BY <1>1, Shape
<1>3. \A i \in DOMAIN calls : i \in Nat
  BY <1>1, Shape
<1> QED
  BY <1>2, <1>3 DEF Savepoint

LEMMA AheadNumbers ==
  ASSUME NEW d \in Nat, NEW e \in Nat, NEW x \in Nat, NEW k \in Nat, NEW l \in Nat,
         NEW i \in Nat, d - x >= k - i, e - d >= l - k
  PROVE  e - x >= l - i
  OBVIOUS

LEMMA AheadStep ==
  ASSUME TypeOK, TypeOK', DepthAhead, [Next]_vars
  PROVE  DepthAhead'
<1>1. \A i \in DOMAIN calls : calls[i].name \in Nat /\ i \in Nat
  BY CallNames
<1>2. depth \in Nat /\ depth' \in Nat /\ Len(calls) \in Nat /\ Len(calls') \in Nat
  BY Shape DEF TypeOK
<1>3. ASSUME Len(calls') - Len(calls) <= depth' - depth,
             \A i \in DOMAIN calls' : i \in DOMAIN calls /\ calls'[i] = calls[i]
      PROVE  DepthAhead'
  <2> SUFFICES ASSUME NEW i \in DOMAIN calls'
               PROVE  depth' - calls'[i].name >= Len(calls') - i
    BY DEF DepthAhead
  <2>1. i \in DOMAIN calls /\ calls'[i] = calls[i]
    BY <1>3
  <2> DEFINE d == depth
             e == depth'
             k == Len(calls)
             l == Len(calls')
             x == calls[i].name
  <2>2. x \in Nat /\ i \in Nat /\ d - x >= k - i
    BY <1>1, <2>1 DEF DepthAhead
  <2>3. d \in Nat /\ e \in Nat /\ k \in Nat /\ l \in Nat
    BY <1>2
  <2>4. l - k <= e - d
    BY <1>3
  <2> HIDE DEF d, e, k, l, x
  <2>5. e - d >= l - k
    BY <2>3, <2>4
  <2>6. e - x >= l - i
    BY <2>2, <2>3, <2>5, AheadNumbers
  <2> QED
    BY <2>1, <2>6 DEF e, l, x
<1>4. CASE Begin
  <2> DEFINE e == [name |-> depth + 1, snap |-> mem]
             n == Len(calls)
  <2>1. depth' = depth + 1 /\ calls' = Append(calls, e) /\ e.name = depth + 1
    BY <1>4 DEF Begin
  <2>2. e \in Savepoint /\ calls \in Seq(Savepoint)
    BY <1>2 DEF TypeOK, Savepoint
  <2> HIDE DEF e
  <2>3. /\ DOMAIN calls = 1..n /\ DOMAIN calls' = 1..n + 1 /\ Len(calls') = n + 1
        /\ \A i \in 1..n : calls'[i] = calls[i]
        /\ calls'[n + 1] = e
    BY <2>1, <2>2, Push
  <2> HIDE DEF n
  <2> SUFFICES ASSUME NEW i \in 1..n + 1
               PROVE  depth' - calls'[i].name >= Len(calls') - i
    BY <2>3 DEF DepthAhead
  <2>4. CASE i \in 1..n
    <3>1. depth - calls[i].name >= n - i /\ calls[i].name \in Nat
      BY <1>1, <2>3, <2>4 DEF DepthAhead, n
    <3>2. calls'[i].name = calls[i].name
      BY <2>3, <2>4
    <3>3. n \in Nat
      BY <1>2 DEF n
    <3> QED
      BY <1>2, <2>1, <2>3, <3>1, <3>2, <3>3
  <2>5. CASE i = n + 1
    BY <1>2, <2>1, <2>3, <2>5 DEF n
  <2>6. n \in Nat
    BY <1>2 DEF n
  <2> QED
    BY <2>4, <2>5, <2>6
<1>5. CASE Return \/ Throw
  <2>1. calls # <<>> /\ (Fail \/ Succeed)
    BY <1>5 DEF Return, Throw
  <2>2. calls' = CallPop /\ depth' \in {depth, depth - 1}
    BY <2>1 DEF Fail, Succeed
  <2>3. /\ Len(calls') = Len(calls) - 1
        /\ \A i \in DOMAIN calls' : i \in DOMAIN calls /\ calls'[i] = calls[i]
    BY <2>1, <2>2, CallPopShape, Shape DEF TypeOK
  <2>4. Len(calls') - Len(calls) <= depth' - depth
    BY <1>2, <2>2, <2>3
  <2> QED
    BY <1>3, <2>3, <2>4
<1>6. CASE calls' = calls /\ depth' \in {depth, depth + 1}
  <2> DEFINE d == depth
             e == depth'
             k == Len(calls)
  <2>1. d \in Nat /\ e \in {d, d + 1} /\ k \in Nat
    BY <1>2, <1>6
  <2> HIDE DEF d, e, k
  <2>2. k - k <= e - d
    BY <2>1
  <2>3. Len(calls') - Len(calls) <= depth' - depth
    BY <1>6, <2>2 DEF d, e, k
  <2> QED
    BY <1>3, <1>6, <2>3
<1>7. (calls' = calls /\ depth' \in {depth, depth + 1}) \/ Begin \/ Return \/ Throw
  BY DEF Next, vars, BeginFails, Write, StartWriter, FinishWriter, OwnBegin,
         OwnCommit, OwnRollback, Close
<1> QED
  BY <1>4, <1>5, <1>6, <1>7

LEMMA EndKeepsOlder ==
  ASSUME Inductive, DepthAhead, Return \/ Throw, NEW j \in DOMAIN savepoints,
         savepoints[j].name < calls[Len(calls)].name
  PROVE  j \in DOMAIN savepoints' /\ savepoints'[j] = savepoints[j]
<1>1. TypeOK /\ NamesFresh /\ calls # <<>>
  BY DEF Inductive, Return, Throw
<1>2. calls[Len(calls)].name <= depth /\ calls[Len(calls)].name \in Nat /\ depth \in Nat
  <2>1. calls \in Seq(Savepoint)
    BY <1>1 DEF TypeOK
  <2>2. Len(calls) \in DOMAIN calls /\ Len(calls) \in Nat
    BY <1>1, <2>1, Shape
  <2>3. calls[Len(calls)].name \in Nat
    BY <1>1, <2>2, CallNames
  <2>4. depth - calls[Len(calls)].name >= Len(calls) - Len(calls) /\ depth \in Nat
    BY <1>1, <2>2 DEF DepthAhead, TypeOK
  <2> QED
    BY <2>2, <2>3, <2>4
<1>3. /\ DOMAIN savepoints = 1..Len(savepoints) /\ Len(savepoints) \in Nat
      /\ savepoints \in Seq(Savepoint) /\ savepoints[j].name \in Nat
  BY <1>1, SavepointShape, Shape DEF TypeOK
<1>4. savepoints[j].name < depth
  BY <1>2, <1>3
<1>5. ASSUME NEW i \in DOMAIN savepoints, Found(depth, i) PROVE j < i
  <2>1. savepoints[i].name = depth
    BY <1>5 DEF Found
  <2>2. i < j => savepoints[i].name < savepoints[j].name
    BY <1>1 DEF NamesFresh
  <2>3. ~(depth < savepoints[j].name) /\ savepoints[j].name # depth
    BY <1>2, <1>3, <1>4
  <2>4. ~(i < j) /\ i # j
    BY <2>1, <2>2, <2>3
  <2> QED
    BY <1>3, <2>4
<1>6. ASSUME NEW i \in DOMAIN savepoints, Found(depth, i), NEW n \in {i - 1, i},
             savepoints' = SubSeq(savepoints, 1, n)
      PROVE  j \in DOMAIN savepoints' /\ savepoints'[j] = savepoints[j]
  <2>1. n \in 0..Len(savepoints) /\ j \in 1..n
    BY <1>3, <1>5, <1>6
  <2> QED
    BY <1>3, <1>6, <2>1, Prefix
<1>7. ASSUME NEW i \in DOMAIN savepoints, Found(depth, i), NEW m, Release(i, m)
      PROVE  j \in DOMAIN savepoints' /\ savepoints'[j] = savepoints[j]
  BY <1>6, <1>7 DEF Release, Below
<1>8. ASSUME NEW i \in DOMAIN savepoints, Found(depth, i), NEW m, NEW s,
             ReleaseFails(i, m, s), s = savepoints \/ s = SubSeq(savepoints, 1, i)
      PROVE  j \in DOMAIN savepoints' /\ savepoints'[j] = savepoints[j]
  <2>1. ~Commits(i)
    BY <1>3, <1>5, <1>8 DEF Commits
  <2>2. savepoints' = s \/ Commits(i)
    BY <1>8 DEF ReleaseFails
  <2> QED
    BY <1>6, <1>8, <2>1, <2>2
<1> QED
  BY <1>7, <1>8 DEF Return, Throw

(* No end of a call, whatever fails in it, touches a savepoint that is     *)
(* older than the call (db.ts:434-438).                                    *)
THEOREM OlderSavepointsStay == Spec => OlderSavepointsKept
<1>1. Init => DepthAhead
  BY DEF Init, DepthAhead
<1>2. Inductive /\ Inductive' /\ DepthAhead /\ [Next]_vars => DepthAhead'
  BY AheadStep DEF Inductive
<1>3. Inductive /\ DepthAhead /\ [Next]_vars
        => [Len(calls') < Len(calls) =>
              \A j \in DOMAIN savepoints :
                savepoints[j].name < calls[Len(calls)].name
                  => j \in DOMAIN savepoints' /\ savepoints'[j] = savepoints[j]]_vars
  <2> SUFFICES ASSUME Inductive, DepthAhead, Next, Len(calls') < Len(calls),
                      NEW j \in DOMAIN savepoints,
                      savepoints[j].name < calls[Len(calls)].name
               PROVE  j \in DOMAIN savepoints' /\ savepoints'[j] = savepoints[j]
    OBVIOUS
  <2>1. Len(calls) \in Nat
    BY Shape DEF Inductive, TypeOK
  <2>2. CASE Return \/ Throw
    BY <2>2, EndKeepsOlder
  <2>3. CASE Begin
    <3>1. Len(calls') = Len(calls) + 1
      BY <2>3 DEF Begin, Inductive, TypeOK
    <3> QED
      BY <2>1, <3>1
  <2>4. CASE calls' = calls
    BY <2>1, <2>4
  <2>5. calls' = calls \/ Begin \/ Return \/ Throw
    BY DEF Next, BeginFails, Write, StartWriter, FinishWriter, OwnBegin, OwnCommit,
           OwnRollback, Close
  <2> QED
    BY <2>2, <2>3, <2>4, <2>5
<1> QED
  BY <1>1, <1>2, <1>3, InductiveInvariant, PTL DEF Spec, OlderSavepointsKept

-----------------------------------------------------------------------------
(* The refinement: every step of a healthy state is a step of              *)
(* NestedTransactions.                                                     *)

LEMMA SnapsShape ==
  ASSUME TypeOK
  PROVE  /\ Snaps \in Seq(Data)
         /\ Len(Snaps) = Len(savepoints) /\ Len(savepoints) \in Nat
         /\ \A i \in 1..Len(savepoints) : Snaps[i] = savepoints[i].snap
         /\ Snaps = <<>> <=> savepoints = <<>>
<1>1. savepoints \in Seq(Savepoint)
  BY DEF TypeOK
<1>2. DOMAIN savepoints = 1..Len(savepoints) /\ Len(savepoints) \in Nat
  BY <1>1, Shape
<1>3. Snaps \in [1..Len(savepoints) -> Data]
  BY <1>2, SavepointShape DEF Snaps
<1>4. Snaps \in Seq(Data)
  BY <1>2, <1>3, SeqDef
<1>5. Len(Snaps) = Len(savepoints)
  BY <1>2, <1>3, <1>4, LenProperties
<1>6. Snaps = <<>> <=> savepoints = <<>>
  BY <1>1, <1>4, <1>5, Shape
<1> QED
  BY <1>2, <1>4, <1>5, <1>6 DEF Snaps

LEMMA HealthyShape ==
  ASSUME TypeOK, Healthy, calls # <<>>
  PROVE  /\ Len(calls) \in Nat \ {0} /\ Len(savepoints) = Len(calls)
         /\ DOMAIN calls = 1..Len(calls) /\ DOMAIN savepoints = 1..Len(calls)
         /\ Len(calls) \in DOMAIN savepoints
         /\ savepoints[Len(calls)] = calls[Len(calls)]
         /\ savepoints[Len(calls)].name = depth
         /\ savepoints # <<>>
<1>1. calls \in Seq(Savepoint) /\ savepoints \in Seq(Savepoint)
  BY DEF TypeOK
<1>2. /\ Len(calls) \in Nat \ {0} /\ Len(savepoints) = Len(calls)
      /\ DOMAIN calls = 1..Len(calls) /\ DOMAIN savepoints = 1..Len(calls)
      /\ savepoints # <<>>
  BY <1>1, Shape DEF Healthy
<1>3. /\ Len(calls) \in DOMAIN savepoints /\ Len(calls) \in DOMAIN calls
      /\ savepoints[Len(calls)] = calls[Len(calls)]
      /\ depth - calls[Len(calls)].name = Len(calls) - Len(calls)
  BY <1>2 DEF Healthy
<1>4. savepoints[Len(calls)].name \in Nat \ {0} /\ depth \in Nat
  BY <1>3, SavepointShape DEF TypeOK
<1> QED
  BY <1>2, <1>3, <1>4

\* In a healthy state a call finds its own savepoint, the innermost one.
LEMMA HealthyFinds ==
  ASSUME TypeOK, Healthy, calls # <<>>
  PROVE  /\ ~NotFound(depth)
         /\ \A i \in DOMAIN savepoints : Found(depth, i) => i = Len(calls)
         /\ Found(depth, Len(calls))
<1>1. /\ Len(calls) \in Nat \ {0} /\ DOMAIN savepoints = 1..Len(calls)
      /\ Len(calls) \in DOMAIN savepoints
      /\ savepoints[Len(calls)].name = depth
  BY HealthyShape
<1> QED
  BY <1>1 DEF NotFound, Found

\* The step's effect on the abstract state when RELEASE succeeds.
LEMMA ReleaseKeepsHealth ==
  ASSUME TypeOK, Healthy, calls # <<>>, NEW m \in Data,
         Release(Len(calls), m), Succeed
  PROVE  /\ Healthy'
         /\ Snaps' = SubSeq(Snaps, 1, Len(Snaps) - 1)
         /\ Len(Snaps) = Len(calls)
         /\ Snaps # <<>>
<1> DEFINE n == Len(calls) - 1
<1>1. /\ n \in Nat /\ Len(calls) = n + 1 /\ Len(savepoints) = n + 1
      /\ DOMAIN calls = 1..n + 1 /\ DOMAIN savepoints = 1..n + 1
      /\ savepoints # <<>> /\ depth \in Nat
  BY HealthyShape DEF TypeOK
<1>2. /\ calls' = SubSeq(calls, 1, n) /\ depth' = depth - 1
      /\ savepoints' = SubSeq(savepoints, 1, n)
  BY DEF Release, Succeed, CallPop, Below
<1> HIDE DEF n
<1>3. calls \in Seq(Savepoint) /\ savepoints \in Seq(Savepoint)
      /\ n \in 0..Len(savepoints) /\ n \in 0..Len(calls)
  BY <1>1 DEF TypeOK
<1>4. /\ Len(calls') = n /\ DOMAIN calls' = 1..n
      /\ \A i \in 1..n : calls'[i] = calls[i]
  BY <1>2, <1>3, Prefix
<1>5. /\ Len(savepoints') = n /\ DOMAIN savepoints' = 1..n
      /\ \A i \in 1..n : savepoints'[i] = savepoints[i]
  BY <1>2, <1>3, Prefix
<1>6. Healthy'
  <2>1. \A i \in 1..n : /\ savepoints[i] = calls[i]
                        /\ depth - calls[i].name = Len(calls) - i
    BY <1>1 DEF Healthy
  <2>2. \A i \in 1..n : calls[i].name \in Nat
    BY <1>1, <2>1, SavepointShape
  <2>3. \A i \in 1..n : depth' - calls'[i].name = Len(calls') - i
    BY <1>1, <1>2, <1>4, <2>1, <2>2
  <2> QED
    BY <1>4, <1>5, <2>1, <2>3 DEF Healthy
<1>7. /\ Snaps \in Seq(Data) /\ Len(Snaps) = n + 1 /\ Snaps # <<>>
      /\ \A i \in 1..n + 1 : Snaps[i] = savepoints[i].snap
  BY <1>1, SnapsShape
<1>8. n \in 0..Len(Snaps)
  BY <1>1, <1>7
<1>9. /\ DOMAIN SubSeq(Snaps, 1, n) = 1..n
      /\ SubSeq(Snaps, 1, n) \in Seq(Data)
      /\ Len(SubSeq(Snaps, 1, n)) = n
      /\ \A i \in 1..n : SubSeq(Snaps, 1, n)[i] = Snaps[i]
  BY <1>7, <1>8, Prefix
<1>10. Snaps' = [i \in 1..n |-> savepoints[i].snap]
  BY <1>5 DEF Snaps
<1>11. SubSeq(Snaps, 1, n) = [i \in 1..n |-> savepoints[i].snap]
  <2>1. \A i \in 1..n : SubSeq(Snaps, 1, n)[i] = savepoints[i].snap
    BY <1>1, <1>7, <1>9
  <2>2. SubSeq(Snaps, 1, n) \in [1..n -> Data]
    BY <1>9, LenProperties
  <2> QED
    BY <2>1, <2>2
<1>12. Len(Snaps) - 1 = n
  BY <1>1, <1>7
<1> QED
  BY <1>1, <1>6, <1>7, <1>10, <1>11, <1>12

\* When RELEASE fails, or there is nothing to release, a savepoint is left.
LEMMA FailBreaksHealth ==
  ASSUME TypeOK, calls # <<>>, Healthy, Fail, Len(savepoints') = Len(savepoints)
  PROVE  ~Healthy'
<1>1. Len(calls') = Len(calls) - 1 /\ Len(calls) \in Nat
  BY CallPopShape DEF Fail
<1>2. Len(savepoints) = Len(calls)
  BY DEF Healthy
<1> QED
  BY <1>1, <1>2 DEF Healthy

LEMMA ReleaseFailsLength ==
  ASSUME TypeOK, NEW i, NEW m, NEW s \in Seq(Savepoint), ReleaseFails(i, m, s)
  PROVE  Len(savepoints') = Len(s)
<1>1. CASE savepoints' = s
  BY <1>1
<1>2. CASE savepoints' = [j \in DOMAIN s |-> [s[j] EXCEPT !.snap = disk]]
  <2>1. Len(s) \in Nat /\ DOMAIN s = 1..Len(s) /\ \A j \in DOMAIN s : s[j] \in Savepoint
    BY Shape
  <2>2. \A j \in DOMAIN s : [s[j] EXCEPT !.snap = disk] \in Savepoint
    BY <2>1 DEF TypeOK, Savepoint
  <2>3. savepoints' \in [1..Len(s) -> Savepoint]
    BY <1>2, <2>1, <2>2
  <2>4. savepoints' \in Seq(Savepoint)
    BY <2>1, <2>3, SeqDef
  <2> QED
    BY <2>1, <2>3, <2>4, LenProperties
<1> QED
  BY <1>1, <1>2 DEF ReleaseFails

LEMMA BeginRefines ==
  ASSUME Inductive, Healthy, threw' = FALSE, Begin
  PROVE  Nested!Next
<1> DEFINE e == [name |-> depth + 1, snap |-> mem]
           n == Len(savepoints)
<1>1. /\ savepoints' = Append(savepoints, e) /\ calls' = Append(calls, e)
      /\ depth' = depth + 1 /\ depth \in Nat
      /\ autocommit' = FALSE /\ txnSavepoint' = (txnSavepoint \/ autocommit)
      /\ failed' = FALSE
      /\ UNCHANGED <<mem, disk>>
  BY DEF Begin, Inductive, TypeOK
<1>2. e \in Savepoint /\ e.name = depth + 1 /\ e.snap = mem /\ mem \in Data
  BY DEF Inductive, TypeOK, Savepoint
<1>3. savepoints \in Seq(Savepoint) /\ calls \in Seq(Savepoint) /\ TypeOK
  BY DEF Inductive, TypeOK
<1>4. n \in Nat /\ Len(calls) = n
  BY <1>3, Shape DEF Healthy
<1> HIDE DEF e, n
<1>5. /\ Len(savepoints') = n + 1 /\ DOMAIN savepoints' = 1..n + 1
      /\ DOMAIN savepoints = 1..n
      /\ \A i \in 1..n : savepoints'[i] = savepoints[i]
      /\ savepoints'[n + 1] = e
  BY <1>1, <1>2, <1>3, Push DEF n
<1>6. /\ Len(calls') = n + 1 /\ DOMAIN calls' = 1..n + 1 /\ DOMAIN calls = 1..n
      /\ \A i \in 1..n : calls'[i] = calls[i]
      /\ calls'[n + 1] = e
  BY <1>1, <1>2, <1>3, <1>4, Push
<1>7. Healthy'
  <2>1. \A i \in 1..n : /\ savepoints[i] = calls[i]
                        /\ depth - calls[i].name = n - i
                        /\ calls[i].name \in Nat
    BY <1>3, <1>4, <1>5, <1>6, SavepointShape DEF Healthy
  <2>2. ASSUME NEW i \in 1..n + 1
        PROVE  depth' - calls'[i].name = Len(calls') - i
    <3>1. CASE i = n + 1
      BY <3>1, <1>1, <1>2, <1>4, <1>6
    <3>2. CASE i # n + 1
      <4>1. i \in 1..n
        BY <3>2, <1>4
      <4>2. calls'[i] = calls[i] /\ depth - calls[i].name = n - i
            /\ calls[i].name \in Nat
        BY <4>1, <1>6, <2>1
      <4>3. depth' = depth + 1 /\ depth \in Nat /\ Len(calls') = n + 1
        BY <1>1, <1>6
      <4> QED
        BY <4>1, <4>2, <4>3, <1>4
    <3> QED
      BY <3>1, <3>2
  <2>3. \A i \in 1..n + 1 : savepoints'[i] = calls'[i]
    BY <1>4, <1>5, <1>6, <2>1
  <2> QED
    BY <1>5, <1>6, <2>2, <2>3 DEF Healthy
<1>8. Snaps' = Append(Snaps, mem)
  <2>1. /\ Snaps \in Seq(Data) /\ Len(Snaps) = n
        /\ \A i \in 1..n : Snaps[i] = savepoints[i].snap
    BY <1>3, SnapsShape DEF n
  <2>2. /\ Append(Snaps, mem) \in Seq(Data)
        /\ Len(Append(Snaps, mem)) = n + 1
        /\ \A i \in 1..n : Append(Snaps, mem)[i] = Snaps[i]
        /\ Append(Snaps, mem)[n + 1] = mem
    BY <1>2, <2>1, Push
  <2>3. Append(Snaps, mem) \in [1..n + 1 -> Data]
    BY <1>4, <2>2, LenProperties
  <2>4. Snaps' = [i \in 1..n + 1 |-> savepoints'[i].snap]
    BY <1>5 DEF Snaps
  <2>5. \A i \in 1..n + 1 : Append(Snaps, mem)[i] = savepoints'[i].snap
    BY <1>2, <1>4, <1>5, <2>1, <2>2
  <2> QED
    BY <2>3, <2>4, <2>5
<1>9. OwnTransaction' = OwnTransaction
  BY <1>1 DEF OwnTransaction
<1>10. Nested!Enter
  BY <1>1, <1>8, <1>9 DEF Nested!Enter
<1> QED
  BY <1>1, <1>7, <1>10 DEF Nested!Next

\* A step that leaves the calls and the savepoints alone.
LEMMA SameRefines ==
  ASSUME Inductive, Healthy, UNCHANGED <<calls, savepoints, depth>>
  PROVE  Healthy' /\ Snaps' = Snaps
  BY DEF Healthy, Snaps

LEMMA EmptyHealth ==
  ASSUME TypeOK, calls = <<>>
  PROVE  /\ Healthy <=> savepoints = <<>>
         /\ savepoints = <<>> => Snaps = <<>>
<1>1. savepoints = <<>> <=> Len(savepoints) = 0
  BY Shape DEF TypeOK
<1> QED
  BY <1>1, SnapsShape DEF Healthy

LEMMA BeginFailsRefines ==
  ASSUME Inductive, Healthy, threw' = FALSE, BeginFails
  PROVE  Nested!Next
<1>1. /\ UNCHANGED <<calls, savepoints, autocommit, txnSavepoint, mem, disk>>
      /\ depth' = depth + 1 /\ failed' = TRUE /\ depth \in Nat
      /\ mem \in Data /\ disk \in Data /\ TypeOK
  BY DEF BeginFails, Inductive, TypeOK
<1>2. CASE calls = <<>>
  <2>1. savepoints = <<>> /\ savepoints' = <<>> /\ calls' = <<>>
    BY <1>1, <1>2, EmptyHealth
  <2>2. Healthy' /\ Snaps' = Snaps
    BY <1>1, <1>2, <2>1 DEF Healthy, Snaps
  <2>3. Nested!Change
    BY <1>1, <2>2 DEF Nested!Change, OwnTransaction
  <2> QED
    BY <1>1, <2>2, <2>3 DEF Nested!Next
<1>3. CASE calls # <<>>
  <2>1. /\ Len(calls) \in Nat \ {0} /\ DOMAIN calls = 1..Len(calls)
        /\ calls[Len(calls)].name = depth
    BY <1>1, <1>3, HealthyShape
  <2>2. ~Healthy'
    BY <1>1, <2>1 DEF Healthy
  <2> QED
    BY <1>1, <2>2 DEF Nested!Next
<1> QED
  BY <1>2, <1>3

\* RELEASE succeeds: by Return with the current content, or by Throw.
LEMMA ReleaseOuter ==
  ASSUME Inductive, Healthy, calls # <<>>, NEW m \in Data,
         Release(Len(calls), m), Succeed
  PROVE  /\ Commits(Len(calls)) <=> Len(Snaps) = 1 /\ ~OwnTransaction
         /\ OwnTransaction' = OwnTransaction
         /\ disk' = IF Commits(Len(calls)) THEN m ELSE disk
<1>1. savepoints # <<>> /\ TypeOK
  BY HealthyShape DEF Inductive
<1>2. autocommit = FALSE
  BY <1>1 DEF Inductive, TypeOK, SavepointsInTransaction
<1>3. Len(Snaps) = Len(calls)
  BY <1>1, ReleaseKeepsHealth
<1>4. /\ autocommit' = (autocommit \/ Commits(Len(calls)))
      /\ txnSavepoint' = (txnSavepoint /\ ~Commits(Len(calls)))
      /\ disk' = IF Commits(Len(calls)) THEN m ELSE disk
  BY DEF Release
<1>5. Commits(Len(calls)) => txnSavepoint
  BY DEF Commits
<1>6. Commits(Len(calls)) <=> Len(Snaps) = 1 /\ ~OwnTransaction
  BY <1>2, <1>3 DEF Commits, OwnTransaction
<1>7. OwnTransaction' = OwnTransaction
  BY <1>2, <1>4, <1>5, <1>1 DEF OwnTransaction, TypeOK
<1> QED
  BY <1>4, <1>6, <1>7

LEMMA FailRefines ==
  ASSUME Inductive, Healthy, calls # <<>>, Fail, Len(savepoints') = Len(savepoints)
  PROVE  Nested!Next
<1>1. ~Healthy' /\ failed' = TRUE
  BY FailBreaksHealth DEF Fail, Inductive
<1> QED
  BY <1>1 DEF Nested!Next

LEMMA ReturnRefines ==
  ASSUME Inductive, Healthy, threw' = FALSE, Return
  PROVE  Nested!Next
<1>1. calls # <<>> /\ TypeOK /\ mem \in Data /\ savepoints \in Seq(Savepoint)
  BY DEF Return, Inductive, TypeOK
<1>2. ~NotFound(depth)
      /\ \A i \in DOMAIN savepoints : Found(depth, i) => i = Len(calls)
  BY <1>1, HealthyFinds
<1>3. CASE Release(Len(calls), mem) /\ Succeed
  <2>1. /\ Healthy' /\ Snaps' = SubSeq(Snaps, 1, Len(Snaps) - 1) /\ Snaps # <<>>
        /\ mem' = mem /\ failed' = FALSE
    BY <1>1, <1>3, ReleaseKeepsHealth DEF Release, Succeed
  <2>2. /\ Commits(Len(calls)) <=> Len(Snaps) = 1 /\ ~OwnTransaction
        /\ OwnTransaction' = OwnTransaction
        /\ disk' = IF Commits(Len(calls)) THEN mem ELSE disk
    BY <1>1, <1>3, ReleaseOuter
  <2>3. Nested!Return
    BY <2>1, <2>2 DEF Nested!Return, Nested!Butlast
  <2> QED
    BY <2>1, <2>3 DEF Nested!Next
<1>4. CASE ReleaseFails(Len(calls), mem, savepoints) /\ Fail
  <2>1. Len(savepoints') = Len(savepoints)
    BY <1>1, <1>4, ReleaseFailsLength
  <2> QED
    BY <1>1, <1>4, <2>1, FailRefines
<1> QED
  BY <1>2, <1>3, <1>4 DEF Return

LEMMA ThrowRefines ==
  ASSUME Inductive, Healthy, threw' = TRUE, Throw
  PROVE  Nested!Next
<1> DEFINE n == Len(calls)
           m == savepoints[n].snap
<1>1. calls # <<>> /\ TypeOK /\ savepoints \in Seq(Savepoint)
  BY DEF Throw, Inductive, TypeOK
<1>2. ~NotFound(depth)
      /\ \A i \in DOMAIN savepoints : Found(depth, i) => i = n
  BY <1>1, HealthyFinds
<1>3. /\ n \in Nat \ {0} /\ Len(savepoints) = n /\ n \in DOMAIN savepoints
      /\ m \in Data
  BY <1>1, HealthyShape, SavepointShape
<1>4. CASE Release(n, m) /\ Succeed
  <2>1. /\ Healthy' /\ Snaps' = SubSeq(Snaps, 1, Len(Snaps) - 1) /\ Snaps # <<>>
        /\ Len(Snaps) = n /\ mem' = m /\ failed' = FALSE
    BY <1>1, <1>3, <1>4, ReleaseKeepsHealth DEF Release, Succeed
  <2>2. /\ OwnTransaction' = OwnTransaction
        /\ disk' = IF Commits(n) THEN m ELSE disk
    BY <1>1, <1>3, <1>4, ReleaseOuter
  <2>3. disk' = disk
    <3>1. CASE Commits(n)
      BY <2>2, <3>1 DEF Commits, Inductive, OutermostIsCommitted
    <3>2. CASE ~Commits(n)
      BY <2>2, <3>2
    <3> QED
      BY <3>1, <3>2
  <2>4. m = Snaps[Len(Snaps)]
    BY <1>1, <1>3, <2>1, SnapsShape
  <2>5. Nested!Throw
    BY <2>1, <2>2, <2>3, <2>4 DEF Nested!Throw, Nested!Butlast
  <2> QED
    BY <2>1, <2>5 DEF Nested!Next
<1>5. CASE ReleaseFails(n, m, SubSeq(savepoints, 1, n)) /\ Fail
  <2>1. /\ SubSeq(savepoints, 1, n) \in Seq(Savepoint)
        /\ Len(SubSeq(savepoints, 1, n)) = n
    BY <1>1, <1>3, Prefix
  <2>2. Len(savepoints') = Len(savepoints)
    BY <1>1, <1>3, <1>5, <2>1, ReleaseFailsLength
  <2> QED
    BY <1>1, <1>5, <2>2, FailRefines
<1>6. \E i \in DOMAIN savepoints :
        /\ Found(depth, i)
        /\ \/ Release(i, savepoints[i].snap) /\ Succeed
           \/ ReleaseFails(i, savepoints[i].snap, SubSeq(savepoints, 1, i)) /\ Fail
  BY <1>2 DEF Throw
<1> QED
  BY <1>2, <1>4, <1>5, <1>6

LEMMA WritesRefine ==
  ASSUME Inductive, Healthy, threw' = FALSE, NEW v \in Data,
         Write(v) \/ StartWriter(v) \/ FinishWriter
  PROVE  Nested!Next
<1>1. UNCHANGED <<depth, calls, savepoints, autocommit, txnSavepoint>>
      /\ failed' = FALSE
  BY DEF Write, StartWriter, FinishWriter
<1>2. Inductive'
  BY WritesInductive
<1>3. mem' \in Data /\ disk' \in Data
  BY <1>2 DEF Inductive, TypeOK
<1>4. ~autocommit => disk' = disk
  BY DEF Write, StartWriter, FinishWriter
<1>5. Snaps # <<>> \/ OwnTransaction => ~autocommit
  <2>1. Snaps # <<>> => savepoints # <<>>
    BY SnapsShape DEF Inductive
  <2> QED
    BY <2>1 DEF OwnTransaction, Inductive, SavepointsInTransaction
<1>6. Healthy' /\ Snaps' = Snaps /\ OwnTransaction' = OwnTransaction
  BY <1>1, SameRefines DEF OwnTransaction
<1>7. Nested!Change
  BY <1>3, <1>4, <1>5, <1>6 DEF Nested!Change
<1> QED
  BY <1>1, <1>6, <1>7 DEF Nested!Next

LEMMA OwnBeginRefines ==
  ASSUME Inductive, Healthy, threw' = FALSE, OwnBegin
  PROVE  Nested!Next
<1>1. /\ autocommit = TRUE /\ autocommit' = FALSE /\ failed' = FALSE
      /\ UNCHANGED <<depth, calls, savepoints, txnSavepoint, mem, disk>>
  BY DEF OwnBegin, Inductive, TypeOK
<1>2. savepoints = <<>> /\ txnSavepoint = FALSE
  BY <1>1 DEF Inductive, TypeOK, SavepointsInTransaction
<1>3. Healthy' /\ Snaps' = Snaps /\ Snaps = <<>>
  BY <1>1, <1>2, SameRefines, SnapsShape DEF Inductive
<1>4. OwnTransaction = FALSE /\ OwnTransaction' = TRUE
  BY <1>1, <1>2 DEF OwnTransaction
<1>5. Nested!Outer
  BY <1>1, <1>3, <1>4 DEF Nested!Outer
<1> QED
  BY <1>1, <1>3, <1>5 DEF Nested!Next

LEMMA EndsRefine ==
  ASSUME Inductive, Healthy, threw' = FALSE, OwnCommit \/ OwnRollback \/ Close
  PROVE  Nested!Next
<1>1. /\ savepoints' = <<>> /\ autocommit' = TRUE /\ txnSavepoint' = FALSE
      /\ UNCHANGED <<depth, calls>>
      /\ failed' = (calls # <<>>)
      /\ TypeOK /\ calls \in Seq(Savepoint)
  BY DEF OwnCommit, OwnRollback, Close, EndTransaction, Inductive, TypeOK
<1>2. CASE calls # <<>>
  <2>1. Len(calls) \in Nat \ {0} /\ Len(<<>>) = 0
    BY <1>1, <1>2, Shape
  <2>2. ~Healthy'
    BY <1>1, <2>1 DEF Healthy
  <2> QED
    BY <1>1, <1>2, <2>2 DEF Nested!Next
<1>3. CASE calls = <<>>
  <2>1. savepoints = <<>> /\ Snaps = <<>>
    BY <1>1, <1>3, EmptyHealth
  <2>2. Healthy' /\ Snaps' = Snaps
    BY <1>1, <2>1, SameRefines
  <2>3. txnSavepoint = FALSE /\ OwnTransaction' = FALSE
    BY <1>1, <2>1 DEF Inductive, TypeOK, SavepointsInTransaction, OwnTransaction
  <2>4. disk' = mem' /\ mem' \in {mem, disk} /\ mem \in Data /\ disk \in Data
    BY DEF OwnCommit, OwnRollback, Close, Inductive, TypeOK
  <2>5. CASE autocommit = FALSE
    <3>1. OwnTransaction = TRUE
      BY <2>3, <2>5 DEF OwnTransaction
    <3>2. Nested!Outer
      BY <2>1, <2>2, <2>3, <2>4, <3>1 DEF Nested!Outer
    <3> QED
      BY <1>1, <1>3, <2>2, <3>2 DEF Nested!Next
  <2>6. CASE autocommit = TRUE
    <3>1. OwnTransaction = FALSE
      BY <2>6 DEF OwnTransaction
    <3>2. Nested!Change
      BY <2>1, <2>2, <2>3, <2>4, <3>1 DEF Nested!Change
    <3> QED
      BY <1>1, <1>3, <2>2, <3>2 DEF Nested!Next
  <2> QED
    BY <1>1, <2>5, <2>6 DEF TypeOK
<1> QED
  BY <1>2, <1>3

LEMMA InitRefines == Init => Nested!Init
<1> SUFFICES ASSUME Init PROVE Nested!Init
  OBVIOUS
<1>1. TypeOK /\ calls = <<>> /\ savepoints = <<>>
  BY InitInductive DEF Init, Inductive
<1>2. Healthy /\ Snaps = <<>>
  BY <1>1, EmptyHealth
<1>3. OwnTransaction = FALSE
  BY DEF Init, OwnTransaction
<1> QED
  BY <1>2, <1>3 DEF Init, Nested!Init

LEMMA StepRefines == Inductive /\ Next => Nested!Next \/ ~Healthy
  BY BeginRefines, BeginFailsRefines, ReturnRefines, ThrowRefines, WritesRefine,
     OwnBeginRefines, EndsRefine, TransactionsAssumption DEF Next

LEMMA StutterRefines == UNCHANGED vars => UNCHANGED Nested!vars
  BY DEF vars, Nested!vars, Snaps, OwnTransaction, Healthy

(* DB.transaction implements the nested transactions of its documentation  *)
(* (db.ts:407-427): a call that returns commits if it is the outermost, a  *)
(* call that throws restores what it found, as long as no statement of its *)
(* own fails under open calls and nobody else ends their transaction; and  *)
(* again as soon as that is mended.                                        *)
THEOREM ImplementsNestedTransactions == Spec => NestedSpec
<1>1. Inductive /\ [Next]_vars => [Nested!Next \/ ~Healthy]_(Nested!vars)
  BY StepRefines, StutterRefines
<1> QED
  BY InitRefines, <1>1, InductiveInvariant, PTL DEF Spec, NestedSpec, Nested!Spec

-----------------------------------------------------------------------------
(* Without faults. *)

LEMMA WriterStep ==
  ASSUME Inductive, WriterNeedsFault, [Next]_vars
  PROVE  WriterNeedsFault'
<1> faults' = faults
  BY DEF Next, vars
<1>1. writer' => writer \/ "writer" \in faults
  <2>1. CASE UNCHANGED vars
    BY <2>1 DEF vars
  <2>2. CASE Next
    <3>1. \A v \in Data : StartWriter(v) => "writer" \in faults
      BY DEF StartWriter
    <3>2. \A v \in Data : Write(v) => writer' = writer
      BY DEF Write
    <3>3. FinishWriter => writer' = FALSE
      BY DEF FinishWriter
    <3>4. Begin \/ BeginFails \/ Return \/ Throw \/ OwnBegin \/ OwnCommit
            \/ OwnRollback \/ Close => writer' = writer
      BY DEF Begin, BeginFails, Return, Throw, OwnBegin, OwnCommit, OwnRollback, Close
    <3> QED
      BY <2>2, <3>1, <3>2, <3>3, <3>4 DEF Next
  <2> QED
    BY <2>1, <2>2
<1> QED
  BY <1>1 DEF WriterNeedsFault

LEMMA EndSucceeds ==
  ASSUME Inductive, Healthy, WriterNeedsFault, faults = {}, Return \/ Throw
  PROVE  failed' = FALSE
<1>1. TypeOK /\ calls # <<>>
  BY DEF Return, Throw, Inductive
<1>2. ~NotFound(depth)
  BY <1>1, HealthyFinds
<1>3. \A i, m, s : ~ReleaseFails(i, m, s)
  BY DEF ReleaseFails, WriterNeedsFault
<1>4. Succeed
  BY <1>2, <1>3 DEF Return, Throw
<1> QED
  BY <1>4 DEF Succeed

LEMMA AloneStep ==
  ASSUME Inductive, WriterNeedsFault, NeverFailsAlone, Next
  PROVE  NeverFailsAlone'
<1> faults' = faults
  BY DEF Next
<1> SUFFICES ASSUME faults = {}, open' PROVE Healthy' /\ ~failed'
  BY DEF NeverFailsAlone
<1>1. ~writer
  BY DEF WriterNeedsFault
<1>2. open
  BY DEF Next, Begin, BeginFails, Return, Throw, Write, StartWriter, FinishWriter,
     OwnBegin, OwnCommit, OwnRollback, Close
<1>3. Healthy
  BY <1>2 DEF NeverFailsAlone
<1>4. ~failed'
  <2>1. ~BeginFails /\ ~OwnBegin /\ ~OwnCommit /\ ~OwnRollback /\ ~Close
    BY <1>1, <1>2 DEF BeginFails, OwnBegin, OwnCommit, OwnRollback, Close
  <2>2. Begin => failed' = FALSE
    BY DEF Begin
  <2>3. Return \/ Throw => failed' = FALSE
    BY <1>3, EndSucceeds
  <2>4. \A v \in Data : Write(v) \/ StartWriter(v) => failed' = FALSE
    BY DEF Write, StartWriter
  <2>5. FinishWriter => failed' = FALSE
    BY DEF FinishWriter
  <2> QED
    BY <2>1, <2>2, <2>3, <2>4, <2>5 DEF Next
<1>5. Nested!Next
  BY <1>3, StepRefines
<1> QED
  BY <1>4, <1>5 DEF Nested!Next

(* As long as no writing statement is left unfinished, no commit fails and *)
(* the application leaves transaction control to transaction(), no call of *)
(* it fails on its own, whatever its closures do.                          *)
THEOREM CallsNeverFailAlone == Spec => []NeverFailsAlone
<1>1. Init => WriterNeedsFault /\ NeverFailsAlone
  <2>1. Init => Healthy
    BY InitRefines DEF Nested!Init
  <2> QED
    BY <2>1 DEF Init, WriterNeedsFault, NeverFailsAlone
<1>2. /\ Inductive
      /\ WriterNeedsFault /\ NeverFailsAlone
      /\ [Next]_vars
      => (WriterNeedsFault /\ NeverFailsAlone)'
  <2>1. NeverFailsAlone /\ UNCHANGED vars => NeverFailsAlone'
    BY DEF NeverFailsAlone, vars, Healthy
  <2> QED
    BY <2>1, WriterStep, AloneStep
<1> QED
  BY <1>1, <1>2, InductiveInvariant, PTL DEF Spec

=============================================================================
