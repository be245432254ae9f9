-------------------------- MODULE StatementsProofs --------------------------
(***************************************************************************)
(* Proofs about Statements: type correctness, and the inductive invariant  *)
(* from which its safety properties follow for any number of queries,      *)
(* addresses, rows and nested calls.                                       *)
(***************************************************************************)
EXTENDS Statements, SequenceTheorems, TLAPS

USE StatementsAssumption

-----------------------------------------------------------------------------
(* What a push and a pop do to the stack and to the sets read off it.      *)

LEMMA PushStack ==
  ASSUME NEW f \in Frames, stack \in Seq(Frames), stack' = Append(stack, f)
  PROVE  /\ stack' \in Seq(Frames)
         /\ Len(stack') = Len(stack) + 1
         /\ DOMAIN stack = 1..Len(stack)
         /\ DOMAIN stack' = 1..Len(stack) + 1
         /\ \A i \in 1..Len(stack) : stack'[i] = stack[i]
         /\ stack'[Len(stack) + 1] = f
  OBVIOUS

LEMMA TopFrame ==
  ASSUME stack \in Seq(Frames), stack # <<>>
  PROVE  /\ Len(stack) \in Nat \ {0}
         /\ DOMAIN stack = 1..Len(stack)
         /\ Top \in Frames
<1>1. Len(stack) \in Nat \ {0}
  BY EmptySeq
<1>2. DOMAIN stack = 1..Len(stack)
  BY LenProperties
<1>3. stack[Len(stack)] \in Frames
  BY <1>1, ElementOfSeq
<1> QED
  BY <1>1, <1>2, <1>3 DEF Top

LEMMA ButLast ==
  ASSUME NEW S, NEW s \in Seq(S), NEW n \in Nat, Len(s) = n + 1
  PROVE  /\ SubSeq(s, 1, n) \in Seq(S)
         /\ Len(SubSeq(s, 1, n)) = n
         /\ \A i \in 1..n : SubSeq(s, 1, n)[i] = s[i]
<1>1. \A i \in 1..n : s[i] \in S
  BY ElementOfSeq
<1>2. /\ SubSeq(s, 1, n) \in Seq(S)
      /\ Len(SubSeq(s, 1, n)) = n
      /\ \A i \in 1..n : SubSeq(s, 1, n)[i] = s[i]
  BY <1>1, SubSeqProperties
<1> QED
  BY <1>2

LEMMA PopStack ==
  ASSUME stack \in Seq(Frames), stack # <<>>, stack' = Pop
  PROVE  /\ stack' \in Seq(Frames)
         /\ Len(stack') = Len(stack) - 1
         /\ DOMAIN stack' = 1..Len(stack) - 1
         /\ \A i \in 1..Len(stack) - 1 : stack'[i] = stack[i]
<1> DEFINE n == Len(stack) - 1
<1>1. n \in Nat /\ Len(stack) = n + 1
  BY TopFrame
<1>2. stack' = SubSeq(stack, 1, n)
  BY DEF Pop
<1> HIDE DEF n
<1>3. /\ stack' \in Seq(Frames)
      /\ Len(stack') = n
      /\ \A i \in 1..n : stack'[i] = stack[i]
  BY <1>1, <1>2, ButLast
<1>4. DOMAIN stack' = 1..n
  BY <1>3, LenProperties
<1> QED
  BY <1>3, <1>4 DEF n

-----------------------------------------------------------------------------
(* Type correctness *)

LEMMA ReadyType == Ready \in Machines
<1>1. 0 \in 0..MaxRows
  OBVIOUS
<1> QED
  BY <1>1 DEF Ready, Machines

LEMMA FreeType ==
  ASSUME vm \in [Ptrs -> Machines], NEW P, Free(P)
  PROVE  vm' \in [Ptrs -> Machines]
  BY ReadyType DEF Free

LEMMA SteppedType ==
  ASSUME vm \in [Ptrs -> Machines], NEW p \in Ptrs, NEW o \in Outcomes,
         Stepped(p, o)
  PROVE  vm' \in [Ptrs -> Machines]
<1>1. vm[p] \in Machines
  OBVIOUS
<1>2. NextRow(p) \in Nat \ {0}
  BY <1>1 DEF NextRow, Machines
<1>3. [at |-> o, row |-> IF o = "row" THEN NextRow(p) ELSE 0] \in Machines
  <2>1. (IF o = "row" THEN NextRow(p) ELSE 0) \in 0..MaxRows
    BY <1>2 DEF Stepped
  <2> QED
    BY <2>1 DEF Machines
<1> QED
  BY <1>3 DEF Stepped

LEMMA TypeStep == TypeOK /\ Next => TypeOK'
<1> SUFFICES ASSUME TypeOK, Next PROVE TypeOK'
  OBVIOUS
<1> USE DEF TypeOK, code, ghost
<1>0. Ready \in Machines
  BY ReadyType
<1>1. ASSUME NEW q \in Queries, NEW p \in Ptrs, PrepareQuery(q, p) PROVE TypeOK'
  BY <1>0, <1>1 DEF PrepareQuery, Allocate
<1>2. ASSUME NEW q \in Queries, NEW p \in Ptrs, Query(q, p) PROVE TypeOK'
  <2>1. [call |-> "query", q |-> q, p |-> p] \in Frames
    BY DEF Frames, Calls
  <2>2. stack' \in Seq(Frames)
    BY <1>2, <2>1, PushStack DEF Query, Enter
  <2> QED
    BY <1>0, <1>2, <2>2 DEF Query, Allocate
<1>3. ASSUME NEW q \in Queries, NEW call \in {"iter", "drain"}, Run(q, call)
      PROVE  TypeOK'
  <2>1. stmt[q] \in Ptrs
    BY <1>3 DEF Run, StartQuery, Held
  <2>2. [call |-> call, q |-> q, p |-> stmt[q]] \in Frames
    BY <2>1 DEF Frames, Calls
  <2>3. stack' \in Seq(Frames)
    BY <1>3, <2>2, PushStack DEF Run, Enter
  <2> QED
    BY <1>0, <1>3, <2>1, <2>3 DEF Run, StartQuery
<1>4. ASSUME NEW q \in Queries, StartOnly(q) PROVE TypeOK'
  BY <1>0, <1>4 DEF StartOnly, StartQuery
<1>5. ASSUME NEW q \in Queries, Fetch(q) PROVE TypeOK'
  <2>1. stmt[q] \in Ptrs
    BY <1>5 DEF Fetch, Held
  <2>2. [call |-> "next", q |-> q, p |-> stmt[q]] \in Frames
    BY <2>1 DEF Frames, Calls
  <2>3. stack' \in Seq(Frames)
    BY <1>5, <2>2, PushStack DEF Fetch, Enter
  <2>4. vm[stmt[q]].row \in 0..MaxRows
    BY <2>1 DEF Machines
  <2> QED
    BY <1>5, <2>3, <2>4 DEF Fetch
<1>6. ASSUME NEW q \in Queries, Finalize(q) PROVE TypeOK'
  <2>1. vm' \in [Ptrs -> Machines]
    BY <1>6, FreeType DEF Finalize
  <2> QED
    BY <1>6, <2>1 DEF Finalize, Free
<1>7. ASSUME NEW q \in Queries, UseUnusable(q) PROVE TypeOK'
  BY <1>7 DEF UseUnusable, Misuse, Break
<1>8. ASSUME NEW p \in Ptrs, Exec(p) PROVE TypeOK'
  <2>1. [call |-> "exec", q |-> Null, p |-> p] \in Frames
    BY DEF Frames, Calls
  <2>2. stack' \in Seq(Frames)
    BY <1>8, <2>1, PushStack DEF Exec, Enter
  <2> QED
    BY <1>0, <1>8, <2>2 DEF Exec, Allocate
<1>9. ASSUME NEW p \in Ptrs, CloseForcedBreaks(p) PROVE TypeOK'
  BY <1>9 DEF CloseForcedBreaks, Break
<1>10. CASE Close
  BY <1>10 DEF Close
<1>11. ASSUME NEW F \in SUBSET statements, CloseForced(F) PROVE TypeOK'
  <2>1. vm' \in [Ptrs -> Machines]
    BY <1>11, FreeType DEF CloseForced
  <2> QED
    BY <1>11, <2>1 DEF CloseForced, Free
<1>12. CASE StepReturns
  <2>1. stack # <<>>
    BY <1>12 DEF StepReturns, LoopRow, CallReturns, QueryReturns, ExecReturns
  <2>2. Top.p \in Ptrs /\ Top.q \in Queries \cup {Null}
    BY <2>1, TopFrame DEF Frames
  <2>3. CASE LoopRow
    <3>1. vm' \in [Ptrs -> Machines]
      BY <2>2, <2>3, SteppedType DEF LoopRow, Outcomes
    <3>2. status' \in [Queries -> Outcomes \cup {"unknown"}]
      BY <2>3 DEF LoopRow, Outcomes
    <3> QED
      BY <2>3, <3>1, <3>2 DEF LoopRow
  <2>4. ASSUME NEW o \in Outcomes, CallReturns(o) PROVE TypeOK'
    <3>1. stack' \in Seq(Frames)
      BY <2>1, <2>4, PopStack DEF CallReturns
    <3>2. vm' \in [Ptrs -> Machines]
      BY <2>2, <2>4, SteppedType DEF CallReturns
    <3>3. read' \in [Queries -> 0..MaxRows] /\ invalid' \in [Queries -> BOOLEAN]
      <4>1. 0 \in 0..MaxRows
        OBVIOUS
      <4>2. CASE Top.call = "next"
        BY <2>4, <4>2 DEF CallReturns
      <4>3. CASE Top.call # "next"
        <5>1. /\ read' = [read EXCEPT ![Top.q] = 0]
              /\ invalid' = [invalid EXCEPT ![Top.q] = FALSE]
          BY <2>4, <4>3 DEF CallReturns
        <5> QED
          BY <4>1, <5>1
      <4> QED
        BY <4>2, <4>3
    <3>4. status' \in [Queries -> Outcomes \cup {"unknown"}]
      BY <2>4 DEF CallReturns
    <3>5. UNCHANGED <<open, statements, live, stmt, finalized, fault, forced>>
      BY <2>4 DEF CallReturns
    <3> QED
      BY <3>1, <3>2, <3>3, <3>4, <3>5
  <2>5. CASE QueryReturns
    <3>1. stack' \in Seq(Frames)
      BY <2>1, <2>5, PopStack DEF QueryReturns
    <3>2. vm' \in [Ptrs -> Machines]
      BY <2>5, FreeType DEF QueryReturns
    <3> QED
      BY <2>5, <3>1, <3>2 DEF QueryReturns, Free
  <2>6. CASE ExecReturns
    <3>1. stack' \in Seq(Frames)
      BY <2>1, <2>6, PopStack DEF ExecReturns
    <3>2. vm' \in [Ptrs -> Machines]
      BY <2>6, FreeType DEF ExecReturns
    <3> QED
      BY <2>6, <3>1, <3>2 DEF ExecReturns, Free
  <2> QED
    BY <1>12, <2>3, <2>4, <2>5, <2>6 DEF StepReturns
<1> HIDE DEF TypeOK, code, ghost
<1> QED
  BY <1>1, <1>2, <1>3, <1>4, <1>5, <1>6, <1>7, <1>8, <1>9, <1>10, <1>11,
     <1>12 DEF Next, QueryStep, DbStep

LEMMA TypeStutter == TypeOK /\ UNCHANGED vars => TypeOK'
  BY DEF TypeOK, vars, code, ghost

LEMMA TypeInit == Init => TypeOK
<1> SUFFICES ASSUME Init PROVE TypeOK
  OBVIOUS
<1>1. Ready \in Machines
  BY ReadyType
<1>2. stack \in Seq(Frames)
  BY EmptySeq DEF Init
<1>3. vm \in [Ptrs -> Machines]
  BY <1>1 DEF Init
<1>4. read \in [Queries -> 0..MaxRows]
  <2>1. 0 \in 0..MaxRows
    OBVIOUS
  <2> QED
    BY <2>1 DEF Init
<1> QED
  BY <1>2, <1>3, <1>4 DEF Init, TypeOK

(* Every variable keeps its type, for every set of queries and addresses.  *)
THEOREM TypeCorrect == Spec => []TypeOK
<1>1. Init => TypeOK
  BY TypeInit
<1>2. TypeOK /\ [Next]_vars => TypeOK'
  BY TypeStep, TypeStutter
<1> QED
  BY <1>1, <1>2, PTL DEF Spec

-----------------------------------------------------------------------------
(* The sets read off the stack, after a push and after a pop               *)

LEMMA PushSets ==
  ASSUME NEW f \in Frames, stack \in Seq(Frames), stack' = Append(stack, f)
  PROVE  /\ Stepping' = Stepping \cup {f.p}
         /\ Internal' = IF f.call = "exec" THEN Internal \cup {f.p} ELSE Internal
<1>1. /\ DOMAIN stack = 1..Len(stack)
      /\ DOMAIN stack' = 1..Len(stack) + 1
      /\ \A i \in 1..Len(stack) : stack'[i] = stack[i]
      /\ stack'[Len(stack) + 1] = f
      /\ Len(stack) \in Nat
  BY PushStack, LenProperties
<1>2. \A i : i \in DOMAIN stack' <=> i \in DOMAIN stack \/ i = Len(stack) + 1
  BY <1>1
<1> QED
  BY <1>1, <1>2 DEF Stepping, Internal

LEMMA PopSets ==
  ASSUME stack \in Seq(Frames), stack # <<>>, stack' = Pop, FramesOwn
  PROVE  /\ Stepping' = Stepping \ {Top.p}
         /\ Internal' = IF Top.call = "exec" THEN Internal \ {Top.p} ELSE Internal
         /\ Top.p \in Stepping
         /\ Top.call = "exec" => Top.p \in Internal
<1> DEFINE n == Len(stack)
<1>1. /\ n \in Nat \ {0}
      /\ DOMAIN stack = 1..n
      /\ DOMAIN stack' = 1..n - 1
      /\ \A i \in 1..n - 1 : stack'[i] = stack[i]
      /\ Top = stack[n]
  BY TopFrame, PopStack DEF Top
<1> HIDE DEF n
<1>2. \A i : i \in DOMAIN stack' <=> i \in DOMAIN stack /\ i # n
  BY <1>1
<1>3. \A i \in DOMAIN stack' : stack'[i] = stack[i]
  BY <1>1
<1>4. n \in DOMAIN stack
  BY <1>1
<1>5. \A i \in DOMAIN stack : stack[i].p = Top.p => i = n
  BY <1>1, <1>4 DEF FramesOwn
<1> QED
  BY <1>1, <1>2, <1>3, <1>4, <1>5 DEF Stepping, Internal

LEMMA SameSets ==
  ASSUME UNCHANGED stack
  PROVE  Stepping' = Stepping /\ Internal' = Internal
  BY DEF Stepping, Internal

LEMMA FrameType ==
  ASSUME stack \in Seq(Frames)
  PROVE  \A i \in DOMAIN stack :
           /\ stack[i] \in Frames
           /\ stack[i].p \in Ptrs
           /\ stack[i].q \in Queries \cup {Null}
<1>1. \A i \in DOMAIN stack : stack[i] \in Frames
  BY LenProperties, ElementOfSeq
<1> QED
  BY <1>1 DEF Frames

-----------------------------------------------------------------------------
(* Who owns which statement: one lemma per action                          *)

Structure ==
  FreshQueries /\ FramesOwn /\ Tracked /\ Owned /\ InternalApart /\ ClosedIsIdle

\* A new statement for q, at an address that was free.
NewStatement(q, p) ==
  /\ open /\ p \notin live /\ stmt[q] = Null
  /\ live' = live \cup {p}
  /\ statements' = statements \cup {p}
  /\ stmt' = [stmt EXCEPT ![q] = p]
  /\ UNCHANGED <<open, finalized, status, forced>>

LEMMA NewStatementOwned ==
  ASSUME TypeOK, Structure, NEW q \in Queries, NEW p \in Ptrs, NewStatement(q, p)
  PROVE  Owned' /\ FreshQueries'
<1>1. /\ stmt \in [Queries -> Ptrs \cup {Null}]
      /\ stmt[q] = Null /\ ~finalized[q]
      /\ \A r \in Queries : stmt'[r] = IF r = q THEN p ELSE stmt[r]
      /\ UNCHANGED <<finalized, status, forced>>
      /\ p # Null
  BY DEF NewStatement, TypeOK, Structure, FreshQueries
<1>2. FreshQueries'
  BY <1>1 DEF Structure, FreshQueries
<1>3. SUFFICES ASSUME ~forced PROVE Owned'
  BY <1>1, <1>2 DEF Owned
<1>4. Unfinalized' = Unfinalized \cup {q}
  BY <1>1 DEF Unfinalized
<1>5. \A r \in Unfinalized : r # q /\ stmt'[r] = stmt[r] /\ stmt[r] \in statements
  BY <1>1, <1>3 DEF Unfinalized, Structure, Owned
<1>6. statements \subseteq live /\ p \notin statements
  BY <1>3 DEF Structure, Owned, NewStatement
<1>7. {stmt'[r] : r \in Unfinalized'} = {stmt[r] : r \in Unfinalized} \cup {p}
  BY <1>1, <1>4, <1>5
<1>8. statements' = {stmt'[r] : r \in Unfinalized'}
  BY <1>3, <1>7 DEF Structure, Owned, NewStatement
<1>9. \A r, t \in Unfinalized' : stmt'[r] = stmt'[t] => r = t
  BY <1>1, <1>3, <1>4, <1>5, <1>6 DEF Structure, Owned
<1>10. statements' \subseteq live'
  BY <1>6 DEF NewStatement
<1> QED
  BY <1>8, <1>9, <1>10 DEF Owned

LEMMA StructurePrepare ==
  ASSUME TypeOK, Structure, NEW q \in Queries, NEW p \in Ptrs,
         PrepareQuery(q, p)
  PROVE  Structure'
<1>1. NewStatement(q, p) /\ UNCHANGED stack
  BY DEF PrepareQuery, Allocate, NewStatement, ghost
<1>2. Stepping' = Stepping /\ Internal' = Internal
  BY <1>1, SameSets
<1>3. stmt \in [Queries -> Ptrs \cup {Null}] /\ stack \in Seq(Frames)
  BY DEF TypeOK
<1>4. FramesOwn'
  BY <1>1, <1>3, FrameType DEF FramesOwn, Structure, NewStatement
<1>5. Tracked'
  BY <1>1, <1>2 DEF Structure, Tracked, NewStatement
<1>6. Internal \subseteq live
  BY DEF Structure, FramesOwn, Internal
<1>7. InternalApart'
  BY <1>1, <1>2, <1>6 DEF Structure, InternalApart, NewStatement
<1>8. ClosedIsIdle'
  BY <1>1 DEF Structure, ClosedIsIdle, NewStatement
<1> QED
  BY <1>1, <1>4, <1>5, <1>7, <1>8, NewStatementOwned DEF Structure

\* A call that enters SQLite with a frame of its own.
LEMMA PushFrames ==
  ASSUME TypeOK, FramesOwn, NEW f \in Frames, stack' = Append(stack, f),
         f.p \in live', f.p \notin Stepping, live \subseteq live',
         f.call = "exec" <=> f.q = Null,
         f.call # "exec" => stmt'[f.q] = f.p /\ ~finalized'[f.q],
         UNCHANGED finalized,
         \A r \in Queries : stmt[r] # Null => stmt'[r] = stmt[r]
  PROVE  FramesOwn'
<1> DEFINE n == Len(stack) + 1
<1>1. /\ DOMAIN stack = 1..Len(stack)
      /\ \A i \in 1..Len(stack) : stack'[i] = stack[i]
      /\ stack'[n] = f
      /\ DOMAIN stack' = 1..n
      /\ n = Len(stack) + 1
      /\ Len(stack) \in Nat
  BY PushStack, LenProperties DEF TypeOK
<1> HIDE DEF n
<1>2. \A i \in DOMAIN stack' : i = n \/ (i \in DOMAIN stack /\ i # n /\ stack'[i] = stack[i])
  BY <1>1
<1>3. \A i \in DOMAIN stack :
        /\ stack[i].p \in Ptrs /\ stack[i].q \in Queries \cup {Null}
        /\ stack[i].p # f.p
  BY FrameType DEF TypeOK, Stepping
<1>4. \A i \in DOMAIN stack :
        stack[i].call # "exec" => stmt'[stack[i].q] = stack[i].p
  BY <1>3 DEF FramesOwn
<1> QED
  BY <1>1, <1>2, <1>3, <1>4 DEF FramesOwn

LEMMA StructureQuery ==
  ASSUME TypeOK, Structure, NEW q \in Queries, NEW p \in Ptrs, Query(q, p)
  PROVE  Structure'
<1> DEFINE f == [call |-> "query", q |-> q, p |-> p]
<1>1. NewStatement(q, p) /\ stack' = Append(stack, f)
  BY DEF Query, Allocate, NewStatement, Enter, ghost
<1>2. f \in Frames /\ f.p = p /\ f.q = q /\ f.call = "query"
  BY DEF Frames, Calls
<1> HIDE DEF f
<1>3. Internal' = Internal
  BY <1>1, <1>2, PushSets DEF TypeOK
<1>4. Internal \subseteq live /\ Stepping \subseteq live
  BY DEF Structure, FramesOwn, Internal, Stepping
<1>5. FramesOwn'
  <2>1. /\ f.p \in live' /\ f.p \notin Stepping /\ live \subseteq live'
        /\ f.call # "exec" /\ f.q # Null
    BY <1>1, <1>2, <1>4 DEF NewStatement
  <2>2. /\ stmt'[f.q] = f.p /\ ~finalized'[f.q] /\ UNCHANGED finalized
        /\ \A r \in Queries : stmt[r] # Null => stmt'[r] = stmt[r]
    BY <1>1, <1>2 DEF NewStatement, TypeOK, Structure, FreshQueries
  <2> QED
    BY <1>1, <1>2, <2>1, <2>2, PushFrames DEF Structure
<1>6. Tracked'
  BY <1>1, <1>3 DEF Structure, Tracked, NewStatement
<1>7. InternalApart'
  BY <1>1, <1>3, <1>4 DEF Structure, InternalApart, NewStatement
<1>8. ClosedIsIdle'
  BY <1>1 DEF Structure, ClosedIsIdle, NewStatement
<1> QED
  BY <1>1, <1>5, <1>6, <1>7, <1>8, NewStatementOwned DEF Structure

\* Run and Fetch: a frame on a statement of the query, nothing else moves.
LEMMA StructureReenter ==
  ASSUME TypeOK, Structure, NEW q \in Queries, NEW call \in {"iter", "drain", "next"},
         Held(q), ~finalized[q], Usable(stmt[q]), Enter(call, q, stmt[q]),
         status[q] = "row" \/ call # "next",
         UNCHANGED <<open, statements, live, stmt, finalized, status, forced>>
  PROVE  Structure'
<1> DEFINE f == [call |-> call, q |-> q, p |-> stmt[q]]
<1>0. stmt[q] \in Ptrs /\ stmt[q] \in live /\ stmt[q] \notin Stepping
  BY DEF TypeOK, Held, Usable
<1>1. /\ f \in Frames /\ f.p = stmt[q] /\ f.q = q /\ f.q # Null /\ f.call # "exec"
      /\ stack' = Append(stack, f)
  BY <1>0 DEF Frames, Calls, Enter
<1> HIDE DEF f
<1>2. Internal' = Internal
  BY <1>1, PushSets DEF TypeOK
<1>3. FramesOwn'
  <2>1. /\ f.p \in live' /\ f.p \notin Stepping /\ live \subseteq live'
        /\ stmt'[f.q] = f.p /\ ~finalized'[f.q]
    BY <1>0, <1>1
  <2> QED
    BY <1>1, <2>1, PushFrames DEF Structure
<1>4. FreshQueries' /\ Tracked' /\ InternalApart'
  BY <1>2 DEF Structure, FreshQueries, Tracked, InternalApart
<1>5. Owned'
  BY DEF Structure, Owned, Unfinalized
<1>6. ClosedIsIdle'
  BY <1>0 DEF Structure, ClosedIsIdle
<1> QED
  BY <1>3, <1>4, <1>5, <1>6 DEF Structure

LEMMA StructureExec ==
  ASSUME TypeOK, Structure, NEW p \in Ptrs, Exec(p)
  PROVE  Structure'
<1> DEFINE f == [call |-> "exec", q |-> Null, p |-> p]
<1>1. /\ open /\ p \notin live /\ live' = live \cup {p}
      /\ stack' = Append(stack, f)
      /\ UNCHANGED <<open, statements, stmt, finalized, status, forced>>
  BY DEF Exec, Allocate, Enter, ghost
<1>2. f \in Frames /\ f.p = p /\ f.q = Null /\ f.call = "exec"
  BY DEF Frames, Calls
<1> HIDE DEF f
<1>3. Internal' = Internal \cup {p}
  BY <1>1, <1>2, PushSets DEF TypeOK
<1>4. Stepping \subseteq live
  BY DEF Structure, FramesOwn, Stepping
<1>5. FramesOwn'
  BY <1>1, <1>2, <1>4, PushFrames DEF Structure
<1>6. FreshQueries' /\ Tracked' /\ ClosedIsIdle'
  BY <1>1, <1>3 DEF Structure, FreshQueries, Tracked, ClosedIsIdle
<1>7. InternalApart'
  BY <1>1, <1>3 DEF Structure, InternalApart, Owned
<1>8. Owned'
  BY <1>1 DEF Structure, Owned, Unfinalized
<1> QED
  BY <1>5, <1>6, <1>7, <1>8 DEF Structure

\* Steps that change neither the stack nor who owns what.
LEMMA StructureSame ==
  ASSUME Structure,
         UNCHANGED <<open, statements, live, stmt, finalized, stack, forced>>,
         \A q \in Queries : stmt[q] = Null => status'[q] = status[q]
  PROVE  Structure'
<1>1. Stepping' = Stepping /\ Internal' = Internal
  BY SameSets
<1>2. FreshQueries' /\ Tracked' /\ ClosedIsIdle' /\ InternalApart' /\ FramesOwn'
  BY <1>1 DEF Structure, FreshQueries, Tracked, ClosedIsIdle, InternalApart, FramesOwn
<1>3. Owned'
  BY DEF Structure, Owned, Unfinalized
<1> QED
  BY <1>2, <1>3 DEF Structure

\* The statement of q is given up, by finalize or at the end of db.query.
LEMMA GiveUp ==
  ASSUME TypeOK, Owned, NEW q \in Queries, q \in Unfinalized,
         live' = live \ {stmt[q]}, statements' = statements \ {stmt[q]},
         Unfinalized' = Unfinalized \ {q},
         \A r \in Queries : r # q => stmt'[r] = stmt[r],
         UNCHANGED forced
  PROVE  Owned'
<1> SUFFICES ASSUME ~forced PROVE Owned'
  BY DEF Owned
<1>1. \A r \in Unfinalized' :
        r # q /\ r \in Unfinalized /\ stmt'[r] = stmt[r] /\ stmt[r] # stmt[q]
  BY DEF Owned, Unfinalized
<1>2. statements' = {stmt'[r] : r \in Unfinalized'}
  BY <1>1 DEF Owned
<1>3. statements' \subseteq live'
  BY DEF Owned
<1>4. \A r, t \in Unfinalized' : stmt'[r] = stmt'[t] => r = t
  BY <1>1 DEF Owned
<1> QED
  BY <1>2, <1>3, <1>4 DEF Owned

LEMMA StructureFinalize ==
  ASSUME TypeOK, Structure, NEW q \in Queries, Finalize(q)
  PROVE  Structure'
<1>1. /\ stmt[q] # Null /\ ~finalized[q] /\ stmt[q] \notin Stepping
      /\ live' = live \ {stmt[q]} /\ statements' = statements \ {stmt[q]}
      /\ finalized' = [finalized EXCEPT ![q] = TRUE]
      /\ UNCHANGED <<open, stmt, status, stack, forced>>
  BY DEF Finalize, Free, Held, Usable, ghost
<1>2. finalized \in [Queries -> BOOLEAN] /\ stack \in Seq(Frames)
  BY DEF TypeOK
<1>3. \A r \in Queries : finalized'[r] <=> finalized[r] \/ r = q
  BY <1>1, <1>2
<1>4. Stepping' = Stepping /\ Internal' = Internal
  BY <1>1, SameSets
<1>5. \A i \in DOMAIN stack : stack[i].p # stmt[q] /\ stack[i].q \in Queries \cup {Null}
  BY <1>1, <1>2, FrameType DEF Stepping
<1>6. FramesOwn'
  <2>1. \A i \in DOMAIN stack :
          stack[i].call # "exec" => stack[i].q \in Queries /\ stack[i].q # q
    BY <1>5 DEF Structure, FramesOwn
  <2> QED
    BY <1>1, <1>3, <1>5, <2>1 DEF Structure, FramesOwn
<1>7. Tracked' /\ ClosedIsIdle' /\ InternalApart'
  BY <1>1, <1>4 DEF Structure, Tracked, ClosedIsIdle, InternalApart
<1>8. FreshQueries'
  BY <1>1, <1>3 DEF Structure, FreshQueries
<1>9. Owned'
  <2>1. q \in Unfinalized /\ Unfinalized' = Unfinalized \ {q}
    BY <1>1, <1>3 DEF Unfinalized
  <2> QED
    BY <1>1, <2>1, GiveUp DEF Structure
<1> QED
  BY <1>6, <1>7, <1>8, <1>9 DEF Structure

LEMMA StructureClose ==
  ASSUME TypeOK, Structure, Close
  PROVE  Structure'
<1>1. /\ live = {} /\ open' = FALSE
      /\ UNCHANGED <<statements, live, stmt, finalized, status, stack, forced>>
  BY DEF Close, ghost
<1>2. Stepping' = Stepping /\ Internal' = Internal
  BY <1>1, SameSets
<1>3. stack = <<>>
  <2>1. DOMAIN stack = {}
    BY <1>1 DEF Structure, FramesOwn
  <2> QED
    BY <2>1, TopFrame DEF TypeOK
<1>4. FreshQueries' /\ Tracked' /\ ClosedIsIdle' /\ InternalApart' /\ FramesOwn'
  BY <1>1, <1>2, <1>3
     DEF Structure, FreshQueries, Tracked, ClosedIsIdle, InternalApart, FramesOwn
<1>5. Owned'
  BY <1>1 DEF Structure, Owned, Unfinalized
<1> QED
  BY <1>4, <1>5 DEF Structure

LEMMA StructureCloseForced ==
  ASSUME TypeOK, Structure, NEW F \in SUBSET statements, CloseForced(F)
  PROVE  Structure'
<1>1. /\ F \cap Stepping = {} /\ F \subseteq live
      /\ live' = live \ F
      /\ ~open' => live' = {}
      /\ open /\ open' \in BOOLEAN /\ forced'
      /\ UNCHANGED <<statements, stmt, finalized, status, stack>>
  BY DEF CloseForced, Free, Usable, ghost
<1>2. Stepping' = Stepping /\ Internal' = Internal
  BY <1>1, SameSets
<1>3. Stepping \subseteq live'
  BY <1>1 DEF Structure, FramesOwn, Stepping
<1>4. FramesOwn'
  BY <1>1, <1>3 DEF Structure, FramesOwn, Stepping
<1>5. ClosedIsIdle'
  <2>1. ASSUME ~open' PROVE stack' = <<>>
    <3>1. DOMAIN stack = {}
      BY <1>1, <1>3, <2>1 DEF Stepping
    <3> QED
      BY <1>1, <3>1, TopFrame DEF TypeOK
  <2> QED
    BY <1>1, <2>1 DEF ClosedIsIdle
<1>6. FreshQueries' /\ Tracked'
  BY <1>1, <1>2 DEF Structure, FreshQueries, Tracked
<1>7. Owned' /\ InternalApart'
  BY <1>1 DEF Owned, InternalApart
<1> QED
  BY <1>4, <1>5, <1>6, <1>7 DEF Structure

\* The innermost call leaves SQLite; only its own query may have changed.
LEMMA PopFrames ==
  ASSUME TypeOK, FramesOwn, stack # <<>>, stack' = Pop,
         Stepping \ {Top.p} \subseteq live',
         UNCHANGED finalized,
         \A r \in Queries : r # Top.q => stmt'[r] = stmt[r],
         Top.q = Null \/ stmt[Top.q] = Top.p
  PROVE  FramesOwn'
<1> DEFINE n == Len(stack)
<1>1. /\ n \in Nat \ {0}
      /\ DOMAIN stack = 1..n
      /\ DOMAIN stack' = 1..n - 1
      /\ \A i \in 1..n - 1 : stack'[i] = stack[i]
      /\ Top = stack[n]
  BY TopFrame, PopStack DEF Top, TypeOK
<1> HIDE DEF n
<1>2. \A i \in DOMAIN stack' : i \in DOMAIN stack /\ i # n /\ stack'[i] = stack[i]
  BY <1>1
<1>3. \A i \in DOMAIN stack' : stack[i].p # Top.p /\ stack[i].p \in Stepping
  BY <1>1, <1>2 DEF FramesOwn, Stepping
<1>4. \A i \in DOMAIN stack' : stack[i].call # "exec" =>
        stack[i].q \in Queries /\ stack[i].q # Top.q
  BY <1>2, <1>3, FrameType DEF FramesOwn, TypeOK
<1> QED
  BY <1>2, <1>3, <1>4 DEF FramesOwn

LEMMA TopOwns ==
  ASSUME TypeOK, FramesOwn, stack # <<>>
  PROVE  /\ Top.p \in Ptrs /\ Top.p \in live /\ Top.p \in Stepping
         /\ Top.call = "exec" <=> Top.q = Null
         /\ Top.call # "exec" => /\ Top.q \in Queries /\ Top.q # Null
                                 /\ stmt[Top.q] = Top.p /\ ~finalized[Top.q]
         /\ Stepping \subseteq live
<1>1. Len(stack) \in DOMAIN stack /\ Top \in Frames
  BY TopFrame DEF TypeOK
<1>2. Top.p \in Ptrs /\ Top.q \in Queries \cup {Null}
  BY <1>1 DEF Frames
<1> QED
  BY <1>1, <1>2 DEF FramesOwn, Stepping, Top

LEMMA StructureCallReturns ==
  ASSUME TypeOK, Structure, NEW o \in Outcomes, CallReturns(o)
  PROVE  Structure'
<1>1. /\ stack # <<>> /\ Top.call \in {"iter", "next", "drain"}
      /\ stack' = Pop
      /\ status' = [status EXCEPT ![Top.q] = o]
      /\ UNCHANGED <<open, statements, live, stmt, finalized, forced>>
  BY DEF CallReturns
<1>2. /\ Top.q \in Queries /\ stmt[Top.q] # Null /\ stmt[Top.q] = Top.p
      /\ Stepping \subseteq live
  BY <1>1, TopOwns DEF Structure, TypeOK
<1>3. Internal' = Internal
  BY <1>1, PopSets DEF Structure, TypeOK
<1>4. FramesOwn'
  BY <1>1, <1>2, PopFrames DEF Structure
<1>5. FreshQueries'
  BY <1>1, <1>2 DEF Structure, FreshQueries, TypeOK
<1>6. Tracked' /\ InternalApart'
  BY <1>1, <1>3 DEF Structure, Tracked, InternalApart
<1>7. ClosedIsIdle'
  BY <1>1 DEF Structure, ClosedIsIdle
<1>8. Owned'
  BY <1>1 DEF Structure, Owned, Unfinalized
<1> QED
  BY <1>4, <1>5, <1>6, <1>7, <1>8 DEF Structure

LEMMA StructureQueryReturns ==
  ASSUME TypeOK, Structure, QueryReturns
  PROVE  Structure'
<1>1. /\ stack # <<>> /\ Top.call = "query" /\ stack' = Pop
      /\ live' = live \ {Top.p} /\ statements' = statements \ {Top.p}
      /\ stmt' = [stmt EXCEPT ![Top.q] = Null]
      /\ status' = [status EXCEPT ![Top.q] = "unknown"]
      /\ UNCHANGED <<open, finalized, forced>>
  BY DEF QueryReturns, Free, ghost
<1>2. /\ Top.q \in Queries /\ stmt[Top.q] # Null /\ stmt[Top.q] = Top.p
      /\ ~finalized[Top.q] /\ Stepping \subseteq live /\ Top.p \in live
  BY <1>1, TopOwns DEF Structure, TypeOK
<1>3. \A r \in Queries : stmt'[r] = IF r = Top.q THEN Null ELSE stmt[r]
  BY <1>1 DEF TypeOK
<1>4. Internal' = Internal
  BY <1>1, PopSets DEF Structure, TypeOK
<1>5. FramesOwn'
  <2>1. Stepping \ {Top.p} \subseteq live'
    BY <1>1, <1>2
  <2> QED
    BY <1>1, <1>2, <1>3, <2>1, PopFrames DEF Structure
<1>6. FreshQueries'
  BY <1>1, <1>2, <1>3 DEF Structure, FreshQueries, TypeOK
<1>7. Tracked' /\ InternalApart'
  BY <1>1, <1>4 DEF Structure, Tracked, InternalApart
<1>8. ClosedIsIdle'
  BY <1>1 DEF Structure, ClosedIsIdle
<1>9. Owned'
  <2>1. Top.q \in Unfinalized /\ Unfinalized' = Unfinalized \ {Top.q}
    BY <1>1, <1>2, <1>3 DEF Unfinalized
  <2> QED
    BY <1>1, <1>2, <1>3, <2>1, GiveUp DEF Structure
<1> QED
  BY <1>5, <1>6, <1>7, <1>8, <1>9 DEF Structure

LEMMA StructureExecReturns ==
  ASSUME TypeOK, Structure, ExecReturns
  PROVE  Structure'
<1>1. /\ stack # <<>> /\ Top.call = "exec" /\ stack' = Pop
      /\ live' = live \ {Top.p}
      /\ UNCHANGED <<open, statements, stmt, finalized, status, forced>>
  BY DEF ExecReturns, Free, ghost
<1>2. Top.q = Null /\ Stepping \subseteq live /\ Top.p \in live
  BY <1>1, TopOwns DEF Structure
<1>3. Internal' = Internal \ {Top.p} /\ Top.p \in Internal
  BY <1>1, PopSets DEF Structure, TypeOK
<1>4. FramesOwn'
  BY <1>1, <1>2, PopFrames DEF Structure
<1>5. FreshQueries' /\ Tracked' /\ InternalApart'
  BY <1>1, <1>3 DEF Structure, FreshQueries, Tracked, InternalApart
<1>6. ClosedIsIdle'
  BY <1>1 DEF Structure, ClosedIsIdle
<1>7. Owned'
  BY <1>1, <1>3 DEF Structure, Owned, InternalApart, Unfinalized
<1> QED
  BY <1>4, <1>5, <1>6, <1>7 DEF Structure

LEMMA StructureStep ==
  ASSUME TypeOK, Structure, Next
  PROVE  Structure'
<1>1. ASSUME NEW q \in Queries, NEW call \in {"iter", "drain"}, Run(q, call)
      PROVE  Structure'
  BY <1>1, StructureReenter DEF Run, StartQuery, ghost
<1>2. ASSUME NEW q \in Queries, StartOnly(q) PROVE Structure'
  BY <1>2, StructureSame DEF StartOnly
<1>3. ASSUME NEW q \in Queries, Fetch(q) PROVE Structure'
  BY <1>3, StructureReenter DEF Fetch
<1>4. ASSUME NEW f, Break(f) PROVE Structure'
  BY <1>4, StructureSame DEF Break, code, ghost
<1>5. CASE LoopRow
  <2>1. \A q \in Queries : stmt[q] = Null => status'[q] = status[q]
    BY <1>5, TopOwns DEF LoopRow, Structure, TypeOK
  <2> QED
    BY <1>5, <2>1, StructureSame DEF LoopRow, ghost
<1>6. CASE StepReturns
  BY <1>5, <1>6, StructureCallReturns, StructureQueryReturns,
     StructureExecReturns DEF StepReturns
<1>7. ASSUME NEW q \in Queries, QueryStep(q) PROVE Structure'
  BY <1>1, <1>2, <1>3, <1>4, <1>7, StructurePrepare, StructureQuery,
     StructureFinalize DEF QueryStep, UseUnusable, Misuse
<1>8. CASE DbStep
  BY <1>4, <1>8, StructureExec, StructureClose, StructureCloseForced
     DEF DbStep, CloseForcedBreaks
<1> QED
  BY <1>6, <1>7, <1>8 DEF Next

-----------------------------------------------------------------------------
(* Iterators stay in step                                                  *)

Sync == FramesInSync /\ CursorInSync

\* While close(true) was not called: what the ownership facts say about the
\* other queries and calls when one machine moves.
LEMMA Apart ==
  ASSUME TypeOK, Structure, ~forced
  PROVE  /\ \A q \in Unfinalized : stmt[q] \in Ptrs /\ stmt[q] \in live
                                   /\ stmt[q] \notin Internal
         /\ \A q, r \in Unfinalized : stmt[q] = stmt[r] => q = r
         /\ \A i \in DOMAIN stack :
              /\ stack[i].p \in Ptrs /\ stack[i].p \in live
              /\ stack[i].p \in Stepping
              /\ stack[i].call # "exec" => /\ stack[i].q \in Unfinalized
                                           /\ stmt[stack[i].q] = stack[i].p
<1>1. \A q \in Unfinalized : stmt[q] \in Ptrs /\ stmt[q] \in statements
  <2>1. stmt \in [Queries -> Ptrs \cup {Null}]
    BY DEF TypeOK
  <2>2. statements = {stmt[q] : q \in Unfinalized}
    BY DEF Structure, Owned
  <2> QED
    BY <2>1, <2>2 DEF Unfinalized
<1>2. \A i \in DOMAIN stack :
        stack[i].p \in Ptrs /\ stack[i].q \in Queries \cup {Null}
  BY FrameType DEF TypeOK
<1>3. \A i \in DOMAIN stack :
        stack[i].call # "exec" => stack[i].q \in Queries /\ stack[i].q \in Unfinalized
  <2> SUFFICES ASSUME NEW i \in DOMAIN stack, stack[i].call # "exec"
               PROVE  stack[i].q \in Queries /\ stack[i].q \in Unfinalized
    OBVIOUS
  <2>1. stack[i].q \in Queries /\ ~finalized[stack[i].q] /\ stmt[stack[i].q] = stack[i].p
    BY <1>2 DEF Structure, FramesOwn
  <2>2. stack[i].p # Null
    BY <1>2
  <2> QED
    BY <2>1, <2>2 DEF Unfinalized
<1> QED
  BY <1>1, <1>2, <1>3 DEF Structure, Owned, InternalApart, FramesOwn, Stepping

\* A statement is allocated: only a machine nobody uses changes.
LEMMA SyncAllocate ==
  ASSUME TypeOK, Structure, Sync, ~forced, NEW p \in Ptrs, p \notin live,
         vm' = [vm EXCEPT ![p] = Ready],
         \A q \in Unfinalized' : q \in Unfinalized \/ status'[q] # "row",
         \A q \in Unfinalized : stmt'[q] = stmt[q],
         Stepping \subseteq Stepping',
         Stepping' \subseteq Stepping \cup {p},
         UNCHANGED <<status, read, invalid>>
  PROVE  CursorInSync'
<1>1. \A q \in Unfinalized : stmt[q] # p /\ vm'[stmt[q]] = vm[stmt[q]]
  BY Apart DEF TypeOK
<1> QED
  BY <1>1 DEF Sync, CursorInSync

\* A frame is pushed that promises nothing, or keeps its promise.
LEMMA SyncPush ==
  ASSUME TypeOK, Structure, Sync, ~forced, NEW f \in Frames,
         stack' = Append(stack, f),
         f.call = "iter" => vm'[f.p].at # "row",
         f.call = "next" /\ ~invalid[f.q]
           => vm'[f.p] = [at |-> "row", row |-> read'[f.q]],
         \A i \in DOMAIN stack : vm'[stack[i].p] = vm[stack[i].p],
         \A i \in DOMAIN stack : stack[i].call = "next" =>
            read'[stack[i].q] = read[stack[i].q],
         UNCHANGED invalid
  PROVE  FramesInSync'
<1> DEFINE n == Len(stack) + 1
<1>1. /\ stack'[n] = f
      /\ \A i \in DOMAIN stack' : i = n \/ (i \in DOMAIN stack /\ stack'[i] = stack[i])
  <2>1. /\ DOMAIN stack = 1..Len(stack)
        /\ \A i \in 1..Len(stack) : stack'[i] = stack[i]
        /\ stack'[Len(stack) + 1] = f
        /\ DOMAIN stack' = 1..Len(stack) + 1
        /\ Len(stack) \in Nat
    BY PushStack, LenProperties DEF TypeOK
  <2> QED
    BY <2>1
<1> HIDE DEF n
<1> SUFFICES ASSUME NEW i \in DOMAIN stack'
             PROVE  /\ stack'[i].call = "iter" => vm'[stack'[i].p].at # "row"
                    /\ stack'[i].call = "next" /\ ~invalid'[stack'[i].q]
                         => vm'[stack'[i].p] = [at |-> "row", row |-> read'[stack'[i].q]]
  BY DEF FramesInSync
<1>2. CASE i = n
  BY <1>1, <1>2
<1>3. CASE i \in DOMAIN stack /\ stack'[i] = stack[i]
  BY <1>3 DEF Sync, FramesInSync
<1> QED
  BY <1>1, <1>2, <1>3

LEMMA SyncPrepare ==
  ASSUME TypeOK, Structure, Sync, ~forced, NEW q \in Queries, NEW p \in Ptrs,
         PrepareQuery(q, p)
  PROVE  Sync'
<1>1. /\ p \notin live /\ stmt[q] = Null /\ status[q] = "unknown"
      /\ vm' = [vm EXCEPT ![p] = Ready]
      /\ stmt' = [stmt EXCEPT ![q] = p]
      /\ UNCHANGED <<finalized, status, stack, read, invalid>>
  BY DEF PrepareQuery, Allocate, ghost, Structure, FreshQueries
<1>2. Stepping' = Stepping
  BY <1>1, SameSets
<1>3. /\ \A r \in Unfinalized' : r \in Unfinalized \/ status'[r] # "row"
      /\ \A r \in Unfinalized : stmt'[r] = stmt[r]
  BY <1>1 DEF Unfinalized, TypeOK
<1>4. CursorInSync'
  BY <1>1, <1>2, <1>3, SyncAllocate
<1>5. \A i \in DOMAIN stack : vm'[stack[i].p] = vm[stack[i].p]
  BY <1>1, Apart DEF TypeOK
<1>6. FramesInSync'
  BY <1>1, <1>5 DEF Sync, FramesInSync
<1> QED
  BY <1>4, <1>6 DEF Sync

LEMMA SyncQuery ==
  ASSUME TypeOK, Structure, Sync, ~forced, NEW q \in Queries, NEW p \in Ptrs,
         Query(q, p)
  PROVE  Sync'
<1> DEFINE f == [call |-> "query", q |-> q, p |-> p]
<1>1. /\ p \notin live /\ stmt[q] = Null /\ status[q] = "unknown"
      /\ vm' = [vm EXCEPT ![p] = Ready]
      /\ stmt' = [stmt EXCEPT ![q] = p]
      /\ stack' = Append(stack, f)
      /\ UNCHANGED <<finalized, status, read, invalid>>
  BY DEF Query, Allocate, Enter, ghost, Structure, FreshQueries
<1>2. f \in Frames /\ f.call = "query" /\ f.p = p
  BY DEF Frames, Calls
<1> HIDE DEF f
<1>3. Stepping' = Stepping \cup {p}
  BY <1>1, <1>2, PushSets DEF TypeOK
<1>4. /\ \A r \in Unfinalized' : r \in Unfinalized \/ status'[r] # "row"
      /\ \A r \in Unfinalized : stmt'[r] = stmt[r]
  BY <1>1 DEF Unfinalized, TypeOK
<1>5. CursorInSync'
  BY <1>1, <1>3, <1>4, SyncAllocate
<1>6. \A i \in DOMAIN stack : vm'[stack[i].p] = vm[stack[i].p]
  BY <1>1, Apart DEF TypeOK
<1>7. FramesInSync'
  BY <1>1, <1>2, <1>6, SyncPush
<1> QED
  BY <1>5, <1>7 DEF Sync

LEMMA SyncExec ==
  ASSUME TypeOK, Structure, Sync, ~forced, NEW p \in Ptrs, Exec(p)
  PROVE  Sync'
<1> DEFINE f == [call |-> "exec", q |-> Null, p |-> p]
<1>1. /\ p \notin live
      /\ vm' = [vm EXCEPT ![p] = Ready]
      /\ stack' = Append(stack, f)
      /\ UNCHANGED <<stmt, finalized, status, read, invalid>>
  BY DEF Exec, Allocate, Enter, ghost
<1>2. f \in Frames /\ f.call = "exec" /\ f.p = p
  BY DEF Frames, Calls
<1> HIDE DEF f
<1>3. Stepping' = Stepping \cup {p}
  BY <1>1, <1>2, PushSets DEF TypeOK
<1>4. Unfinalized' = Unfinalized
  BY <1>1 DEF Unfinalized
<1>5. CursorInSync'
  BY <1>1, <1>3, <1>4, SyncAllocate
<1>6. \A i \in DOMAIN stack : vm'[stack[i].p] = vm[stack[i].p]
  BY <1>1, Apart DEF TypeOK
<1>7. FramesInSync'
  BY <1>1, <1>2, <1>6, SyncPush
<1> QED
  BY <1>5, <1>7 DEF Sync

LEMMA SyncRun ==
  ASSUME TypeOK, Structure, Sync, ~forced, NEW q \in Queries,
         NEW call \in {"iter", "drain"}, Run(q, call)
  PROVE  Sync'
<1> DEFINE f == [call |-> call, q |-> q, p |-> stmt[q]]
<1>1. /\ q \in Unfinalized /\ stmt[q] \in Ptrs /\ stmt[q] \notin Stepping
      /\ vm' = [vm EXCEPT ![stmt[q]] = Ready]
      /\ stack' = Append(stack, f)
      /\ UNCHANGED <<stmt, finalized, status, read, invalid>>
  BY DEF Run, StartQuery, Held, Usable, Enter, ghost, Unfinalized, TypeOK
<1>2. f \in Frames /\ f.call = call /\ f.p = stmt[q]
  BY <1>1 DEF Frames, Calls
<1> HIDE DEF f
<1>3. Stepping' = Stepping \cup {stmt[q]} /\ Unfinalized' = Unfinalized
  BY <1>1, <1>2, PushSets DEF TypeOK, Unfinalized
<1>4. CursorInSync'
  <2>1. \A r \in Unfinalized : stmt[r] # stmt[q] => vm'[stmt[r]] = vm[stmt[r]]
    BY <1>1, Apart DEF TypeOK
  <2> QED
    BY <1>1, <1>3, <2>1 DEF Sync, CursorInSync
<1>5. vm'[f.p].at # "row"
  BY <1>1, <1>2 DEF Ready, TypeOK
<1>6. \A i \in DOMAIN stack : vm'[stack[i].p] = vm[stack[i].p]
  BY <1>1, Apart DEF TypeOK
<1>7. FramesInSync'
  BY <1>1, <1>2, <1>5, <1>6, SyncPush
<1> QED
  BY <1>4, <1>7 DEF Sync

LEMMA SyncStartOnly ==
  ASSUME TypeOK, Structure, Sync, ~forced, NEW q \in Queries, StartOnly(q)
  PROVE  Sync'
<1>1. /\ q \in Unfinalized /\ stmt[q] \in Ptrs /\ stmt[q] \notin Stepping
      /\ vm' = [vm EXCEPT ![stmt[q]] = Ready]
      /\ invalid' = [invalid EXCEPT ![q] = TRUE]
      /\ UNCHANGED <<stmt, finalized, status, stack, read>>
  BY DEF StartOnly, StartQuery, Held, Usable, Unfinalized, TypeOK
<1>2. Stepping' = Stepping /\ Unfinalized' = Unfinalized
  BY <1>1, SameSets DEF Unfinalized
<1>3. invalid'[q] /\ \A r \in Queries : r # q => invalid'[r] = invalid[r]
  BY <1>1 DEF TypeOK
<1>4. CursorInSync'
  <2>1. \A r \in Unfinalized : r # q => stmt[r] \in Ptrs /\ stmt[r] # stmt[q]
    BY <1>1, Apart
  <2>2. \A r \in Unfinalized : r # q => vm'[stmt[r]] = vm[stmt[r]]
    BY <1>1, <2>1 DEF TypeOK
  <2>3. \A r \in Unfinalized : r \in Queries
    BY DEF Unfinalized
  <2> QED
    BY <1>1, <1>2, <1>3, <2>2, <2>3 DEF Sync, CursorInSync
<1>5. FramesInSync'
  <2>1. \A i \in DOMAIN stack : vm'[stack[i].p] = vm[stack[i].p]
    BY <1>1, Apart DEF TypeOK
  <2>2. \A i \in DOMAIN stack : stack[i].call = "next" =>
          stack[i].q \in Queries /\ stack[i].q # q
    BY <1>1, Apart DEF Unfinalized
  <2> QED
    BY <1>1, <1>3, <2>1, <2>2 DEF Sync, FramesInSync
<1> QED
  BY <1>4, <1>5 DEF Sync

LEMMA SyncFetch ==
  ASSUME TypeOK, Structure, Sync, ~forced, NEW q \in Queries, Fetch(q)
  PROVE  Sync'
<1> DEFINE f == [call |-> "next", q |-> q, p |-> stmt[q]]
<1>1. /\ q \in Unfinalized /\ stmt[q] \in Ptrs /\ stmt[q] \notin Stepping
      /\ status[q] = "row"
      /\ read' = [read EXCEPT ![q] = vm[stmt[q]].row]
      /\ stack' = Append(stack, f)
      /\ UNCHANGED <<vm, stmt, finalized, status, invalid>>
  BY DEF Fetch, Held, Usable, Enter, Unfinalized, TypeOK
<1>2. f \in Frames /\ f.call = "next" /\ f.p = stmt[q] /\ f.q = q
  BY <1>1 DEF Frames, Calls
<1> HIDE DEF f
<1>3. Stepping' = Stepping \cup {stmt[q]} /\ Unfinalized' = Unfinalized
  BY <1>1, <1>2, PushSets DEF TypeOK, Unfinalized
<1>4. /\ read'[q] = vm[stmt[q]].row
      /\ \A r \in Queries : r # q => read'[r] = read[r]
      /\ q \in Queries
  BY <1>1 DEF TypeOK
<1>5. CursorInSync'
  <2>1. \A r \in Unfinalized : r \in Queries
    BY DEF Unfinalized
  <2> QED
    BY <1>1, <1>3, <1>4, <2>1 DEF Sync, CursorInSync
<1>6. ~invalid[q] => vm[stmt[q]] = [at |-> "row", row |-> read'[q]]
  <2>1. ~invalid[q] => vm[stmt[q]] = [at |-> "row", row |-> read[q] + 1]
    BY <1>1 DEF Sync, CursorInSync
  <2> QED
    BY <1>4, <2>1
<1>7. \A i \in DOMAIN stack : stack[i].call = "next" =>
        read'[stack[i].q] = read[stack[i].q]
  BY <1>1, <1>4, Apart DEF Unfinalized
<1>8. FramesInSync'
  BY <1>1, <1>2, <1>6, <1>7, SyncPush
<1> QED
  BY <1>5, <1>8 DEF Sync

LEMMA SyncFinalize ==
  ASSUME TypeOK, Structure, Sync, ~forced, NEW q \in Queries, Finalize(q)
  PROVE  Sync'
<1>1. /\ q \in Unfinalized /\ stmt[q] \in Ptrs /\ stmt[q] \notin Stepping
      /\ \A p \in Ptrs : p # stmt[q] => vm'[p] = vm[p]
      /\ finalized' = [finalized EXCEPT ![q] = TRUE]
      /\ \A r \in Queries : r # q => read'[r] = read[r] /\ invalid'[r] = invalid[r]
      /\ UNCHANGED <<stmt, status, stack>>
  BY DEF Finalize, Free, Held, Usable, Unfinalized, TypeOK, ghost
<1>2. Stepping' = Stepping
  BY <1>1, SameSets
<1>3. Unfinalized' \subseteq Unfinalized /\ q \notin Unfinalized'
  BY <1>1 DEF Unfinalized, TypeOK
<1>4. CursorInSync'
  <2>1. \A r \in Unfinalized' : stmt[r] \in Ptrs /\ stmt[r] # stmt[q]
    BY <1>1, <1>3, Apart
  <2>2. \A r \in Unfinalized' : vm'[stmt[r]] = vm[stmt[r]]
    BY <1>1, <2>1
  <2>3. \A r \in Unfinalized' : read'[r] = read[r] /\ invalid'[r] = invalid[r]
    BY <1>1, <1>3 DEF Unfinalized
  <2> QED
    BY <1>1, <1>2, <1>3, <2>2, <2>3 DEF Sync, CursorInSync
<1>5. FramesInSync'
  <2>1. \A i \in DOMAIN stack : vm'[stack[i].p] = vm[stack[i].p]
    BY <1>1, Apart
  <2>2. \A i \in DOMAIN stack : stack[i].call = "next" =>
          stack[i].q \in Queries /\ stack[i].q # q
    BY <1>1, Apart DEF Unfinalized
  <2> QED
    BY <1>1, <2>1, <2>2 DEF Sync, FramesInSync
<1> QED
  BY <1>4, <1>5 DEF Sync

\* A step of p, the innermost statement: the frames below do not notice.
LEMMA SyncBelow ==
  ASSUME TypeOK, Structure, Sync, ~forced, stack # <<>>, stack' = Pop,
         \A r \in Ptrs : r # Top.p => vm'[r] = vm[r],
         \A r \in Queries : r # Top.q => read'[r] = read[r] /\ invalid'[r] = invalid[r]
  PROVE  FramesInSync'
<1> DEFINE n == Len(stack)
<1>1. /\ DOMAIN stack = 1..n /\ n \in Nat \ {0}
      /\ DOMAIN stack' = 1..n - 1
      /\ \A i \in 1..n - 1 : stack'[i] = stack[i]
      /\ Top = stack[n]
  BY TopFrame, PopStack DEF Top, TypeOK
<1> HIDE DEF n
<1>2. \A i \in DOMAIN stack' : i \in DOMAIN stack /\ i # n /\ stack'[i] = stack[i]
  BY <1>1
<1>3. n \in DOMAIN stack
  BY <1>1
<1>4. \A i \in DOMAIN stack' : stack[i].p # Top.p /\ stack[i].p \in Ptrs
  BY <1>1, <1>2, <1>3, Apart DEF Structure, FramesOwn
<1>5. \A i \in DOMAIN stack' : stack[i].call = "next" =>
        stack[i].q \in Queries /\ stack[i].q # Top.q
  <2>1. Top.q = Null \/ stmt[Top.q] = Top.p
    BY TopOwns DEF Structure
  <2> QED
    BY <1>2, <1>4, <2>1, Apart DEF Unfinalized
<1>6. \A i \in DOMAIN stack' : vm'[stack[i].p] = vm[stack[i].p]
  BY <1>4
<1>7. \A i \in DOMAIN stack' : stack[i].call = "next" =>
        /\ read'[stack[i].q] = read[stack[i].q]
        /\ invalid'[stack[i].q] = invalid[stack[i].q]
  BY <1>5
<1> SUFFICES ASSUME NEW i \in DOMAIN stack'
             PROVE  /\ stack'[i].call = "iter" => vm'[stack'[i].p].at # "row"
                    /\ stack'[i].call = "next" /\ ~invalid'[stack'[i].q]
                         => vm'[stack'[i].p] = [at |-> "row", row |-> read'[stack'[i].q]]
  BY DEF FramesInSync
<1>8. i \in DOMAIN stack /\ stack'[i] = stack[i]
  BY <1>2
<1>9. vm'[stack[i].p] = vm[stack[i].p]
  BY <1>6
<1>10. /\ stack[i].call = "iter" => vm[stack[i].p].at # "row"
       /\ stack[i].call = "next" /\ ~invalid[stack[i].q]
            => vm[stack[i].p] = [at |-> "row", row |-> read[stack[i].q]]
  BY <1>8 DEF Sync, FramesInSync
<1> QED
  BY <1>7, <1>8, <1>9, <1>10

LEMMA SyncLoopRow ==
  ASSUME TypeOK, Structure, Sync, ~forced, LoopRow
  PROVE  Sync'
<1>1. /\ stack # <<>> /\ Top.call \in Loops
      /\ Stepped(Top.p, "row")
      /\ \A r \in Queries : r # Top.q => status'[r] = status[r]
      /\ Top.call # "exec" \/ status' = status
      /\ UNCHANGED <<stmt, finalized, stack, read, invalid>>
  BY DEF LoopRow, ghost, TypeOK
<1>2. /\ Top.p \in Ptrs /\ Top.p \in Stepping
      /\ Top.call # "exec" => stmt[Top.q] = Top.p
  BY <1>1, TopOwns DEF Structure
<1>3. \A r \in Ptrs : r # Top.p => vm'[r] = vm[r]
  BY <1>1, <1>2 DEF Stepped, TypeOK
<1>4. Stepping' = Stepping /\ Unfinalized' = Unfinalized
  BY <1>1, SameSets DEF Unfinalized
<1>5. CursorInSync'
  <2>1. \A r \in Unfinalized : stmt[r] \notin Stepping =>
          /\ vm'[stmt[r]] = vm[stmt[r]]
          /\ status'[r] = status[r]
    BY <1>1, <1>2, <1>3, Apart DEF Unfinalized
  <2> QED
    BY <1>1, <1>4, <2>1 DEF Sync, CursorInSync
<1>6. FramesInSync'
  <2>1. \A i \in DOMAIN stack : stack[i].call \in {"iter", "next"} =>
          vm'[stack[i].p] = vm[stack[i].p]
    <3>1. Len(stack) \in DOMAIN stack
      BY <1>1, TopFrame DEF TypeOK
    <3>2. \A i \in DOMAIN stack : stack[i].p = Top.p => stack[i].call = Top.call
      BY <3>1 DEF Top, Structure, FramesOwn
    <3> QED
      BY <1>1, <1>3, <3>2, Apart DEF Loops
  <2> QED
    BY <1>1, <2>1 DEF Sync, FramesInSync
<1> QED
  BY <1>5, <1>6 DEF Sync

LEMMA SyncCallReturns ==
  ASSUME TypeOK, Structure, Sync, ~forced, NEW o \in Outcomes, CallReturns(o)
  PROVE  Sync'
<1>1. /\ stack # <<>> /\ Top.call \in {"iter", "next", "drain"}
      /\ Top.call = "drain" => o # "row"
      /\ Stepped(Top.p, o)
      /\ status' = [status EXCEPT ![Top.q] = o]
      /\ stack' = Pop
      /\ UNCHANGED <<stmt, finalized, forced>>
  BY DEF CallReturns
<1>2. /\ Top.p \in Ptrs /\ Top.q \in Queries /\ stmt[Top.q] = Top.p
  BY <1>1, TopOwns DEF Structure
<1>3. /\ Top.call = "next" => UNCHANGED <<read, invalid>>
      /\ Top.call # "next" => /\ read' = [read EXCEPT ![Top.q] = 0]
                              /\ invalid' = [invalid EXCEPT ![Top.q] = FALSE]
  BY DEF CallReturns
<1>4. \A r \in Queries : r # Top.q =>
        read'[r] = read[r] /\ invalid'[r] = invalid[r] /\ status'[r] = status[r]
  BY <1>1, <1>3 DEF TypeOK
<1>5. \A r \in Ptrs : r # Top.p => vm'[r] = vm[r]
  BY <1>1, <1>2 DEF Stepped, TypeOK
<1>6. FramesInSync'
  BY <1>1, <1>4, <1>5, SyncBelow
<1>7. /\ Stepping' = Stepping \ {Top.p}
      /\ Unfinalized' = Unfinalized
  BY <1>1, PopSets DEF Structure, TypeOK, Unfinalized
<1>8. \A r \in Unfinalized : r # Top.q =>
        /\ r \in Queries
        /\ stmt[r] \notin Stepping' => stmt[r] \notin Stepping
        /\ vm'[stmt[r]] = vm[stmt[r]]
  <2>1. Top.q \in Unfinalized
    BY <1>1, <1>2, TopOwns DEF Structure, Unfinalized
  <2> QED
    BY <1>2, <1>5, <1>7, <2>1, Apart DEF Unfinalized
<1>9. ASSUME status'[Top.q] = "row", ~invalid'[Top.q]
      PROVE  vm'[Top.p] = [at |-> "row", row |-> read'[Top.q] + 1]
  <2>1. o = "row" /\ Top.call # "drain"
    BY <1>1, <1>2, <1>9 DEF TypeOK
  <2>2. vm'[Top.p] = [at |-> "row", row |-> NextRow(Top.p)]
    BY <1>1, <1>2, <2>1 DEF Stepped, TypeOK
  <2>3. Len(stack) \in DOMAIN stack
    BY <1>1, TopFrame DEF TypeOK
  <2>4. CASE Top.call = "iter"
    <3>1. vm[Top.p].at # "row"
      BY <2>3, <2>4 DEF Top, Sync, FramesInSync
    <3>2. read'[Top.q] = 0
      BY <1>2, <1>3, <2>4 DEF TypeOK
    <3> QED
      BY <2>2, <3>1, <3>2 DEF NextRow
  <2>5. CASE Top.call = "next"
    <3>1. read' = read /\ ~invalid[Top.q]
      BY <1>3, <1>9, <2>5
    <3>2. vm[Top.p] = [at |-> "row", row |-> read[Top.q]]
      BY <2>3, <2>5, <3>1 DEF Top, Sync, FramesInSync
    <3> QED
      BY <2>2, <3>1, <3>2 DEF NextRow
  <2> QED
    BY <1>1, <2>1, <2>4, <2>5
<1>10. CursorInSync'
  BY <1>1, <1>2, <1>4, <1>7, <1>8, <1>9 DEF Sync, CursorInSync
<1> QED
  BY <1>6, <1>10 DEF Sync

LEMMA SyncQueryReturns ==
  ASSUME TypeOK, Structure, Sync, ~forced, QueryReturns
  PROVE  Sync'
<1>1. /\ stack # <<>> /\ Top.call = "query"
      /\ Free({Top.p})
      /\ stmt' = [stmt EXCEPT ![Top.q] = Null]
      /\ status' = [status EXCEPT ![Top.q] = "unknown"]
      /\ stack' = Pop
      /\ UNCHANGED <<finalized, read, invalid>>
  BY DEF QueryReturns, ghost
<1>2. /\ Top.p \in Ptrs /\ Top.q \in Queries /\ stmt[Top.q] = Top.p
  BY <1>1, TopOwns DEF Structure
<1>3. \A r \in Ptrs : r # Top.p => vm'[r] = vm[r]
  BY <1>1 DEF Free
<1>4. FramesInSync'
  BY <1>1, <1>3, SyncBelow
<1>5. Stepping' = Stepping \ {Top.p}
  BY <1>1, PopSets DEF Structure, TypeOK
<1>6. \A r \in Unfinalized' :
        /\ r \in Unfinalized /\ r # Top.q
        /\ stmt'[r] = stmt[r] /\ status'[r] = status[r]
  BY <1>1 DEF Unfinalized, TypeOK
<1>7. \A r \in Unfinalized' :
        /\ vm'[stmt[r]] = vm[stmt[r]]
        /\ stmt[r] \notin Stepping' => stmt[r] \notin Stepping
  <2>1. Top.q \in Unfinalized
    BY <1>1, <1>2, TopOwns DEF Structure, Unfinalized
  <2> QED
    BY <1>2, <1>3, <1>5, <1>6, <2>1, Apart
<1>8. CursorInSync'
  BY <1>1, <1>6, <1>7 DEF Sync, CursorInSync
<1> QED
  BY <1>4, <1>8 DEF Sync

LEMMA SyncExecReturns ==
  ASSUME TypeOK, Structure, Sync, ~forced, ExecReturns
  PROVE  Sync'
<1>1. /\ stack # <<>> /\ Top.call = "exec"
      /\ Free({Top.p})
      /\ stack' = Pop
      /\ UNCHANGED <<stmt, status, finalized, read, invalid>>
  BY DEF ExecReturns, ghost
<1>2. Top.p \in Ptrs
  BY <1>1, TopOwns DEF Structure
<1>3. \A r \in Ptrs : r # Top.p => vm'[r] = vm[r]
  BY <1>1 DEF Free
<1>4. FramesInSync'
  BY <1>1, <1>3, SyncBelow
<1>5. Stepping' = Stepping \ {Top.p} /\ Top.p \in Internal /\ Unfinalized' = Unfinalized
  BY <1>1, PopSets DEF Structure, TypeOK, Unfinalized
<1>6. \A r \in Unfinalized : stmt[r] # Top.p /\ vm'[stmt[r]] = vm[stmt[r]]
  BY <1>3, <1>5, Apart
<1>7. CursorInSync'
  BY <1>1, <1>5, <1>6 DEF Sync, CursorInSync
<1> QED
  BY <1>4, <1>7 DEF Sync

LEMMA SyncStep ==
  ASSUME TypeOK, Structure, Sync, ~forced, Next, ~forced'
  PROVE  Sync'
<1>1. ASSUME UNCHANGED <<code, ghost>> PROVE Sync'
  <2>1. Stepping' = Stepping /\ Unfinalized' = Unfinalized
    BY <1>1, SameSets DEF code, Unfinalized
  <2>2. UNCHANGED <<vm, stmt, status, stack, read, invalid, forced>>
    BY <1>1 DEF code, ghost
  <2>3. CursorInSync'
    BY <2>1, <2>2 DEF Sync, CursorInSync
  <2>4. FramesInSync'
    BY <2>2 DEF Sync, FramesInSync
  <2> QED
    BY <2>3, <2>4 DEF Sync
<1>2. ASSUME NEW q \in Queries, QueryStep(q) PROVE Sync'
  BY <1>1, <1>2, SyncPrepare, SyncQuery, SyncRun, SyncStartOnly, SyncFetch,
     SyncFinalize DEF QueryStep, UseUnusable, Misuse, Break
<1>3. CASE Close
  <2>1. Stepping' = Stepping /\ Unfinalized' = Unfinalized
    BY <1>3, SameSets DEF Close, Unfinalized
  <2>2. UNCHANGED <<vm, stmt, status, stack, read, invalid, forced>>
    BY <1>3 DEF Close, ghost
  <2>3. CursorInSync'
    BY <2>1, <2>2 DEF Sync, CursorInSync
  <2>4. FramesInSync'
    BY <2>2 DEF Sync, FramesInSync
  <2> QED
    BY <2>3, <2>4 DEF Sync
<1>4. CASE DbStep
  BY <1>1, <1>3, <1>4, SyncExec DEF DbStep, CloseForcedBreaks, Break, CloseForced
<1>5. CASE StepReturns
  BY <1>5, SyncLoopRow, SyncCallReturns, SyncQueryReturns, SyncExecReturns
     DEF StepReturns
<1> QED
  BY <1>2, <1>4, <1>5 DEF Next

-----------------------------------------------------------------------------
(* The theorems                                                            *)

LEMMA NoUseAfterFreeStep ==
  ASSUME TypeOK, Structure, NoUseAfterFree, Next
  PROVE  NoUseAfterFree'
<1>0. fault = "none"
  BY DEF Next
<1> SUFFICES ASSUME ~forced', fault' \in {"freed", "reclosed"} PROVE FALSE
  BY DEF NoUseAfterFree
<1>1. ASSUME NEW q \in Queries, UseUnusable(q) PROVE FALSE
  <2>1. q \in Unfinalized /\ stmt[q] \notin live /\ ~forced
    BY <1>1 DEF UseUnusable, Misuse, Break, Held, Usable, Unfinalized, ghost
  <2> QED
    BY <2>1, Apart
<1>2. ASSUME NEW p \in Ptrs, CloseForcedBreaks(p) PROVE FALSE
  <2>1. p \in statements /\ p \notin live /\ ~forced
    BY <1>2 DEF CloseForcedBreaks, Break, Usable, ghost
  <2> QED
    BY <2>1 DEF Structure, Owned
<1>3. ASSUME NEW q \in Queries, QueryStep(q) PROVE FALSE
  BY <1>0, <1>1, <1>3 DEF QueryStep, PrepareQuery, Query, Run, StartOnly, Fetch, Finalize
<1>4. CASE DbStep
  BY <1>0, <1>2, <1>4 DEF DbStep, Exec, Close, CloseForced
<1>5. CASE StepReturns
  BY <1>0, <1>5 DEF StepReturns, LoopRow, CallReturns, QueryReturns, ExecReturns
<1> QED
  BY <1>3, <1>4, <1>5 DEF Next

LEMMA InductiveInit == Init => Inductive
<1> SUFFICES ASSUME Init PROVE Inductive
  OBVIOUS
<1>1. TypeOK
  BY TypeInit
<1>2. DOMAIN stack = {}
  BY EmptySeq, LenProperties DEF Init
<1>3. Unfinalized = {}
  BY DEF Init, Unfinalized
<1>4. FreshQueries /\ FramesOwn /\ Tracked /\ ClosedIsIdle /\ InternalApart
  BY <1>2 DEF Init, FreshQueries, FramesOwn, Tracked, ClosedIsIdle, InternalApart
<1>5. Owned /\ CursorInSync
  BY <1>3 DEF Init, Owned, CursorInSync
<1>6. FramesInSync /\ NoUseAfterFree
  BY <1>2 DEF Init, FramesInSync, NoUseAfterFree
<1> QED
  BY <1>1, <1>4, <1>5, <1>6 DEF Inductive

LEMMA InductiveStep == Inductive /\ [Next]_vars => Inductive'
<1> SUFFICES ASSUME Inductive, [Next]_vars PROVE Inductive'
  OBVIOUS
<1>1. CASE Next
  <2>1. TypeOK /\ Structure /\ Sync /\ NoUseAfterFree
    BY DEF Inductive, Structure, Sync
  <2>2. TypeOK' /\ Structure' /\ NoUseAfterFree'
    BY <1>1, <2>1, TypeStep, StructureStep, NoUseAfterFreeStep
  <2>3. CASE ~forced /\ ~forced'
    BY <1>1, <2>1, <2>2, <2>3, SyncStep DEF Inductive, Structure, Sync
  <2>4. forced => forced'
    BY <1>1 DEF Next, QueryStep, DbStep, StepReturns, PrepareQuery, Query, Run,
       StartOnly, Fetch, Finalize, UseUnusable, Misuse, Break, Exec, Close,
       CloseForced, CloseForcedBreaks, LoopRow, CallReturns, QueryReturns,
       ExecReturns, ghost
  <2>5. CASE forced'
    <3>1. Sync'
      BY <2>5 DEF Sync, FramesInSync, CursorInSync
    <3> QED
      BY <2>2, <3>1 DEF Inductive, Structure, Sync
  <2> QED
    BY <2>3, <2>4, <2>5
<1>2. CASE UNCHANGED vars
  <2>1. Stepping' = Stepping /\ Internal' = Internal /\ Unfinalized' = Unfinalized
    BY <1>2, SameSets DEF vars, code, Unfinalized
  <2>2. TypeOK'
    BY <1>2, TypeStutter DEF Inductive
  <2>3. UNCHANGED <<open, statements, live, vm, stmt, finalized, status, stack,
                    fault, forced, read, invalid>>
    BY <1>2 DEF vars, code, ghost
  <2>4. FreshQueries' /\ FramesOwn' /\ Tracked' /\ ClosedIsIdle' /\ InternalApart'
    BY <2>1, <2>3 DEF Inductive, FreshQueries, FramesOwn, Tracked, ClosedIsIdle, InternalApart
  <2>5. Owned' /\ CursorInSync'
    BY <2>1, <2>3 DEF Inductive, Owned, CursorInSync
  <2>6. FramesInSync' /\ NoUseAfterFree'
    BY <2>3 DEF Inductive, FramesInSync, NoUseAfterFree
  <2> QED
    BY <2>2, <2>4, <2>5, <2>6 DEF Inductive
<1> QED
  BY <1>1, <1>2

THEOREM InductiveInvariant == Spec => []Inductive
<1>1. Init => Inductive
  BY InductiveInit
<1>2. Inductive /\ [Next]_vars => Inductive'
  BY InductiveStep
<1> QED
  BY <1>1, <1>2, PTL DEF Spec

(* No statement leaks past #statements, in any behaviour (db.ts:369).      *)
THEOREM StatementsTracked == Spec => []Tracked
<1>1. Inductive => Tracked
  BY DEF Inductive
<1> QED
  BY <1>1, InductiveInvariant, PTL

(* Without close(true), every query owns its statement (query.ts:654-660). *)
THEOREM QueriesOwnTheirStatements == Spec => []Owned
<1>1. Inductive => Owned
  BY DEF Inductive
<1> QED
  BY <1>1, InductiveInvariant, PTL

(* Without close(true), no freed statement is ever used.                   *)
THEOREM NeverUsesFreedStatements == Spec => []NoUseAfterFree
<1>1. Inductive => NoUseAfterFree
  BY DEF Inductive
<1> QED
  BY <1>1, InductiveInvariant, PTL

(* A closed database has no statement and no call in progress.             *)
THEOREM CloseOnlyWhenIdle == Spec => []ClosedIsIdle
<1>1. Inductive => ClosedIsIdle
  BY DEF Inductive
<1> QED
  BY <1>1, InductiveInvariant, PTL

(* A valid iterator never skips, repeats or invents a row.                 *)
THEOREM IteratorsInSync == Spec => []CursorInSync
<1>1. Inductive => CursorInSync
  BY DEF Inductive
<1> QED
  BY <1>1, InductiveInvariant, PTL

(* close(true) closes in one call when no statement's last run failed.     *)
THEOREM ForcedCloseSucceeds == Spec => ForcedCloseCloses
<1>1. ASSUME Inductive, Next, ~forced, forced', stack = <<>>,
             FailedRuns(statements) = {}
      PROVE  ~open'
  <2>1. PICK F \in SUBSET statements : CloseForced(F)
    BY <1>1 DEF Next, QueryStep, DbStep, StepReturns, PrepareQuery, Query, Run,
       StartOnly, Fetch, Finalize, UseUnusable, Misuse, Break, Exec, Close,
       CloseForcedBreaks, LoopRow, CallReturns, QueryReturns, ExecReturns, ghost
  <2>2. FailedRuns(F) = {}
    BY <1>1 DEF FailedRuns
  <2>3. F = statements /\ live' = live \ statements
    BY <2>1, <2>2 DEF CloseForced, Free
  <2>4. Internal = {}
    <3>1. DOMAIN stack = {}
      BY <1>1, EmptySeq, LenProperties
    <3> QED
      BY <3>1 DEF Internal
  <2>5. live' = {}
    BY <1>1, <2>3, <2>4 DEF Inductive, Tracked
  <2> QED
    BY <2>1, <2>2, <2>5 DEF CloseForced
<1>2. Inductive /\ [Next]_vars
        => [(~forced /\ forced' /\ stack = <<>> /\ FailedRuns(statements) = {})
              => ~open']_vars
  BY <1>1
<1> QED
  BY <1>2, InductiveInvariant, PTL DEF Spec, ForcedCloseCloses
=============================================================================
