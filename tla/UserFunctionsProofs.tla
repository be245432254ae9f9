------------------------ MODULE UserFunctionsProofs ------------------------
(***************************************************************************)
(* Proofs about UserFunctions: its invariant and that deleted functions    *)
(* never run, for any functions, names, queries and depth of nesting.      *)
(***************************************************************************)
EXTENDS UserFunctions, FiniteSetTheorems, SequenceTheorems, TLAPS

USE FunctionsAssumption

-----------------------------------------------------------------------------
(* Slots, keys and the stack of calls                                      *)

LEMMA SlotsAreNumbers == Slots \subseteq Nat /\ None \notin Slots
<1>1. Cardinality(Names) \in Nat
  BY FS_CardinalityType
<1> QED
  BY <1>1 DEF Slots

LEMMA TextsAreKeys == Texts \subseteq Keys
  BY DEF Texts, Keys, Arities

LEMMA KeyIsKey ==
  ASSUME NEW n \in Names, NEW f \in Funcs
  PROVE  Key(n, f) \in Keys
  BY DEF Key, Keys, Arities, SqlNames

(* What a text resolves to is an entry SQLite has. *)
LEMMA ResolveShape ==
  ASSUME NEW t \in Texts
  PROVE  /\ Resolve(t) \in Keys \cup {None}
         /\ Resolve(t) # None => table[Resolve(t)] # None
<1>1. t \in Keys
  BY TextsAreKeys
<1>2. t[1] \in SqlNames /\ 0 \in Arities
  BY DEF Texts, Arities
<1>3. <<t[1], 0>> \in Keys
  BY <1>2 DEF Keys
<1> QED
  BY <1>1, <1>3 DEF Resolve

LEMMA Push ==
  ASSUME NEW S, NEW s \in Seq(S), NEW e \in S
  PROVE  /\ Append(s, e) \in Seq(S)
         /\ Len(Append(s, e)) = Len(s) + 1
         /\ \A i \in 1..Len(s) : Append(s, e)[i] = s[i]
         /\ Append(s, e)[Len(s) + 1] = e
  OBVIOUS

LEMMA Shape ==
  ASSUME NEW S, NEW s \in Seq(S)
  PROVE  /\ Len(s) \in Nat
         /\ DOMAIN s = 1..Len(s)
         /\ \A i \in 1..Len(s) : s[i] \in S
         /\ s = <<>> <=> Len(s) = 0
  BY LenProperties, ElementOfSeq, EmptySeq

LEMMA Pop ==
  ASSUME NEW S, NEW s \in Seq(S), s # <<>>
  PROVE  /\ SubSeq(s, 1, Len(s) - 1) \in Seq(S)
         /\ Len(SubSeq(s, 1, Len(s) - 1)) = Len(s) - 1
         /\ \A i \in 1..Len(s) - 1 : SubSeq(s, 1, Len(s) - 1)[i] = s[i]
<1> DEFINE n == Len(s) - 1
<1>1. Len(s) \in Nat \ {0}
  BY Shape
<1>2. n \in Nat /\ n <= Len(s) /\ \A i \in 1..n : i \in 1..Len(s)
  BY <1>1
<1>3. \A i \in 1..n : s[i] \in S
  BY <1>2, Shape
<1> HIDE DEF n
<1>4. /\ SubSeq(s, 1, n) \in Seq(S)
      /\ Len(SubSeq(s, 1, n)) = n
      /\ \A i \in 1..n : SubSeq(s, 1, n)[i] = s[i]
  BY <1>2, <1>3, SubSeqProperties
<1> QED
  BY <1>4 DEF n

LEMMA LastOrBefore ==
  ASSUME NEW n \in Nat, NEW i \in 1..n
  PROVE  i = n \/ i \in 1..n - 1
  OBVIOUS

LEMMA DisturbedShape ==
  ASSUME TypeOK
  PROVE  /\ Disturbed \in Seq(Calls)
         /\ Len(Disturbed) = Len(calls)
         /\ Len(calls) \in Nat
         /\ calls # <<>> => Disturbed[Len(calls)].nested
         /\ OuterDisturbed => \A i \in 1..Len(calls) : Disturbed[i].nested
<1>1. calls \in Seq(Calls)
  BY DEF TypeOK
<1>2. /\ Len(calls) \in Nat
      /\ DOMAIN calls = 1..Len(calls)
      /\ \A i \in 1..Len(calls) : calls[i] \in Calls
      /\ calls = <<>> <=> Len(calls) = 0
  BY <1>1, Shape
<1>3. ASSUME NEW i \in 1..Len(calls)
      PROVE  /\ [calls[i] EXCEPT !.nested = @ \/ i = Len(calls)] \in Calls
             /\ [calls[i] EXCEPT !.nested = @ \/ i = Len(calls)].nested
                  = (calls[i].nested \/ i = Len(calls))
  <2>1. /\ calls[i] \in [query : Queries, func : Funcs, nested : BOOLEAN]
        /\ (calls[i].nested \/ i = Len(calls)) \in BOOLEAN
    BY <1>2 DEF Calls
  <2> QED
    BY <2>1 DEF Calls
<1>4. Disturbed \in [1..Len(calls) -> Calls]
  BY <1>2, <1>3 DEF Disturbed
<1>5. Disturbed \in Seq(Calls) /\ Len(Disturbed) = Len(calls)
  BY <1>2, <1>4, IsASeq, LenProperties
<1>6. \A i \in 1..Len(calls) : Disturbed[i].nested = (calls[i].nested \/ i = Len(calls))
  BY <1>2, <1>3 DEF Disturbed
<1>7. calls # <<>> => Len(calls) \in 1..Len(calls)
  BY <1>2
<1>8. ASSUME OuterDisturbed, NEW i \in 1..Len(calls)
      PROVE  Disturbed[i].nested
  <2>1. i = Len(calls) \/ i \in 1..Len(calls) - 1
    BY <1>2, LastOrBefore
  <2> QED
    BY <1>6, <2>1, <1>8 DEF OuterDisturbed
<1> QED
  BY <1>2, <1>5, <1>6, <1>7, <1>8

-----------------------------------------------------------------------------
(* The invariant, action by action                                         *)

LEMMA InitInductive == Init => Inductive
<1> SUFFICES ASSUME Init PROVE Inductive
  OBVIOUS
<1>1. TypeOK
  <2>1. calls \in Seq(Calls)
    BY DEF Init
  <2>2. ctx \in 0..MaxDepth
    BY DEF Init
  <2> QED
    BY <2>1, <2>2 DEF Init, TypeOK
<1>2. SlotsMatchNames /\ LiveIsRegistered
  BY SlotsAreNumbers DEF Init, SlotsMatchNames, LiveIsRegistered
<1>3. BoundIsRegistered
  BY DEF Init, BoundIsRegistered
<1>4. OuterDisturbed /\ ResultsDelivered
  BY DEF Init, OuterDisturbed, ResultsDelivered
<1> QED
  BY <1>1, <1>2, <1>3, <1>4 DEF Inductive

LEMMA StutterInductive == Inductive /\ UNCHANGED vars => Inductive'
  BY DEF Inductive, TypeOK, SlotsMatchNames, LiveIsRegistered, BoundIsRegistered,
         OuterDisturbed, ResultsDelivered, vars

(* The parts that speak of the calls in progress survive when those and    *)
(* the context do not change.                                              *)
LEMMA CallsKept ==
  ASSUME Inductive, UNCHANGED <<calls, ctx, lost>>
  PROVE  /\ OuterDisturbed' /\ ResultsDelivered'
         /\ calls' \in Seq(Calls) /\ ctx' \in 0..MaxDepth /\ lost' \in BOOLEAN
  BY DEF Inductive, TypeOK, OuterDisturbed, ResultsDelivered

LEMMA CreateInductive ==
  ASSUME Inductive, NEW f \in Funcs, NEW n \in Names, CreateFunction(f, n)
  PROVE  Inductive'
<1>1. PICK s \in Slots :
        /\ slots[s] = None
        /\ table' = [table EXCEPT ![Key(n, f)] = s]
        /\ slots' = [slots EXCEPT ![s] = f]
        /\ names' = [names EXCEPT ![n] = s]
  BY DEF CreateFunction, FirstFree
<1>2. /\ names[n] = None
      /\ shadowed' = shadowed \cup Twins(f, n)
      /\ UNCHANGED <<text, bound, active>>
      /\ UNCHANGED <<calls, ctx, lost>>
  BY DEF CreateFunction
<1>3. expired' \in [Queries -> BOOLEAN]
  BY DEF CreateFunction, Inductive, TypeOK
<1>4. s # None /\ f # None
  BY SlotsAreNumbers
<1>5. Key(n, f) \in Keys
  BY KeyIsKey
<1>6. TypeOK'
  <2>1. /\ names' \in [Names -> Slots \cup {None}]
        /\ slots' \in [Slots -> Funcs \cup {None}]
        /\ table' \in [Keys -> Slots \cup {None}]
    BY <1>1, <1>5 DEF Inductive, TypeOK
  <2>2. shadowed' \subseteq Names
    BY <1>2 DEF Twins, Inductive, TypeOK
  <2> QED
    BY <2>1, <2>2, <1>2, <1>3, CallsKept DEF Inductive, TypeOK
<1>7. \A m \in Names : names[m] # s
  BY <1>1, <1>4 DEF Inductive, SlotsMatchNames
<1>8. /\ names'[n] = s
      /\ \A m \in Names : m # n => names'[m] = names[m]
      /\ slots'[s] = f
      /\ \A r \in Slots : r # s => slots'[r] = slots[r]
      /\ table'[Key(n, f)] = s
      /\ \A k \in Keys : k # Key(n, f) => table'[k] = table[k]
  BY <1>1, <1>5 DEF Inductive, TypeOK
<1>9. SlotsMatchNames'
  <2>1. ASSUME NEW m \in Names, NEW o \in Names, names'[m] = names'[o], names'[m] # None
        PROVE  m = o
    BY <2>1, <1>7, <1>8 DEF Inductive, SlotsMatchNames
  <2>2. ASSUME NEW r \in Slots
        PROVE  slots'[r] # None <=> \E m \in Names : names'[m] = r
    <3>1. CASE r = s
      BY <3>1, <1>4, <1>8
    <3>2. CASE r # s
      <4>1. slots'[r] # None <=> \E m \in Names : names[m] = r
        BY <3>2, <1>8 DEF Inductive, SlotsMatchNames
      <4>2. names[n] # r /\ names'[n] # r
        BY <3>2, <1>2, <1>8, SlotsAreNumbers
      <4>3. \A m \in Names : names[m] = r <=> names'[m] = r
        BY <4>2, <1>8
      <4> QED
        BY <4>1, <4>3
    <3> QED
      BY <3>1, <3>2
  <2> QED
    BY <2>1, <2>2 DEF SlotsMatchNames
<1>10. LiveIsRegistered'
  <2> SUFFICES ASSUME NEW m \in Names, names'[m] # None, m \notin shadowed'
               PROVE  table'[Key(m, slots'[names'[m]])] = names'[m]
    BY DEF LiveIsRegistered, Key
  <2>1. CASE m = n
    BY <2>1, <1>8
  <2>2. CASE m # n
    <3>1. names'[m] = names[m] /\ names[m] # s /\ names[m] \in Slots
      BY <2>2, <1>7, <1>8 DEF Inductive, TypeOK
    <3>2. slots'[names[m]] = slots[names[m]] /\ slots[names[m]] \in Funcs
      BY <3>1, <1>8 DEF Inductive, TypeOK, SlotsMatchNames
    <3>3. Key(m, slots[names[m]]) \in Keys /\ Key(m, slots[names[m]]) # Key(n, f)
      <4>1. names[m] # None /\ m \notin Twins(f, n)
        BY <3>1, <1>2, SlotsAreNumbers
      <4> QED
        BY <4>1, <3>2, <2>2, KeyIsKey DEF Twins
    <3>4. table[Key(m, slots[names[m]])] = names[m]
      BY <3>1, <1>2, SlotsAreNumbers DEF Inductive, LiveIsRegistered
    <3> QED
      BY <3>1, <3>2, <3>3, <3>4, <1>8
  <2> QED
    BY <2>1, <2>2
<1>11. BoundIsRegistered'
  <2> SUFFICES ASSUME NEW q \in Queries, text[q] # None
               PROVE  bound[q] # None /\ table'[bound[q]] # None
    BY <1>2 DEF BoundIsRegistered
  <2>1. bound[q] # None /\ table[bound[q]] # None /\ bound[q] \in Keys
    BY DEF Inductive, TypeOK, BoundIsRegistered
  <2> QED
    BY <2>1, <1>4, <1>8
<1> QED
  BY <1>2, <1>6, <1>9, <1>10, <1>11, CallsKept DEF Inductive

LEMMA DeleteInductive ==
  ASSUME Inductive, NEW n \in Names, DeleteFunction(n)
  PROVE  Inductive'
<1> DEFINE s == names[n]
<1>1. /\ s # None
      /\ names' = [names EXCEPT ![n] = None]
      /\ slots' = [slots EXCEPT ![s] = None]
      /\ shadowed' = shadowed \ {n}
      /\ UNCHANGED <<table, text, bound, expired, active>>
      /\ UNCHANGED <<calls, ctx, lost>>
  BY DEF DeleteFunction
<1>2. s \in Slots
  BY <1>1 DEF Inductive, TypeOK
<1>3. TypeOK'
  <2>1. /\ names' \in [Names -> Slots \cup {None}]
        /\ slots' \in [Slots -> Funcs \cup {None}]
    BY <1>1, <1>2 DEF Inductive, TypeOK
  <2> QED
    BY <2>1, <1>1, CallsKept DEF Inductive, TypeOK
<1>4. \A m \in Names : m # n => names[m] # s
  BY <1>1 DEF Inductive, SlotsMatchNames
<1>5. /\ names'[n] = None
      /\ \A m \in Names : m # n => names'[m] = names[m]
      /\ slots'[s] = None
      /\ \A r \in Slots : r # s => slots'[r] = slots[r]
  BY <1>1, <1>2 DEF Inductive, TypeOK
<1>6. SlotsMatchNames'
  <2>1. ASSUME NEW m \in Names, NEW o \in Names, names'[m] = names'[o], names'[m] # None
        PROVE  m = o
    BY <2>1, <1>5 DEF Inductive, SlotsMatchNames
  <2>2. ASSUME NEW r \in Slots
        PROVE  slots'[r] # None <=> \E m \in Names : names'[m] = r
    <3>1. names'[n] # r
      BY <1>5, SlotsAreNumbers
    <3>2. CASE r = s
      <4>1. \A m \in Names : names'[m] # r
        BY <3>1, <3>2, <1>4, <1>5
      <4> QED
        BY <4>1, <3>2, <1>5
    <3>3. CASE r # s
      <4>1. slots'[r] # None <=> \E m \in Names : names[m] = r
        BY <3>3, <1>5 DEF Inductive, SlotsMatchNames
      <4>2. \A m \in Names : names[m] = r <=> names'[m] = r
        BY <3>1, <3>3, <1>5
      <4> QED
        BY <4>1, <4>2
    <3> QED
      BY <3>2, <3>3
  <2> QED
    BY <2>1, <2>2 DEF SlotsMatchNames
<1>7. LiveIsRegistered'
  <2> SUFFICES ASSUME NEW m \in Names, names'[m] # None, m \notin shadowed'
               PROVE  table'[Key(m, slots'[names'[m]])] = names'[m]
    BY DEF LiveIsRegistered, Key
  <2>1. names'[m] = names[m] /\ names[m] # s /\ names[m] \in Slots /\ m \notin shadowed
    BY <1>1, <1>4, <1>5 DEF Inductive, TypeOK
  <2>2. table[Key(m, slots[names[m]])] = names[m]
    BY <2>1, SlotsAreNumbers DEF Inductive, LiveIsRegistered
  <2> QED
    BY <2>1, <2>2, <1>1, <1>5
<1>8. BoundIsRegistered'
  BY <1>1 DEF Inductive, BoundIsRegistered
<1> QED
  BY <1>1, <1>3, <1>6, <1>7, <1>8, CallsKept DEF Inductive

LEMMA PrepareInductive ==
  ASSUME Inductive, NEW q \in Queries, NEW t \in Texts, Prepare(q, t)
  PROVE  Inductive'
<1>1. /\ Resolve(t) # None
      /\ text' = [text EXCEPT ![q] = t]
      /\ bound' = [bound EXCEPT ![q] = Resolve(t)]
      /\ expired' = [expired EXCEPT ![q] = FALSE]
      /\ UNCHANGED <<names, slots, table, shadowed, active>>
      /\ UNCHANGED <<calls, ctx, lost>>
  BY DEF Prepare
<1>2. Resolve(t) \in Keys /\ table[Resolve(t)] # None
  BY <1>1, ResolveShape
<1>3. TypeOK'
  <2>1. /\ text' \in [Queries -> Texts \cup {None}]
        /\ bound' \in [Queries -> Keys \cup {None}]
        /\ expired' \in [Queries -> BOOLEAN]
    BY <1>1, <1>2 DEF Inductive, TypeOK
  <2> QED
    BY <2>1, <1>1, CallsKept DEF Inductive, TypeOK
<1>4. SlotsMatchNames' /\ LiveIsRegistered'
  BY <1>1 DEF Inductive, SlotsMatchNames, LiveIsRegistered
<1>5. BoundIsRegistered'
  <2> SUFFICES ASSUME NEW r \in Queries, text'[r] # None
               PROVE  bound'[r] # None /\ table[bound'[r]] # None
    BY <1>1 DEF BoundIsRegistered
  <2>1. CASE r = q
    BY <2>1, <1>1, <1>2 DEF Inductive, TypeOK
  <2>2. CASE r # q
    BY <2>2, <1>1 DEF Inductive, TypeOK, BoundIsRegistered
  <2> QED
    BY <2>1, <2>2
<1> QED
  BY <1>1, <1>3, <1>4, <1>5, CallsKept DEF Inductive

LEMMA FinalizeInductive ==
  ASSUME Inductive, NEW q \in Queries, Finalize(q)
  PROVE  Inductive'
<1>1. /\ text' = [text EXCEPT ![q] = None]
      /\ bound' = [bound EXCEPT ![q] = None]
      /\ active' = [active EXCEPT ![q] = FALSE]
      /\ UNCHANGED <<names, slots, table, shadowed, expired>>
      /\ UNCHANGED <<calls, ctx, lost>>
  BY DEF Finalize
<1>2. TypeOK'
  <2>1. /\ text' \in [Queries -> Texts \cup {None}]
        /\ bound' \in [Queries -> Keys \cup {None}]
        /\ active' \in [Queries -> BOOLEAN]
    BY <1>1 DEF Inductive, TypeOK
  <2> QED
    BY <2>1, <1>1, CallsKept DEF Inductive, TypeOK
<1>3. SlotsMatchNames' /\ LiveIsRegistered'
  BY <1>1 DEF Inductive, SlotsMatchNames, LiveIsRegistered
<1>4. BoundIsRegistered'
  BY <1>1 DEF Inductive, TypeOK, BoundIsRegistered
<1> QED
  BY <1>1, <1>2, <1>3, <1>4, CallsKept DEF Inductive

LEMMA QueryEndsInductive ==
  ASSUME Inductive, NEW q \in Queries, QueryEnds(q)
  PROVE  Inductive'
<1>1. /\ active' = [active EXCEPT ![q] = FALSE]
      /\ UNCHANGED <<names, slots, table, shadowed, text, bound, expired>>
      /\ UNCHANGED <<calls, ctx, lost>>
  BY DEF QueryEnds
<1>2. TypeOK'
  <2>1. active' \in [Queries -> BOOLEAN]
    BY <1>1 DEF Inductive, TypeOK
  <2> QED
    BY <2>1, <1>1, CallsKept DEF Inductive, TypeOK
<1>3. SlotsMatchNames' /\ LiveIsRegistered' /\ BoundIsRegistered'
  BY <1>1 DEF Inductive, SlotsMatchNames, LiveIsRegistered, BoundIsRegistered
<1> QED
  BY <1>1, <1>2, <1>3, CallsKept DEF Inductive

(* The program of a query refers to an entry, and that to a slot. *)
LEMMA ProgramShape ==
  ASSUME Inductive, NEW q \in Queries, Reach(q)
  PROVE  Program(q) \in Keys /\ Target(q) \in Slots
<1>1. text[q] \in Texts /\ text[q] # None /\ Program(q) # None
  BY DEF Reach, Inductive, TypeOK
<1>2. Program(q) \in Keys /\ table[Program(q)] # None
  <2>1. CASE expired[q] /\ ~active[q]
    BY <2>1, <1>1, ResolveShape DEF Program
  <2>2. CASE ~(expired[q] /\ ~active[q])
    BY <2>2, <1>1 DEF Program, Inductive, TypeOK, BoundIsRegistered
  <2> QED
    BY <2>1, <2>2
<1> QED
  BY <1>2 DEF Target, Inductive, TypeOK

(* What is common to a call of a function and to one of an empty slot. *)
LEMMA ReachKeeps ==
  ASSUME Inductive, NEW q \in Queries, Reach(q), calls' \in Seq(Calls)
  PROVE  /\ TypeOK' /\ SlotsMatchNames' /\ LiveIsRegistered' /\ BoundIsRegistered'
         /\ ctx' = Len(calls) + 1 /\ Len(calls) \in Nat
<1>1. /\ text[q] # None
      /\ ctx' = Len(calls) + 1
      /\ Len(calls) < MaxDepth
      /\ bound' = [bound EXCEPT ![q] = Program(q)]
      /\ expired' = [expired EXCEPT ![q] = expired[q] /\ active[q]]
      /\ active' = [active EXCEPT ![q] = TRUE]
      /\ UNCHANGED <<names, slots, table, shadowed, text, lost>>
  BY DEF Reach
<1>2. /\ Program(q) \in Keys
      /\ table[Program(q)] # None
      /\ Program(q) # None
  BY ProgramShape, SlotsAreNumbers DEF Target, Reach
<1>3. Len(calls) \in Nat
  BY Shape DEF Inductive, TypeOK
<1>4. ctx' \in 0..MaxDepth
  BY <1>1, <1>3
<1>5. /\ bound' \in [Queries -> Keys \cup {None}]
      /\ expired' \in [Queries -> BOOLEAN]
      /\ active' \in [Queries -> BOOLEAN]
  <2>1. (expired[q] /\ active[q]) \in BOOLEAN
    OBVIOUS
  <2> QED
    BY <2>1, <1>1, <1>2 DEF Inductive, TypeOK
<1>6. TypeOK'
  BY <1>1, <1>4, <1>5 DEF Inductive, TypeOK
<1>7. SlotsMatchNames' /\ LiveIsRegistered'
  BY <1>1 DEF Inductive, SlotsMatchNames, LiveIsRegistered
<1>8. BoundIsRegistered'
  BY <1>1, <1>2 DEF Inductive, TypeOK, BoundIsRegistered
<1> QED
  BY <1>1, <1>3, <1>6, <1>7, <1>8

LEMMA CallFunctionInductive ==
  ASSUME Inductive, NEW q \in Queries, CallFunction(q)
  PROVE  Inductive'
<1> DEFINE c == [query |-> q, func |-> slots[Target(q)], nested |-> FALSE]
<1>1. Reach(q) /\ slots[Target(q)] # None /\ calls' = Append(Disturbed, c)
  BY DEF CallFunction
<1>2. c \in Calls
  <2>1. slots[Target(q)] \in Funcs
    BY <1>1, ProgramShape DEF Inductive, TypeOK
  <2> QED
    BY <2>1 DEF Calls
<1> HIDE DEF c
<1>3. /\ Disturbed \in Seq(Calls)
      /\ Len(Disturbed) = Len(calls)
      /\ Len(calls) \in Nat
      /\ \A i \in 1..Len(calls) : Disturbed[i].nested
  BY DisturbedShape DEF Inductive
<1>4. /\ calls' \in Seq(Calls)
      /\ Len(calls') = Len(calls) + 1
      /\ \A i \in 1..Len(calls) : calls'[i] = Disturbed[i]
  BY <1>1, <1>2, <1>3, Push
<1>5. /\ TypeOK' /\ SlotsMatchNames' /\ LiveIsRegistered' /\ BoundIsRegistered'
      /\ ctx' = Len(calls')
  BY <1>1, <1>4, ReachKeeps
<1>6. OuterDisturbed'
  <2>1. Len(calls') - 1 = Len(calls)
    BY <1>3, <1>4
  <2> QED
    BY <2>1, <1>3, <1>4 DEF OuterDisturbed
<1>7. ResultsDelivered'
  BY <1>5 DEF ResultsDelivered
<1> QED
  BY <1>5, <1>6, <1>7 DEF Inductive

LEMMA CallNothingInductive ==
  ASSUME Inductive, NEW q \in Queries, CallNothing(q)
  PROVE  Inductive'
<1>1. Reach(q) /\ calls' = Disturbed
  BY DEF CallNothing
<1>2. /\ calls' \in Seq(Calls)
      /\ Len(calls') = Len(calls)
      /\ Len(calls) \in Nat
      /\ \A i \in 1..Len(calls') : calls'[i].nested
  BY <1>1, DisturbedShape DEF Inductive
<1>3. TypeOK' /\ SlotsMatchNames' /\ LiveIsRegistered' /\ BoundIsRegistered'
  BY <1>1, <1>2, ReachKeeps
<1>4. OuterDisturbed'
  <2>1. \A i \in 1..Len(calls') - 1 : i \in 1..Len(calls')
    BY <1>2
  <2> QED
    BY <2>1, <1>2 DEF OuterDisturbed
<1>5. ResultsDelivered'
  <2>1. calls' # <<>> => Len(calls') \in 1..Len(calls')
    BY <1>2, Shape
  <2> QED
    BY <2>1, <1>2 DEF ResultsDelivered
<1> QED
  BY <1>3, <1>4, <1>5 DEF Inductive

(* The call that becomes the innermost again has made calls of its own. *)
LEMMA FunctionReturnsInductive ==
  ASSUME Inductive, FunctionReturns
  PROVE  Inductive'
<1> DEFINE n == Len(calls) - 1
<1>1. /\ calls # <<>>
      /\ lost' = (ctx # Len(calls))
      /\ calls' = SubSeq(calls, 1, n)
      /\ ctx' = 0
      /\ UNCHANGED <<names, slots, table, shadowed, text, bound, expired, active>>
  BY DEF FunctionReturns
<1>2. /\ calls \in Seq(Calls)
      /\ Len(calls) \in Nat \ {0}
      /\ \A i \in 1..Len(calls) : calls[i] \in Calls
  BY <1>1, Shape DEF Inductive, TypeOK
<1>3. n \in Nat /\ \A i \in 1..n : i \in 1..Len(calls)
  BY <1>2
<1>4. /\ calls' \in Seq(Calls)
      /\ Len(calls') = n
      /\ \A i \in 1..n : calls'[i] = calls[i]
  BY <1>1, <1>2, Pop
<1>5. \A i \in 1..n : calls[i].nested
  BY DEF Inductive, OuterDisturbed
<1> HIDE DEF n
<1>6. TypeOK'
  <2>1. lost' \in BOOLEAN /\ ctx' \in 0..MaxDepth
    BY <1>1
  <2> QED
    BY <2>1, <1>1, <1>4 DEF Inductive, TypeOK
<1>7. SlotsMatchNames' /\ LiveIsRegistered' /\ BoundIsRegistered'
  BY <1>1 DEF Inductive, SlotsMatchNames, LiveIsRegistered, BoundIsRegistered
<1>8. OuterDisturbed'
  <2>1. \A i \in 1..n - 1 : i \in 1..n
    BY <1>3
  <2> QED
    BY <2>1, <1>4, <1>5 DEF OuterDisturbed
<1>9. ResultsDelivered'
  <2>1. calls' # <<>> => n \in 1..n
    BY <1>3, <1>4, Shape
  <2> QED
    BY <2>1, <1>4, <1>5 DEF ResultsDelivered
<1> QED
  BY <1>6, <1>7, <1>8, <1>9 DEF Inductive

LEMMA NextInductive == Inductive /\ [Next]_vars => Inductive'
<1> SUFFICES ASSUME Inductive, [Next]_vars PROVE Inductive'
  OBVIOUS
<1>1. ASSUME NEW n \in Names, DeleteFunction(n) PROVE Inductive'
  BY <1>1, DeleteInductive
<1>2. ASSUME NEW n \in Names, NEW f \in Funcs, CreateFunction(f, n) PROVE Inductive'
  BY <1>2, CreateInductive
<1>3. ASSUME NEW q \in Queries, NEW t \in Texts, Prepare(q, t) PROVE Inductive'
  BY <1>3, PrepareInductive
<1>4. ASSUME NEW q \in Queries, Finalize(q) PROVE Inductive'
  BY <1>4, FinalizeInductive
<1>5. ASSUME NEW q \in Queries, QueryEnds(q) PROVE Inductive'
  BY <1>5, QueryEndsInductive
<1>6. ASSUME NEW q \in Queries, CallFunction(q) PROVE Inductive'
  BY <1>6, CallFunctionInductive
<1>7. ASSUME NEW q \in Queries, CallNothing(q) PROVE Inductive'
  BY <1>7, CallNothingInductive
<1>8. CASE FunctionReturns
  BY <1>8, FunctionReturnsInductive
<1>9. CASE UNCHANGED vars
  BY <1>9, StutterInductive
<1> QED
  BY <1>1, <1>2, <1>3, <1>4, <1>5, <1>6, <1>7, <1>8, <1>9 DEF Next

-----------------------------------------------------------------------------
(* The theorems                                                            *)

(* The invariant of names, slots, SQLite's table of functions and the      *)
(* calls in progress (db.ts:599-670, wrapper.c:296-326).                   *)
THEOREM InductiveInvariant == Spec => []Inductive
<1>1. Init => Inductive
  BY InitInductive
<1>2. Inductive /\ [Next]_vars => Inductive'
  BY NextInductive
<1> QED
  BY <1>1, <1>2, PTL DEF Spec

(* Every reachable state is well typed.                                    *)
THEOREM TypeCorrect == Spec => []TypeOK
<1>1. Inductive => TypeOK
  BY DEF Inductive
<1> QED
  BY <1>1, InductiveInvariant, PTL

(* No two functions share a slot, and a slot is in use exactly if a name   *)
(* has it (db.ts:599-670).                                                 *)
THEOREM NamesAndSlotsAgree == Spec => []SlotsMatchNames
<1>1. Inductive => SlotsMatchNames
  BY DEF Inductive
<1> QED
  BY <1>1, InductiveInvariant, PTL

(* SQLite's table leads to the slot of every function that is not deleted, *)
(* unless its entry went to a name that differs in case (db.ts:606-633,    *)
(* wrapper.c:314-326).                                                     *)
THEOREM FunctionsAreRegistered == Spec => []LiveIsRegistered
<1>1. Inductive => LiveIsRegistered
  BY DEF Inductive
<1> QED
  BY <1>1, InductiveInvariant, PTL

(* The innermost function has its own context when it returns, unless it   *)
(* has made calls itself (wrapper.c:296-305).                              *)
THEOREM ResultsReachTheirCall == Spec => []ResultsDelivered
<1>1. Inductive => ResultsDelivered
  BY DEF Inductive
<1> QED
  BY <1>1, InductiveInvariant, PTL

(* Only a step that calls a function adds a call. *)
LEMMA OnlyCallsPush ==
  ASSUME Inductive, Next, Calling
  PROVE  \E q \in Queries : CallFunction(q)
<1>1. Len(calls) \in Nat
  BY Shape DEF Inductive, TypeOK
<1>2. calls' # calls
  BY <1>1 DEF Calling
<1>3. ~FunctionReturns
  <2> SUFFICES ASSUME FunctionReturns PROVE FALSE
    OBVIOUS
  <2>1. calls \in Seq(Calls) /\ Len(calls) \in Nat \ {0}
    BY Shape DEF Inductive, TypeOK, FunctionReturns
  <2>2. Len(SubSeq(calls, 1, Len(calls) - 1)) = Len(calls) - 1
    BY <2>1, Pop DEF FunctionReturns
  <2> QED
    BY <2>1, <2>2 DEF Calling, FunctionReturns
<1>4. ASSUME NEW q \in Queries PROVE ~CallNothing(q)
  BY <1>1, DisturbedShape DEF Calling, CallNothing, Inductive
<1>5. ASSUME NEW q \in Queries
      PROVE  /\ ~Finalize(q) /\ ~QueryEnds(q)
             /\ \A t \in Texts : ~Prepare(q, t)
  BY <1>2 DEF Finalize, QueryEnds, Prepare
<1>6. ASSUME NEW n \in Names
      PROVE  ~DeleteFunction(n) /\ \A f \in Funcs : ~CreateFunction(f, n)
  BY <1>2 DEF DeleteFunction, CreateFunction
<1> QED
  BY <1>3, <1>4, <1>5, <1>6 DEF Next

(* A function that was deleted never runs again, whatever programs and     *)
(* entries of SQLite's still lead to its slot (db.ts:653-670).             *)
THEOREM DeletedFunctionsNeverRun == Spec => OnlyNamedFunctionsRun
<1> DEFINE Named == Calling => \E n \in Names : names[n] # None /\ slots[names[n]] = Called.func
<1>1. Inductive /\ [Next]_vars => [Named]_vars
  <2> SUFFICES ASSUME Inductive, Next, Calling
               PROVE  \E n \in Names : names[n] # None /\ slots[names[n]] = Called.func
    OBVIOUS
  <2>1. PICK q \in Queries : CallFunction(q)
    BY OnlyCallsPush
  <2> DEFINE c == [query |-> q, func |-> slots[Target(q)], nested |-> FALSE]
  <2>2. /\ Reach(q) /\ slots[Target(q)] # None
        /\ calls' = Append(Disturbed, c)
    BY <2>1 DEF CallFunction
  <2>3. Target(q) \in Slots /\ slots[Target(q)] \in Funcs
    BY <2>2, ProgramShape DEF Inductive, TypeOK
  <2>4. c \in Calls /\ c.func = slots[Target(q)]
    BY <2>3 DEF Calls
  <2> HIDE DEF c
  <2>5. Called = c
    <3>1. Disturbed \in Seq(Calls)
      BY DisturbedShape DEF Inductive
    <3>2. /\ Len(calls') = Len(Disturbed) + 1
          /\ calls'[Len(Disturbed) + 1] = c
      BY <3>1, <2>2, <2>4, Push
    <3> QED
      BY <3>2 DEF Called
  <2>6. PICK n \in Names : names[n] = Target(q)
    BY <2>2, <2>3 DEF Inductive, SlotsMatchNames
  <2>7. names[n] # None /\ slots[names[n]] = Called.func
    BY <2>3, <2>4, <2>5, <2>6, SlotsAreNumbers
  <2> QED
    BY <2>7
<1>2. OnlyNamedFunctionsRun <=> [][Named]_vars
  BY DEF OnlyNamedFunctionsRun
<1> QED
  BY <1>1, <1>2, InductiveInvariant, PTL DEF Spec, OnlyNamedFunctionsRun

=============================================================================
