---------------------------- MODULE QueriesProofs ----------------------------
(***************************************************************************)
(* Proofs about Queries, for any schemas, arguments, codes and numbers of  *)
(* parameters and rows.                                                    *)
(***************************************************************************)
EXTENDS Queries, MarshallingProofs

USE QueryAssumption

-----------------------------------------------------------------------------
(* Keys                                                                    *)

Fields == {"bound", "names", "row", "at"}
IsStatement(m) == m = [f \in Fields |-> m[f]]

(* The inductive invariant: the keys that #makeRowObject has computed are  *)
(* the names the statement was compiled with, unless it was compiled with  *)
(* others since, and a query that was left alone is where #status says.    *)
KeysInv ==
    /\ IsStatement(vm) /\ schema \in Schemas /\ vm.names \in Schemas
    /\ renamed \in BOOLEAN
    /\ rowKeys # NoKeys /\ ~renamed => rowKeys = vm.names
    /\ valid /\ status = "row" => vm.at = "row"
    /\ KeysAgree

LEMMA SteppedIs ==
  ASSUME NEW m, IsStatement(m), NEW outcome
  PROVE  /\ IsStatement(Stepped(m, outcome))
         /\ Stepped(m, outcome).at = outcome
         /\ Stepped(m, outcome).names = IF m.at = "row" THEN m.names ELSE schema
         /\ Stepped(m, outcome).bound = m.bound
         /\ Stepped(m, outcome).row = IF outcome # "row" THEN 0 ELSE m.row + 1
<1> DEFINE s == Stepped(m, outcome)
<1>1. s = [f \in Fields |->
              IF f = "at" THEN outcome
              ELSE IF f = "names" THEN IF m.at = "row" THEN m.names ELSE schema
              ELSE IF f = "row" THEN IF outcome # "row" THEN 0 ELSE m.row + 1
              ELSE m[f]]
  BY DEF Stepped, IsStatement, Fields
<1> QED
  BY <1>1 DEF IsStatement, Fields

LEMMA StartedIs ==
  ASSUME IsStatement(vm), NEW s
  PROVE  /\ IsStatement(Started(s)) /\ Started(s).at = "start"
         /\ Started(s).bound = s.bound /\ Started(s).names = vm.names /\ Started(s).row = 0
<1>1. Started(s) = [f \in Fields |-> IF f = "at" THEN "start"
                                      ELSE IF f = "row" THEN 0
                                      ELSE IF f = "bound" THEN s.bound
                                      ELSE vm[f]]
  BY DEF Started, IsStatement, Fields
<1> QED
  BY <1>1 DEF IsStatement, Fields

LEMMA ResultsAre ==
  /\ Nothing.kind # "row"
  /\ \A code, says : Throws(code, says).kind # "row"
  /\ \A m, kv : /\ Returns(m, "row", kv).names = m.names
                /\ Returns(m, "row", kv).keys = IF kv THEN Keys(m.names) ELSE NoKeys
  BY DEF Nothing, Throws, Returns

LEMMA NoRowCode == \A outcome \in {"done"} \cup Codes : outcome # "row"
  OBVIOUS

LEMMA InitKeys == Init => KeysInv
  BY ResultsAre DEF Init, KeysInv, KeysAgree, IsStatement, Fields

LEMMA StartFailsKeys ==
  ASSUME KeysInv, NEW a, StartFails(a) \/ ExpandSql(a)
  PROVE  KeysInv'
<1>1. PICK s : vm' = Started(s) /\ ~valid' /\ UNCHANGED <<rowKeys, schema, renamed>>
  BY DEF StartFails, ExpandSql
<1> QED
  BY <1>1, StartedIs DEF KeysInv, KeysAgree, IsStatement

LEMMA IterKeys ==
  ASSUME KeysInv, NEW a, Iter(a)
  PROVE  KeysInv'
<1>1. PICK s, outcome : /\ vm' = Stepped(Started(s), outcome) /\ status' = outcome
                        /\ result'.kind # "row"
                        /\ Compiled /\ UNCHANGED <<rowKeys, schema>>
  BY ResultsAre DEF Iter
<1>2. /\ IsStatement(vm') /\ vm'.at = outcome /\ vm'.names = schema
  BY <1>1, StartedIs, SteppedIs DEF KeysInv
<1> QED
  BY <1>1, <1>2 DEF KeysInv, KeysAgree, IsStatement, Compiled

LEMMA NextRowKeys ==
  ASSUME KeysInv, NextRow
  PROVE  KeysInv'
<1>1. PICK outcome :
         /\ vm' = Stepped(vm, outcome) /\ status' = outcome
         /\ result' = [Returns(vm, "row", FALSE) EXCEPT
                          !.keys = IF iterKv THEN Keys(vm'.names) ELSE NoKeys]
  BY DEF NextRow
<1>2. /\ rowKeys' = (IF iterKv THEN Keys(vm'.names) ELSE rowKeys)
      /\ status = "row" /\ UNCHANGED <<schema, valid>>
      /\ renamed' = (renamed \/ (rowKeys # NoKeys /\ vm'.names # vm.names))
  BY DEF NextRow, Compiled
<1>3. /\ IsStatement(vm') /\ vm'.at = outcome
      /\ vm'.names = IF vm.at = "row" THEN vm.names ELSE schema
  BY <1>1, SteppedIs DEF KeysInv
<1>4. /\ result'.names = vm.names
      /\ result'.keys = IF iterKv THEN Keys(vm'.names) ELSE NoKeys
  BY <1>1, <1>3 DEF Returns, Nothing
<1>5. ~renamed' => Keys(vm'.names) = vm'.names
  BY <1>2 DEF KeysInv, Keys
<1>6. rowKeys' # NoKeys /\ ~renamed' => rowKeys' = vm'.names
  BY <1>2, <1>5 DEF KeysInv
<1>7. valid => vm'.names = vm.names
  BY <1>2, <1>3 DEF KeysInv
<1>8. KeysAgree'
  BY <1>2, <1>4, <1>5, <1>7 DEF KeysAgree
<1>9. vm'.names \in Schemas /\ renamed' \in BOOLEAN /\ schema' \in Schemas
  BY <1>2, <1>3 DEF KeysInv
<1> QED
  BY <1>1, <1>2, <1>3, <1>6, <1>8, <1>9 DEF KeysInv, IsStatement

LEMMA LoopKeys ==
  ASSUME KeysInv, NEW a, Loop(a)
  PROVE  KeysInv'
<1> DEFINE s == StartQuery(a)
           m == [Started(s) EXCEPT !.at = "row", !.row = 1, !.names = schema]
<1>1. PICK outcome \in {"done"} \cup Codes, some \in BOOLEAN, kv \in BOOLEAN :
         /\ status' = outcome
         /\ vm' = Stepped(Started(s), outcome)
         /\ result' = IF outcome \in Codes THEN Throws(outcome, Says(outcome))
                      ELSE IF some THEN Returns(m, "row", kv) ELSE Nothing
         /\ rowKeys' = IF kv /\ outcome = "done" /\ some THEN Keys(schema) ELSE rowKeys
         /\ UNCHANGED schema
         /\ renamed' = (renamed \/ (rowKeys # NoKeys /\ vm'.names # vm.names))
  BY DEF Loop, Compiled
<1>2. IsStatement(vm') /\ vm'.at = outcome /\ outcome # "row" /\ vm'.names = schema
  BY <1>1, StartedIs, SteppedIs, NoRowCode DEF KeysInv
<1>3. m.names = schema
  BY StartedIs DEF KeysInv, IsStatement, Fields
<1>4. ~renamed' => Keys(schema) = schema
  BY <1>1, <1>2 DEF KeysInv, Keys
<1>5. rowKeys' # NoKeys /\ ~renamed' => rowKeys' = schema
  BY <1>1, <1>2, <1>4 DEF KeysInv
<1> HIDE DEF m, s
<1>6. result'.kind = "row" /\ result'.keys # NoKeys =>
         result'.keys = Keys(schema) /\ result'.names = schema
  BY <1>1, <1>3, ResultsAre
<1>7. KeysAgree'
  BY <1>1, <1>4, <1>6 DEF KeysAgree
<1>8. schema' \in Schemas /\ renamed' \in BOOLEAN
  BY <1>1 DEF KeysInv
<1> QED
  BY <1>1, <1>2, <1>5, <1>7, <1>8 DEF KeysInv, IsStatement

LEMMA NextKeys == KeysInv /\ [Next]_vars => KeysInv'
<1> SUFFICES ASSUME KeysInv, [Next]_vars PROVE KeysInv'
  OBVIOUS
<1>1. CASE NextEnds
  BY <1>1, ResultsAre DEF NextEnds, KeysInv, KeysAgree, IsStatement
<1>2. ASSUME NEW says, OtherCall(says) PROVE KeysInv'
  BY <1>2 DEF OtherCall, KeysInv, KeysAgree, IsStatement
<1>3. ASSUME NEW names \in Schemas, Alter(names) PROVE KeysInv'
  BY <1>3 DEF Alter, KeysInv, KeysAgree, IsStatement
<1>4. CASE UNCHANGED vars
  BY <1>4 DEF vars, KeysInv, KeysAgree, IsStatement
<1> QED
  BY <1>1, <1>2, <1>3, <1>4, StartFailsKeys, IterKeys, NextRowKeys, LoopKeys DEF Next

(* Entries have the names of their row's columns as keys, whenever the     *)
(* schema changes, unless the statement was compiled with other names      *)
(* after the query made its first entry (query.ts:319-335).                *)
THEOREM KeysAreColumns == Spec => []KeysAgree
<1>1. KeysInv => KeysAgree
  BY DEF KeysInv
<1> QED
  BY <1>1, InitKeys, NextKeys, PTL DEF Spec

-----------------------------------------------------------------------------
(* #startQuery                                                             *)

BoundValues == {Null} \cup {Bind(v) : v \in JsValues}
Messages == {"ok", "range"} \cup Codes
Starts == [bound : [1 .. Parameters -> BoundValues],
           error : {"none", "text", "range"}, message : Messages]

\* The bindings that the first n of the values make
Bindings(values, n) == [i \in 1 .. Parameters |-> IF i <= n THEN Bind(values[i]) ELSE Null]

\* What is known after the first n values were bound, or one of them was not
BoundUpTo(s, values, n) ==
    /\ s \in Starts
    /\ s.error = "range" => s.message = "range"
    /\ s.error = "none" => /\ n <= Parameters
                           /\ \A i \in 1 .. n : Bindable(values[i])
                           /\ s.bound = Bindings(values, n)

Cleared(a) == IF a.known THEN ClearBindings ELSE [ClearBindings EXCEPT !.error = "text"]

LEMMA ClearedIs ==
  ASSUME NEW a \in Arguments
  PROVE  BoundUpTo(Cleared(a), a.values, 0)
<1>1. NoBindings \in [1 .. Parameters -> BoundValues] /\ NoBindings = Bindings(a.values, 0)
  BY DEF NoBindings, BoundValues, Bindings
<1>2. ClearBindings \in Starts /\ ClearBindings.bound = NoBindings /\ ClearBindings.error = "none"
  BY <1>1 DEF ClearBindings, Reset, Starts, Messages
<1>3. CASE a.known
  <2>1. Cleared(a) = ClearBindings
    BY <1>3 DEF Cleared
  <2>2. 0 <= Parameters /\ \A i \in 1 .. 0 : Bindable(a.values[i])
    OBVIOUS
  <2>3. ClearBindings.error # "range"
    BY <1>2
  <2> QED
    BY <1>1, <1>2, <2>1, <2>2, <2>3, Zenon DEF BoundUpTo
<1>4. CASE ~a.known
  <2>1. Cleared(a) = [ClearBindings EXCEPT !.error = "text"]
    BY <1>4 DEF Cleared
  <2>2. Cleared(a) \in Starts /\ Cleared(a).error = "text"
    BY <1>2, <2>1 DEF Starts
  <2> QED
    BY <2>2 DEF BoundUpTo
<1> QED
  BY <1>3, <1>4

LEMMA BindNextIs ==
  ASSUME NEW values \in Seq(JsValues), NEW i \in 1 .. Len(values),
         NEW s, BoundUpTo(s, values, i - 1)
  PROVE  BoundUpTo(BindNext(s, i, values[i]), values, i)
<1> DEFINE v == values[i]
           t == BindNext(s, i, v)
<1>1. v \in JsValues /\ s \in Starts /\ i \in Nat /\ i > 0
  BY DEF BoundUpTo
<1>2. CASE s.error # "none"
  BY <1>2 DEF BindNext, BoundUpTo
<1>3. CASE s.error = "none" /\ ~Bindable(v)
  <2>1. t = [s EXCEPT !.error = "text"]
    BY <1>3 DEF BindNext
  <2>2. t \in Starts /\ t.error = "text"
    BY <1>1, <2>1 DEF Starts
  <2> QED
    BY <2>2 DEF BoundUpTo
<1>4. CASE s.error = "none" /\ Bindable(v) /\ i > Parameters
  <2>1. t = [s EXCEPT !.error = "range", !.message = "range"]
    BY <1>4 DEF BindNext
  <2>2. t \in Starts /\ t.error = "range" /\ t.message = "range"
    BY <1>1, <2>1 DEF Starts, Messages
  <2> QED
    BY <2>2 DEF BoundUpTo
<1>5. CASE s.error = "none" /\ Bindable(v) /\ ~(i > Parameters)
  <2>1. t = [s EXCEPT !.bound[i] = Bind(v), !.message = "ok"]
    BY <1>5 DEF BindNext
  <2>2. s.bound = Bindings(values, i - 1) /\ \A j \in 1 .. i - 1 : Bindable(values[j])
    BY <1>5 DEF BoundUpTo
  <2>3. Bind(v) \in BoundValues
    BY <1>1 DEF BoundValues
  <2>4. /\ t.bound = [s.bound EXCEPT ![i] = Bind(v)] /\ t.error = "none" /\ t.message = "ok"
        /\ t = [bound |-> t.bound, error |-> t.error, message |-> t.message]
    BY <1>1, <1>5, <2>1 DEF Starts
  <2>5. t.bound \in [1 .. Parameters -> BoundValues]
    BY <1>1, <2>3, <2>4 DEF Starts
  <2>6. t.bound = Bindings(values, i)
    <3> DEFINE x == s.bound
    <3>1. x = [j \in 1 .. Parameters |-> IF j <= i - 1 THEN Bind(values[j]) ELSE Null]
      BY <2>2 DEF Bindings
    <3>2. t.bound = [j \in 1 .. Parameters |-> IF j = i THEN Bind(v) ELSE x[j]]
      BY <2>4, <3>1
    <3> HIDE DEF x, t
    <3>3. \A j \in 1 .. Parameters : (IF j = i THEN Bind(v) ELSE x[j]) =
                                     IF j <= i THEN Bind(values[j]) ELSE Null
      BY <1>1, <3>1
    <3> QED
      BY <3>2, <3>3 DEF Bindings
  <2>7. t \in Starts
    BY <2>4, <2>5 DEF Starts, Messages
  <2>8. \A j \in 1 .. i : Bindable(values[j])
    BY <1>1, <1>5, <2>2
  <2> HIDE DEF t
  <2>9. BoundUpTo(t, values, i)
    BY <1>1, <1>5, <2>4, <2>6, <2>7, <2>8 DEF BoundUpTo
  <2> QED
    BY <2>9 DEF t
<1> QED
  BY <1>2, <1>3, <1>4, <1>5

(* #startQuery binds all values or none of what it says is bound counts.   *)
LEMMA StartQueryIs ==
  ASSUME NEW a \in Arguments
  PROVE  BoundUpTo(StartQuery(a), a.values, Len(a.values))
<1> DEFINE n == Len(a.values)
           Known(i) == {s \in Starts : BoundUpTo(s, a.values, i)}
           step == [i \in 1 .. n |-> [s \in Starts |->
                       IF BoundUpTo(s, a.values, i - 1) THEN BindNext(s, i, a.values[i]) ELSE s]]
           Eq(g) == g = [i \in 0 .. n |-> IF i > 0 THEN BindNext(g[i - 1], i, a.values[i])
                                          ELSE Cleared(a)]
<1>1. n \in Nat /\ a.values \in Seq(JsValues)
  <2>1. a.values \in Seq(JsValues)
    BY ArgumentsAssumption
  <2> QED
    BY <2>1
<1>2. BoundUpTo(Cleared(a), a.values, 0) /\ Cleared(a) \in Starts
  BY ClearedIs DEF BoundUpTo
<1>3. \A i \in 1 .. n : \A s : BoundUpTo(s, a.values, i - 1) =>
                                  BoundUpTo(BindNext(s, i, a.values[i]), a.values, i)
  BY <1>1, BindNextIs
<1>4. step \in [1 .. n -> [Starts -> Starts]]
  BY <1>3 DEF BoundUpTo
<1>5. PICK f : Follows(f, n, Starts, Cleared(a), step)
  <2> HIDE DEF step, n
  <2> QED
    BY <1>1, <1>2, <1>4, Recursion DEF Steps
<1>6. \A i \in 0 .. n : BoundUpTo(f[i], a.values, i)
  <2> DEFINE I == {i \in 0 .. n : BoundUpTo(f[i], a.values, i)}
  <2>1. 0 \in I
    BY <1>1, <1>2, <1>5 DEF Follows
  <2>2. ASSUME NEW i \in 1 .. n, i - 1 \in I PROVE i \in I
    <3>1. f[i] = step[i][f[i - 1]] /\ BoundUpTo(f[i - 1], a.values, i - 1) /\ f[i - 1] \in Starts
      BY <1>5, <2>2 DEF Follows, BoundUpTo
    <3>2. f[i] = BindNext(f[i - 1], i, a.values[i])
      BY <3>1
    <3> QED
      BY <1>1, <1>3, <3>1, <3>2
  <2> HIDE DEF I
  <2>3. 0 .. n \subseteq I
    BY <1>1, <2>1, <2>2, Induction
  <2> QED
    BY <2>3 DEF I
<1>7. \E g : Eq(g)
  <2> DEFINE g == [i \in 0 .. n |-> f[i]]
  <2>1. ASSUME NEW i \in 0 .. n
        PROVE  f[i] = IF i > 0 THEN BindNext(g[i - 1], i, a.values[i]) ELSE Cleared(a)
    <3>1. CASE i = 0
      BY <1>5, <3>1 DEF Follows
    <3>2. CASE i # 0
      <4>1. i \in 1 .. n /\ i - 1 \in 0 .. n /\ i > 0
        BY <1>1, <3>2
      <4>2. f[i] = step[i][f[i - 1]] /\ BoundUpTo(f[i - 1], a.values, i - 1) /\ f[i - 1] \in Starts
        BY <1>5, <1>6, <4>1 DEF Follows, BoundUpTo
      <4>3. f[i] = BindNext(f[i - 1], i, a.values[i])
        BY <4>1, <4>2
      <4> QED
        BY <4>1, <4>3
    <3> QED
      BY <3>1, <3>2
  <2>2. Eq(g)
    BY <2>1
  <2> QED
    BY <2>2
<1>8. StartQuery(a) = (CHOOSE g : Eq(g))[n]
  BY DEF StartQuery, Cleared
<1> DEFINE h == CHOOSE g : Eq(g)
<1>9. Eq(h)
  <2> HIDE DEF Eq
  <2> QED
    BY <1>7
<1>10. \A i \in 0 .. n : h[i] = IF i > 0 THEN BindNext(h[i - 1], i, a.values[i]) ELSE Cleared(a)
  <2> HIDE DEF h
  <2> QED
    BY <1>9
<1> HIDE DEF h
<1> DEFINE J == {i \in 0 .. n : BoundUpTo(h[i], a.values, i)}
<1>11. 0 \in J
  BY <1>1, <1>2, <1>10
<1>12. ASSUME NEW i \in 1 .. n, i - 1 \in J PROVE i \in J
  <2>1. h[i] = BindNext(h[i - 1], i, a.values[i]) /\ i \in 0 .. n
    BY <1>1, <1>10
  <2> QED
    BY <1>3, <1>12, <2>1
<1> HIDE DEF J
<1>13. 0 .. n \subseteq J
  BY <1>1, <1>11, <1>12, Induction
<1>14. n \in J
  BY <1>1, <1>13
<1> QED
  BY <1>8, <1>14 DEF J, h

-----------------------------------------------------------------------------
(* Rows and errors                                                         *)

AreBound(values, bound) ==
    /\ Len(values) <= Parameters
    /\ \A i \in 1 .. Len(values) : Bindable(values[i])
    /\ bound = Bindings(values, Len(values))

(* The inductive invariant: a query that was left alone is bound to the    *)
(* arguments of its run, all of them, and the connection still remembers   *)
(* the error of a step that was the last call.                             *)
RowsInv ==
    /\ TypeOK
    /\ given \in Seq(JsValues)
    /\ valid => AreBound(given, vm.bound)
    /\ ~since /\ status \in Codes => message = status
    /\ RowsAreReal /\ ErrorsAgree

LEMMA StartedTypes ==
  ASSUME TypeOK, IsStatement(vm), NEW a \in Arguments
  PROVE  LET s == StartQuery(a)
         IN  /\ DOMAIN Started(s).bound = 1 .. Parameters
             /\ s.message \in Messages /\ s.error \in {"none", "text", "range"}
             /\ s.error = "range" => s.message = "range"
             /\ s.error = "none" => AreBound(a.values, Started(s).bound)
             /\ a.values \in Seq(JsValues)
<1> DEFINE s == StartQuery(a)
<1>1. BoundUpTo(s, a.values, Len(a.values))
  BY StartQueryIs
<1>2. a.values \in Seq(JsValues)
  BY ArgumentsAssumption
<1> HIDE DEF s
<1>3. Started(s).bound = s.bound
  BY StartedIs
<1>4. s \in Starts
  BY <1>1 DEF BoundUpTo
<1>5. DOMAIN s.bound = 1 .. Parameters /\ s.message \in Messages /\ s.error \in {"none", "text", "range"}
  BY <1>4 DEF Starts
<1>6. s.error = "range" => s.message = "range"
  BY <1>1 DEF BoundUpTo
<1>7. s.error = "none" => AreBound(a.values, s.bound)
  BY <1>1 DEF BoundUpTo, AreBound
<1> QED
  BY <1>2, <1>3, <1>5, <1>6, <1>7 DEF s

LEMMA ThrowsIs ==
  /\ Nothing.kind = "none"
  /\ \A code, says : /\ Throws(code, says).kind = "throw" /\ Throws(code, says).code = code
                     /\ Throws(code, says).message = says
  /\ ThrowsText.code = "Unknown"
  BY DEF Nothing, Throws, ThrowsText

LEMMA RowIs ==
  ASSUME NEW values \in Seq(JsValues), NEW m, AreBound(values, m.bound), m.at = "row",
         NEW i \in 1 .. Parameters
  PROVE  Row(m)[i] = Read(IF i <= Len(values) THEN Bind(values[i]) ELSE Null)
  BY DEF Row, AreBound, Bindings

LEMMA StartFailsRows ==
  ASSUME RowsInv, KeysInv, NEW a \in Arguments, StartFails(a) \/ ExpandSql(a)
  PROVE  RowsInv'
<1> DEFINE s == StartQuery(a)
<1>1. /\ DOMAIN Started(s).bound = 1 .. Parameters
      /\ s.message \in Messages /\ s.error \in {"none", "text", "range"}
      /\ s.error = "range" => s.message = "range"
  BY StartedTypes DEF RowsInv, KeysInv
<1> HIDE DEF s
<1>2. Started(s).at = "start" /\ Started(s).names = vm.names /\ Started(s).row = 0
  BY StartedIs DEF KeysInv
<1>3. /\ vm' = Started(s) /\ message' = s.message /\ given' = <<>> /\ valid' = FALSE
      /\ since' = TRUE /\ UNCHANGED <<status, iterKv, rowKeys, schema, renamed>>
  BY DEF StartFails, ExpandSql, s
<1>4. \/ result' = ThrowsText
      \/ s.error = "range" /\ result' = Throws("range", s.message)
      \/ result' = Nothing
  <2>1. CASE StartFails(a)
    BY <1>1, <2>1 DEF StartFails, s
  <2>2. CASE ExpandSql(a)
    BY <2>2 DEF ExpandSql
  <2> QED
    BY <2>1, <2>2
<1>5. ErrorsAgree'
  BY <1>1, <1>4, ThrowsIs DEF ErrorsAgree
<1>6. TypeOK'
  <2>1. TypeOK
    BY DEF RowsInv
  <2>2. /\ DOMAIN vm'.bound = 1 .. Parameters /\ vm'.names \in Schemas
        /\ vm'.row \in 0 .. MaxRows /\ vm'.at = "start" /\ ~(vm'.row > 0)
    BY <1>1, <1>2, <1>3, <2>1 DEF TypeOK
  <2>3. /\ schema' \in Schemas /\ renamed' \in BOOLEAN /\ iterKv' \in BOOLEAN
        /\ rowKeys' \in Schemas \cup {NoKeys} /\ status' \in Statuses
    BY <1>3, <2>1 DEF TypeOK
  <2>4. message' \in Messages /\ {valid', since'} \subseteq BOOLEAN
    BY <1>1, <1>3
  <2> QED
    BY <2>2, <2>3, <2>4 DEF TypeOK, Messages, Statuses
<1> QED
  BY <1>3, <1>5, <1>6 DEF RowsInv, RowsAreReal

LEMMA OutcomeTypes ==
  ASSUME TypeOK, NEW m, m.row \in 0 .. MaxRows, NEW outcome \in Outcomes(m)
  PROVE  /\ outcome \in {"done", "row"} \cup Codes
         /\ LET row == IF outcome # "row" THEN 0 ELSE m.row + 1
            IN  row \in 0 .. MaxRows /\ (outcome = "row") = (row > 0)
<1>1. outcome \in {"done", "row"} \cup Codes /\ (outcome = "row" => m.row < MaxRows)
  BY DEF Outcomes
<1> QED
  BY <1>1

LEMMA IterRows ==
  ASSUME RowsInv, KeysInv, NEW a \in Arguments, Iter(a)
  PROVE  RowsInv'
<1> DEFINE s == StartQuery(a)
           m == Started(s)
<1>1. s.error = "none"
  BY DEF Iter
<1>2. DOMAIN m.bound = 1 .. Parameters /\ AreBound(a.values, m.bound) /\ a.values \in Seq(JsValues)
  BY <1>1, StartedTypes DEF RowsInv, KeysInv
<1> HIDE DEF s
<1>3. m.at = "start" /\ m.names = vm.names /\ m.row = 0 /\ IsStatement(m)
  BY StartedIs DEF KeysInv
<1> HIDE DEF m
<1>4. PICK outcome \in Outcomes(m), kv \in BOOLEAN :
         /\ vm' = Stepped(m, outcome) /\ status' = outcome /\ message' = Says(outcome)
         /\ IF outcome \in Codes
            THEN result' = Throws(outcome, Says(outcome)) /\ UNCHANGED iterKv
            ELSE result' = Nothing /\ iterKv' = kv
         /\ valid' = (outcome \notin Codes)
  BY DEF Iter, m, s
<1>5. /\ given' = a.values /\ since' = FALSE /\ UNCHANGED <<rowKeys, schema>>
      /\ renamed' \in BOOLEAN
  BY DEF Iter, Compiled, RowsInv, TypeOK
<1>6. TypeOK
  BY DEF RowsInv
<1>7. /\ outcome \in {"done", "row"} \cup Codes
      /\ LET row == IF outcome # "row" THEN 0 ELSE m.row + 1
         IN  row \in 0 .. MaxRows /\ (outcome = "row") = (row > 0)
  <2>1. m.row \in 0 .. MaxRows
    BY <1>3
  <2> QED
    BY <1>6, <2>1, OutcomeTypes
<1>8. /\ vm'.at = outcome /\ vm'.names = schema /\ vm'.bound = m.bound
      /\ vm'.row = IF outcome # "row" THEN 0 ELSE m.row + 1
  BY <1>3, <1>4, SteppedIs
<1>9. Says(outcome) = IF outcome \in Codes THEN outcome ELSE "ok"
  BY DEF Says
<1>10. TypeOK'
  <2>1. schema' \in Schemas /\ rowKeys' \in Schemas \cup {NoKeys} /\ renamed' \in BOOLEAN /\ since' \in BOOLEAN
    BY <1>5, <1>6 DEF TypeOK
  <2>2. DOMAIN vm'.bound = 1 .. Parameters /\ vm'.names \in Schemas
    BY <1>2, <1>6, <1>8 DEF TypeOK
  <2>3. status' \in Statuses /\ iterKv' \in BOOLEAN /\ valid' \in BOOLEAN /\ message' \in Messages
    BY <1>4, <1>6, <1>7, <1>9 DEF TypeOK, Statuses, Messages
  <2>4. vm'.row \in 0 .. MaxRows /\ (vm'.at = "row") = (vm'.row > 0) /\ vm'.at \in {"start", "row", "done"} \cup Codes
    BY <1>7, <1>8
  <2> QED
    BY <2>1, <2>2, <2>3, <2>4 DEF TypeOK, Messages
<1>11. ErrorsAgree' /\ RowsAreReal'
  <2>1. result'.kind # "row"
    BY <1>4, ThrowsIs
  <2>2. result'.kind = "throw" => result'.message = result'.code
    BY <1>4, <1>9, ThrowsIs
  <2> QED
    BY <2>1, <2>2 DEF ErrorsAgree, RowsAreReal
<1>12. status' \in Codes => message' = status'
  BY <1>4, <1>9
<1> QED
  BY <1>2, <1>5, <1>8, <1>10, <1>11, <1>12 DEF RowsInv

LEMMA NextRowRows ==
  ASSUME RowsInv, KeysInv, NextRow
  PROVE  RowsInv'
<1>1. PICK outcome \in Outcomes(vm) :
         /\ vm' = Stepped(vm, outcome) /\ status' = outcome /\ message' = Says(outcome)
         /\ result' = [Returns(vm, "row", FALSE) EXCEPT
                          !.keys = IF iterKv THEN Keys(vm'.names) ELSE NoKeys]
  BY DEF NextRow
<1>2. /\ rowKeys' = (IF iterKv THEN Keys(vm'.names) ELSE rowKeys)
      /\ status = "row" /\ since' = FALSE /\ UNCHANGED <<iterKv, schema, given, valid>>
      /\ renamed' \in BOOLEAN
  BY DEF NextRow, Compiled, RowsInv, TypeOK
<1>3. TypeOK
  BY DEF RowsInv
<1>4. /\ vm'.at = outcome /\ vm'.names \in Schemas /\ vm'.bound = vm.bound
      /\ vm'.row = IF outcome # "row" THEN 0 ELSE vm.row + 1
  BY <1>1, SteppedIs DEF KeysInv
<1>5. /\ outcome \in {"done", "row"} \cup Codes
      /\ LET row == IF outcome # "row" THEN 0 ELSE vm.row + 1
         IN  row \in 0 .. MaxRows /\ (outcome = "row") = (row > 0)
  <2>1. vm.row \in 0 .. MaxRows
    BY <1>3 DEF TypeOK
  <2> QED
    BY <1>3, <2>1, OutcomeTypes
<1>6. Says(outcome) = IF outcome \in Codes THEN outcome ELSE "ok"
  BY DEF Says
<1>7. TypeOK'
  <2>1. schema' \in Schemas /\ renamed' \in BOOLEAN /\ since' \in BOOLEAN /\ iterKv' \in BOOLEAN /\ valid' \in BOOLEAN
    BY <1>2, <1>3 DEF TypeOK
  <2>2. rowKeys' \in Schemas \cup {NoKeys}
    BY <1>2, <1>3, <1>4 DEF TypeOK, Keys
  <2>3. DOMAIN vm'.bound = 1 .. Parameters /\ vm'.names \in Schemas
    BY <1>3, <1>4 DEF TypeOK
  <2>4. status' \in Statuses /\ message' \in Messages
    BY <1>1, <1>5, <1>6 DEF Statuses, Messages
  <2>5. vm'.row \in 0 .. MaxRows /\ (vm'.at = "row") = (vm'.row > 0) /\ vm'.at \in {"start", "row", "done"} \cup Codes
    BY <1>4, <1>5
  <2> QED
    BY <2>1, <2>2, <2>3, <2>4, <2>5 DEF TypeOK, Messages
<1>8. result'.kind = "row" /\ result'.values = Row(vm)
  BY <1>1 DEF Returns, Nothing
<1>9. RowsAreReal'
  <2> SUFFICES ASSUME valid, NEW i \in 1 .. Parameters
               PROVE  Row(vm)[i] = Read(IF i <= Len(given) THEN Bind(given[i]) ELSE Null)
    BY <1>2, <1>8 DEF RowsAreReal, Returned
  <2>1. vm.at = "row" /\ AreBound(given, vm.bound) /\ given \in Seq(JsValues)
    BY <1>2 DEF RowsInv, KeysInv
  <2> QED
    BY <2>1, RowIs
<1>10. ErrorsAgree'
  BY <1>8 DEF ErrorsAgree
<1> QED
  BY <1>1, <1>2, <1>4, <1>6, <1>7, <1>9, <1>10 DEF RowsInv

LEMMA LoopRows ==
  ASSUME RowsInv, KeysInv, NEW a \in Arguments, Loop(a)
  PROVE  RowsInv'
<1> DEFINE s == StartQuery(a)
           m == Started(s)
           r == [m EXCEPT !.at = "row", !.row = 1, !.names = schema]
<1>1. s.error = "none"
  BY DEF Loop
<1>2. DOMAIN m.bound = 1 .. Parameters /\ AreBound(a.values, m.bound) /\ a.values \in Seq(JsValues)
  BY <1>1, StartedTypes DEF RowsInv, KeysInv
<1> HIDE DEF s
<1>3. m.at = "start" /\ m.names = vm.names /\ m.row = 0 /\ IsStatement(m)
  BY StartedIs DEF KeysInv
<1> HIDE DEF m
<1>4. PICK outcome \in {"done"} \cup Codes, some \in BOOLEAN, kv \in BOOLEAN :
         /\ status' = outcome /\ message' = Says(outcome)
         /\ vm' = Stepped(m, outcome)
         /\ result' = IF outcome \in Codes THEN Throws(outcome, Says(outcome))
                      ELSE IF some THEN Returns(r, "row", kv) ELSE Nothing
         /\ rowKeys' = IF kv /\ outcome = "done" /\ some THEN Keys(schema) ELSE rowKeys
  BY DEF Loop, m, s
<1>5. /\ given' = a.values /\ valid' = TRUE /\ since' = FALSE /\ UNCHANGED <<iterKv, schema>>
      /\ renamed' \in BOOLEAN
  BY DEF Loop, Compiled, RowsInv, TypeOK
<1>6. TypeOK
  BY DEF RowsInv
<1>7. r.at = "row" /\ r.bound = m.bound
  BY <1>3 DEF IsStatement, Fields
<1>8. vm'.at = outcome /\ vm'.names = schema /\ vm'.bound = m.bound /\ vm'.row = 0 /\ outcome # "row"
  BY <1>3, <1>4, SteppedIs, NoRowCode
<1>9. Says(outcome) = IF outcome \in Codes THEN outcome ELSE "ok"
  BY DEF Says
<1>10. TypeOK'
  <2>1. schema' \in Schemas /\ renamed' \in BOOLEAN /\ since' \in BOOLEAN /\ iterKv' \in BOOLEAN /\ valid' \in BOOLEAN
    BY <1>5, <1>6 DEF TypeOK
  <2>2. rowKeys' \in Schemas \cup {NoKeys}
    BY <1>4, <1>6 DEF TypeOK, Keys
  <2>3. DOMAIN vm'.bound = 1 .. Parameters /\ vm'.names \in Schemas
    BY <1>2, <1>6, <1>8 DEF TypeOK
  <2>4. status' \in Statuses /\ message' \in Messages
    BY <1>4, <1>9 DEF Statuses, Messages
  <2>5. vm'.row \in 0 .. MaxRows /\ (vm'.at = "row") = (vm'.row > 0) /\ vm'.at \in {"start", "row", "done"} \cup Codes
    BY <1>4, <1>8
  <2> QED
    BY <2>1, <2>2, <2>3, <2>4, <2>5 DEF TypeOK, Messages
<1> HIDE DEF r
<1>11. result'.kind = "row" => result'.values = Row(r)
  BY <1>4, ThrowsIs DEF Returns, Nothing
<1>12. RowsAreReal'
  <2> SUFFICES ASSUME NEW i \in 1 .. Parameters
               PROVE  Row(r)[i] = Read(IF i <= Len(a.values) THEN Bind(a.values[i]) ELSE Null)
    BY <1>5, <1>11 DEF RowsAreReal, Returned
  <2> QED
    BY <1>2, <1>7, RowIs
<1>13. ErrorsAgree'
  <2>1. result'.kind = "throw" => result'.message = result'.code
    BY <1>4, <1>9, ThrowsIs DEF Returns, Nothing
  <2> QED
    BY <2>1 DEF ErrorsAgree
<1> QED
  BY <1>2, <1>4, <1>5, <1>8, <1>9, <1>10, <1>12, <1>13 DEF RowsInv

LEMMA NextEndsRows ==
  ASSUME RowsInv, NextEnds
  PROVE  RowsInv'
<1>1. /\ status = "done" => result' = [Nothing EXCEPT !.kind = "done"]
      /\ status # "done" => status \in Codes /\ result' = Throws(status, message)
      /\ UNCHANGED <<status, iterKv, rowKeys, vm, schema, message, given, valid, renamed, since>>
  BY DEF NextEnds
<1>2. TypeOK'
  BY <1>1 DEF RowsInv, TypeOK
<1>3. result'.kind # "row"
  BY <1>1, ThrowsIs DEF Nothing
<1>4. ErrorsAgree'
  <2>1. CASE status = "done"
    <3>1. result'.kind = "done"
      BY <1>1, <2>1 DEF Nothing
    <3> QED
      BY <3>1 DEF ErrorsAgree
  <2>2. CASE status # "done"
    <3>1. /\ status \in Codes /\ status # "range"
          /\ result'.code = status /\ result'.message = message
      BY <1>1, <2>2, ThrowsIs
    <3>2. ~since => message = status
      BY <3>1 DEF RowsInv
    <3> QED
      BY <1>1, <3>1, <3>2 DEF ErrorsAgree
  <2> QED
    BY <2>1, <2>2
<1> QED
  BY <1>1, <1>2, <1>3, <1>4 DEF RowsInv, RowsAreReal

LEMMA OtherRows ==
  ASSUME RowsInv,
         \/ \E says \in Codes \cup {"ok"} : OtherCall(says)
         \/ \E names \in Schemas : Alter(names)
  PROVE  RowsInv'
<1>1. /\ message' \in Codes \cup {"ok"} /\ schema' \in Schemas /\ renamed' \in BOOLEAN
      /\ since' = TRUE /\ UNCHANGED <<status, iterKv, rowKeys, vm, result, given, valid>>
  BY DEF OtherCall, Alter, RowsInv, TypeOK
<1>2. TypeOK'
  BY <1>1 DEF RowsInv, TypeOK
<1>3. RowsAreReal'
  BY <1>1 DEF RowsInv, RowsAreReal, Returned
<1>4. ErrorsAgree'
  BY <1>1 DEF RowsInv, ErrorsAgree
<1> QED
  BY <1>1, <1>2, <1>3, <1>4 DEF RowsInv

LEMMA InitRows == Init => RowsInv
<1> SUFFICES ASSUME Init PROVE RowsInv
  OBVIOUS
<1>1. TypeOK
  <2>1. DOMAIN vm.bound = 1 .. Parameters /\ vm.names \in Schemas /\ vm.row = 0 /\ vm.at = "start"
    BY DEF Init, NoBindings
  <2>2. 0 \in 0 .. MaxRows /\ ~(0 > 0)
    OBVIOUS
  <2>3. /\ status = "Unknown" /\ iterKv = FALSE /\ rowKeys = NoKeys /\ schema \in Schemas
        /\ message = "ok" /\ valid = FALSE /\ renamed = FALSE /\ since = FALSE
    BY DEF Init
  <2>4. "Unknown" \in Statuses
    BY DEF Statuses
  <2>5. {valid, renamed, since} \subseteq BOOLEAN
    BY <2>3
  <2>6. vm.row \in 0 .. MaxRows /\ vm.at \in {"start", "row", "done"} \cup Codes
        /\ (vm.at = "row") = (vm.row > 0)
    BY <2>1, <2>2
  <2> QED
    BY <2>1, <2>3, <2>4, <2>5, <2>6 DEF TypeOK
<1>2. result.kind = "none" /\ given = <<>> /\ valid = FALSE /\ status = "Unknown"
  BY ThrowsIs DEF Init
<1> QED
  BY <1>1, <1>2 DEF RowsInv, RowsAreReal, ErrorsAgree

LEMMA NextRows == RowsInv /\ KeysInv /\ [Next]_vars => RowsInv'
<1> SUFFICES ASSUME RowsInv, KeysInv, [Next]_vars PROVE RowsInv'
  OBVIOUS
<1>1. CASE UNCHANGED vars
  BY <1>1 DEF vars, RowsInv, TypeOK, RowsAreReal, Returned, ErrorsAgree
<1> QED
  BY <1>1, StartFailsRows, IterRows, NextRowRows, LoopRows, NextEndsRows, OtherRows DEF Next

(* Types, and a statement that has no row has counted none                 *)
(* (query.ts:170-270, 319-335).                                            *)
THEOREM QueryTypes == Spec => []TypeOK
<1>1. RowsInv => TypeOK
  BY DEF RowsInv
<1> QED
  BY <1>1, InitKeys, NextKeys, InitRows, NextRows, PTL DEF Spec

(* A row shows the arguments of the run it belongs to, all of them and no  *)
(* others (query.ts:170-270, 272-317).                                     *)
THEOREM RowsShowArguments == Spec => []RowsAreReal
<1>1. RowsInv => RowsAreReal
  BY DEF RowsInv
<1> QED
  BY <1>1, InitKeys, NextKeys, InitRows, NextRows, PTL DEF Spec

(* The message of an error is that of its status (query.ts:425-441).       *)
THEOREM ErrorsSayTheirStatus == Spec => []ErrorsAgree
<1>1. RowsInv => ErrorsAgree
  BY DEF RowsInv
<1> QED
  BY <1>1, InitKeys, NextKeys, InitRows, NextRows, PTL DEF Spec

-----------------------------------------------------------------------------
(* Values on their way to SQLite and back                                  *)

LEMMA FaithfulStrings ==
  ASSUME NEW s \in Seq(CodePoints), Faithful(s)
  PROVE  SetStr(s) = s /\ GetStr(s) = CodeUnits(s)
<1>1. \A i \in 1 .. Len(s) : s[i] # 0 /\ ~Surrogate(s[i])
  BY DEF Faithful
<1>2. SetStr(s) = s
  <2>1. {i \in 1 .. Len(s) : s[i] = 0} = {}
    BY <1>1
  <2>2. SetStr(s) = [i \in 1 .. Len(s) |-> IF Surrogate(s[i]) THEN Replacement ELSE s[i]]
    BY <2>1 DEF SetStr
  <2>3. s = [i \in 1 .. Len(s) |-> s[i]]
    OBVIOUS
  <2> QED
    BY <1>1, <2>2, <2>3
<1>3. CASE Len(Bytes(s)) > ShortString
  <2>1. ~(s # <<>> /\ s[1] = ByteOrderMark)
    <3>1. Len(Bytes(s)) <= ShortString \/ s = <<>> \/ s[1] # ByteOrderMark
      BY DEF Faithful
    <3> DEFINE n == Len(Bytes(s))
    <3>2. n \in Nat
      <4> DEFINE ss == [i \in DOMAIN s |-> Utf8(s[i])]
      <4>1. ss \in Seq(Seq(Int))
        <5>1. DOMAIN s = 1 .. Len(s) /\ Len(s) \in Nat /\ \A i \in 1 .. Len(s) : s[i] \in CodePoints
          OBVIOUS
        <5> QED
          BY <5>1, EncodeOne
      <4> HIDE DEF ss
      <4>2. PICK f : Concatenations(ss, Int, f) /\ FlattenSeq(ss) = f[Len(ss)]
        BY <4>1, FlattenSeqIs
      <4>3. FlattenSeq(ss) \in Seq(Int)
        BY <4>2 DEF Concatenations
      <4> QED
        BY <4>3 DEF ss, Bytes
    <3> HIDE DEF n
    <3>3. ~(n <= ShortString)
      BY <1>3, <3>2, MarshallingAssumption DEF n
    <3> QED
      BY <3>1, <3>3 DEF n
  <2>2. TextDecoder(s) = CodeUnits(s)
    BY <2>1 DEF TextDecoder
  <2> QED
    BY <1>2, <1>3, <2>2 DEF GetStr
<1>4. CASE ~(Len(Bytes(s)) > ShortString)
  BY <1>2, <1>4, DecodedByHand DEF GetStr
<1> QED
  BY <1>3, <1>4

LEMMA JsValueIs ==
  ASSUME NEW v \in JsValues
  PROVE  /\ v = Value(v.type, v.data)
         /\ \/ v.type = "number" /\ v.data \in Seq(Int) /\ Len(v.data) <= 2
            \/ v.type = "boolean" /\ v.data \in {<<0>>, <<1>>}
            \/ v.type = "bigint" /\ v.data \in Seq(Int) /\ Len(v.data) = 1
            \/ v.type \in {"string", "Date"} /\ v.data \in Seq(CodePoints)
            \/ v.type = "Uint8Array" /\ v.data \in Seq(0 .. 255)
            \/ v.type \in {"null", "undefined", "object"} /\ v.data = <<>>
  BY DEF JsValues, Value

(* What is neither empty nor garbled comes back as the table says.         *)
LEMMA ComesBackIs ==
  ASSUME NEW v, NEW out, ~Vanishes(v), ~Garbled(v), v.type # "bigint",
         out.type \in TypesOut[v.type],
         out.data = IF v.type \in {"string", "Date"} THEN CodeUnits(v.data) ELSE v.data
  PROVE  ComesBack(v, out)
  BY DEF ComesBack, Documented

LEMMA NumbersReturn ==
  ASSUME NEW data \in Seq(Int), Len(data) <= 2
  PROVE  Read(BindNumber(data)) = IF data = <<>> THEN Value("null", <<>>) ELSE Value("number", data)
<1>1. CASE data = <<>>
  BY <1>1 DEF BindNumber, Null, Read, Value
<1>2. CASE data # <<>> /\ Len(data) = 1 /\ Safe(data[1])
  <2>1. BindNumber(data) = Value("INTEGER", data)
    BY <1>2 DEF BindNumber
  <2> QED
    BY <1>2, <2>1 DEF Read, Value
<1>3. CASE data # <<>> /\ ~(Len(data) = 1 /\ Safe(data[1]))
  <2>1. BindNumber(data) = Value("REAL", data)
    BY <1>3 DEF BindNumber
  <2> QED
    BY <1>3, <2>1 DEF Read, Value
<1> QED
  BY <1>1, <1>2, <1>3

(* Whatever a query can bind comes back as the table of query.ts:24-33     *)
(* says: integers of any size, strings of any length, by hand or not.      *)
(* Against the table, NaN and an array without bytes come back as null;    *)
(* strings with NULs or surrogates, or that lose a byte order mark, come   *)
(* back as other strings (query.ts:205-230, 272-317).                      *)
THEOREM ValuesReturn == \A v \in JsValues : Bindable(v) => ComesBack(v, Read(Bind(v)))
<1> SUFFICES ASSUME NEW v \in JsValues, Bindable(v) PROVE ComesBack(v, Read(Bind(v)))
  OBVIOUS
<1> DEFINE d == v.data
<1>0. v = Value(v.type, d)
  BY JsValueIs
<1>1. CASE v.type = "number" /\ v.data \in Seq(Int) /\ Len(v.data) <= 2
  <2>1. Read(Bind(v)) = IF d = <<>> THEN Value("null", <<>>) ELSE Value("number", d)
    BY <1>1, NumbersReturn DEF Bind
  <2>2. CASE d = <<>>
    BY <1>1, <2>1, <2>2 DEF ComesBack, Vanishes, Value
  <2>3. CASE d # <<>>
    <3>1. Read(Bind(v)).type \in TypesOut[v.type] /\ Read(Bind(v)).data = d
      BY <1>1, <2>1, <2>3 DEF TypesOut, Value
    <3> QED
      BY <1>1, <2>3, <3>1, ComesBackIs DEF Vanishes, Garbled
  <2> QED
    BY <2>2, <2>3
<1>2. CASE v.type = "boolean" /\ v.data \in {<<0>>, <<1>>}
  <2>1. Bind(v) = BindNumber(d)
    BY <1>2 DEF Bind
  <2>2. d \in Seq(Int) /\ Len(d) = 1 /\ d # <<>>
    <3> DEFINE e == d
    <3>1. e = <<0>> \/ e = <<1>>
      BY <1>2
    <3> HIDE DEF e
    <3>2. e \in Seq(Int)
      <4>1. <<0>> \in Seq(Int) /\ <<1>> \in Seq(Int)
        OBVIOUS
      <4> QED
        BY <3>1, <4>1, Zenon
    <3>3. Len(e) = 1
      BY <3>1
    <3>4. e # <<>>
      BY <3>3
    <3> QED
      BY <3>2, <3>3, <3>4 DEF e
  <2>3. Read(Bind(v)) = Value("number", d)
    <3> DEFINE e == d
    <3>1. e \in Seq(Int) /\ Len(e) <= 2 /\ e # <<>>
      BY <2>2
    <3> HIDE DEF e
    <3>2. Read(BindNumber(e)) = Value("number", e)
      BY <3>1, NumbersReturn
    <3> QED
      BY <2>1, <3>2 DEF e
  <2>4. Read(Bind(v)).type \in TypesOut[v.type] /\ Read(Bind(v)).data = d
    BY <1>2, <2>3 DEF TypesOut, Value
  <2> QED
    BY <1>2, <2>4, ComesBackIs DEF Vanishes, Garbled
<1>3. CASE v.type = "bigint" /\ v.data \in Seq(Int) /\ Len(v.data) = 1
  <2> DEFINE n == d[1]
  <2>1. n \in Int /\ d = <<n>> /\ Fits(n)
    <3>1. n \in Int /\ d = <<n>>
      BY <1>3
    <3>2. Fits(n)
      BY <1>3 DEF Bindable
    <3> QED
      BY <3>1, <3>2
  <2> HIDE DEF n
  <2>2. v = Value("bigint", <<n>>)
    BY <1>0, <1>3, <2>1
  <2>3. Read(Bind(v)) = Value(IF Safe(n) THEN "number" ELSE "bigint", <<n>>)
    BY <2>1, <2>2, IntegersRoundTrip
  <2>4. Documented(v, Value(IF Safe(n) THEN "number" ELSE "bigint", <<n>>))
    <3>1. v.type = "bigint" /\ v.data = <<n>> /\ v.data[1] = n
      BY <1>3, <2>1
    <3>2. TypesOut["bigint"] = {"number", "bigint"}
      BY DEF TypesOut
    <3> QED
      BY <3>1, <3>2 DEF Documented, Value
  <2> QED
    BY <1>3, <2>3, <2>4 DEF ComesBack, Vanishes, Garbled
<1>4. CASE v.type \in {"string", "Date"} /\ v.data \in Seq(CodePoints)
  <2>1. Read(Bind(v)) = Value("string", GetStr(SetStr(d)))
    BY <1>4 DEF Bind, Read, Value
  <2>2. CASE Faithful(d)
    <3>1. GetStr(SetStr(d)) = CodeUnits(d)
      BY <1>4, <2>2, FaithfulStrings
    <3>2. Read(Bind(v)).type \in TypesOut[v.type] /\ Read(Bind(v)).data = CodeUnits(d)
      BY <1>4, <2>1, <3>1 DEF TypesOut, Value
    <3> QED
      BY <1>4, <2>2, <3>2, ComesBackIs DEF Vanishes, Garbled
  <2>3. CASE ~Faithful(d)
    BY <1>4, <2>1, <2>3 DEF ComesBack, Vanishes, Garbled, Value
  <2> QED
    BY <2>2, <2>3
<1>5. CASE v.type = "Uint8Array" /\ v.data \in Seq(0 .. 255)
  <2>1. Bind(v) = Value("BLOB", d)
    BY <1>5 DEF Bind
  <2>2. CASE d = <<>>
    BY <1>5, <2>1, <2>2 DEF Read, Value, ComesBack, Vanishes
  <2>3. CASE d # <<>>
    <3>1. Read(Bind(v)) = v
      BY <1>0, <1>5, <2>1, <2>3 DEF Read, Value
    <3>2. v.type \in TypesOut[v.type]
      BY <1>5 DEF TypesOut
    <3> QED
      BY <1>5, <2>3, <3>1, <3>2, ComesBackIs DEF Vanishes, Garbled
  <2> QED
    BY <2>2, <2>3
<1>6. CASE v.type \in {"null", "undefined", "object"} /\ v.data = <<>>
  <2>1. v.type # "object"
    BY DEF Bindable
  <2>2. Read(Bind(v)) = Value("null", <<>>)
    BY <1>6, <2>1 DEF Bind, Null, Read, Value
  <2>3. Read(Bind(v)).type \in TypesOut[v.type] /\ Read(Bind(v)).data = d
    BY <1>6, <2>1, <2>2 DEF Value, TypesOut
  <2> QED
    BY <1>6, <2>3, ComesBackIs DEF Vanishes, Garbled
<1> QED
  BY <1>1, <1>2, <1>3, <1>4, <1>5, <1>6, JsValueIs

(* So do the values of every row (query.ts:24-33).                         *)
THEOREM RowsRoundTrip == Spec => []RoundTrip
<1>1. RowsInv => RoundTrip
  <2> SUFFICES ASSUME RowsInv, result.kind = "row", valid, NEW i \in 1 .. Len(given)
               PROVE  ComesBack(given[i], Returned(i))
    BY DEF RoundTrip
  <2>1. given[i] \in JsValues /\ Bindable(given[i]) /\ Len(given) <= Parameters /\ Len(given) \in Nat
    BY DEF RowsInv, AreBound
  <2>2. i \in 1 .. Parameters /\ i <= Len(given)
    BY <2>1
  <2>3. Returned(i) = Read(Bind(given[i]))
    BY <2>2 DEF RowsInv, RowsAreReal
  <2> QED
    BY <2>1, <2>3, ValuesReturn
<1> QED
  BY <1>1, InitKeys, NextKeys, InitRows, NextRows, PTL DEF Spec

=============================================================================
