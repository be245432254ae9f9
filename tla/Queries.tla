------------------------------- MODULE Queries -------------------------------
(***************************************************************************)
(* One PreparedQuery of src/query.ts in detail: how parameters become      *)
(* bindings and rows become values, which keys the entries get, and what   *)
(* an error says.  Statements models the life of many queries; here the    *)
(* other calls on the connection only change the schema and the error      *)
(* that the connection remembers, and none is made from a callback.        *)
(*                                                                         *)
(* The query is SELECT ?1, ..., ?n over a table of the schema: its rows    *)
(* show its bindings, its column names are those the schema had when the   *)
(* statement was compiled.                                                 *)
(***************************************************************************)
EXTENDS Marshalling

CONSTANTS
    Arguments,      \* what is passed to a run: [known, values]; known is FALSE
                    \* if it has a name that the query has not
    Parameters,     \* number of parameters of the query
    Schemas,        \* the column names of the query, one per schema
    NoKeys,         \* #rowKeys is undefined
    Codes,          \* statuses of a sqlite3_step that fails
    MaxRows         \* bound: rows of a result

ASSUME ArgumentsAssumption ==
    \A a \in Arguments : a.known \in BOOLEAN /\ a.values \in Seq(JsValues)

ASSUME QueryAssumption ==
    /\ Parameters \in Nat /\ MaxRows \in Nat
    /\ {"ok", "range", "Unknown", "row", "done"} \cap Codes = {}
    /\ NoKeys \notin Schemas

VARIABLES
    status,     \* #status: "Unknown", "row", "done" or one of Codes
    iterKv,     \* #iterKv
    rowKeys,    \* #rowKeys
    vm,         \* the statement: its bindings, its column names, the number of
                \* its row, and "at": "start", "row", "done" or one of Codes
    schema,     \* the column names that a statement compiled now would have
    message,    \* the error the connection remembers, or "ok"
    result,     \* what the last call on the query returned or threw
    given,      \* history: the arguments of the last run
    valid,      \* history: the last run started, and nothing else was done with
                \* the query but next()
    renamed,    \* history: the statement was compiled with other column names
                \* after #rowKeys was computed
    since       \* history: a call without a step of the query's since its last step

vars == <<status, iterKv, rowKeys, vm, schema, message, result, given, valid, renamed, since>>

Nothing == [kind |-> "none", values |-> <<>>, keys |-> NoKeys, names |-> NoKeys,
            code |-> "ok", message |-> "ok"]
Throws(code, says) == [Nothing EXCEPT !.kind = "throw", !.code = code, !.message = says]
ThrowsText == Throws("Unknown", "text")

NoBindings == [i \in 1 .. Parameters |-> Null]

Init ==
    /\ status = "Unknown" /\ iterKv = FALSE /\ rowKeys = NoKeys
    /\ schema \in Schemas
    /\ vm = [bound |-> NoBindings, names |-> schema, row |-> 0, at |-> "start"]
    /\ message = "ok" /\ result = Nothing
    /\ given = <<>> /\ valid = FALSE /\ renamed = FALSE /\ since = FALSE

(***************************************************************************)
(* #startQuery: reset, clear_bindings, and bind_... until one fails        *)
(***************************************************************************)
\* sqlite3_reset reports the failure of the last run once more.
Reset == [bound |-> NoBindings, error |-> "none",
          message |-> IF vm.at \in Codes THEN vm.at ELSE "ok"]

\* Slip: the bindings of the last run are kept.
ResetOnly == [Reset EXCEPT !.bound = vm.bound]

ClearBindings == Reset

BindNext(s, i, v) ==
    IF s.error # "none" THEN s
    ELSE IF ~Bindable(v) THEN [s EXCEPT !.error = "text"]
    ELSE IF i > Parameters THEN [s EXCEPT !.error = "range", !.message = "range"]
    ELSE [s EXCEPT !.bound[i] = Bind(v), !.message = "ok"]

StartQuery(a) ==
    LET upTo[i \in 0 .. Len(a.values)] ==
            IF i > 0 THEN BindNext(upTo[i - 1], i, a.values[i])
            ELSE IF a.known THEN ClearBindings ELSE [ClearBindings EXCEPT !.error = "text"]
    IN upTo[Len(a.values)]

Started(s) == [vm EXCEPT !.bound = s.bound, !.row = 0, !.at = "start"]

\* The run does not start; #status stays what it was.
StartFails(a) ==
    LET s == StartQuery(a)
    IN /\ s.error # "none"
       /\ vm' = Started(s) /\ message' = s.message
       /\ result' = IF s.error = "text" THEN ThrowsText ELSE Throws("range", s.message)
       /\ given' = <<>> /\ valid' = FALSE /\ since' = TRUE
       /\ UNCHANGED <<status, iterKv, rowKeys, schema, renamed>>

(***************************************************************************)
(* sqlite3_step                                                            *)
(***************************************************************************)
\* Slip: the count goes on at the end.
SteppedOn(m, outcome) == [m EXCEPT !.at = outcome, !.row = @ + 1]

\* A statement that starts is compiled again if the schema has changed.
Stepped(m, outcome) ==
    [m EXCEPT !.at = outcome,
              !.names = IF m.at = "row" THEN @ ELSE schema,
              !.row = IF outcome # "row" THEN 0 ELSE @ + 1]

Compiled == renamed' = (renamed \/ (rowKeys # NoKeys /\ vm'.names # vm.names))

Outcomes(m) == {"done"} \cup Codes \cup (IF m.row < MaxRows THEN {"row"} ELSE {})

\* Slip: a failed statement is reset at once.
SaysNothing(outcome) == "ok"

Says(outcome) == IF outcome \in Codes THEN outcome ELSE "ok"

\* #getQueryRow: outside of a row, SQLite's columns are NULL.
Row(m) == [i \in 1 .. Parameters |-> Read(IF m.at = "row" THEN m.bound[i] ELSE Null)]

\* Slip: the names are those before the run.
KeysBefore(names) == IF rowKeys = NoKeys THEN vm.names ELSE rowKeys

\* #makeRowObject computes the keys once.
Keys(names) == IF rowKeys = NoKeys THEN names ELSE rowKeys

Returns(m, kind, kv) ==
    [Nothing EXCEPT !.kind = kind, !.values = Row(m), !.names = m.names,
                    !.keys = IF kv THEN Keys(m.names) ELSE NoKeys]

(***************************************************************************)
(* The methods                                                             *)
(***************************************************************************)
\* iter, and with kv iterEntries
Iter(a) ==
    LET s == StartQuery(a)
    IN /\ s.error = "none"
       /\ \E outcome \in Outcomes(Started(s)), kv \in BOOLEAN :
             /\ vm' = Stepped(Started(s), outcome)
             /\ status' = outcome /\ message' = Says(outcome)
             /\ IF outcome \in Codes
                THEN result' = Throws(outcome, Says(outcome)) /\ UNCHANGED iterKv
                ELSE result' = Nothing /\ iterKv' = kv
             /\ valid' = (outcome \notin Codes)
       /\ given' = a.values /\ since' = FALSE /\ Compiled
       /\ UNCHANGED <<rowKeys, schema>>

\* next(), at a row: reads it, steps, and then makes the entry
NextRow ==
    /\ status = "row"
    /\ \E outcome \in Outcomes(vm) :
          /\ vm' = Stepped(vm, outcome)
          /\ status' = outcome /\ message' = Says(outcome)
          /\ result' = [Returns(vm, "row", FALSE) EXCEPT
                           !.keys = IF iterKv THEN Keys(vm'.names) ELSE NoKeys]
    /\ rowKeys' = IF iterKv THEN Keys(vm'.names) ELSE rowKeys
    /\ since' = FALSE /\ Compiled
    /\ UNCHANGED <<iterKv, schema, given, valid>>

\* next(), at the end or after a step that failed: the message is read now
NextEnds ==
    /\ status \in {"done"} \cup Codes
    /\ result' = IF status = "done" THEN [Nothing EXCEPT !.kind = "done"]
                 ELSE Throws(status, message)
    /\ UNCHANGED <<status, iterKv, rowKeys, vm, schema, message, given, valid, renamed, since>>

\* all, first, one and execute, and with kv their entries: every row is stepped
\* over.  The rows are alike; "some" of them is returned unless there is none
\* or the method is execute.  (one throws at another number of rows.)
Loop(a) ==
    LET s == StartQuery(a)
        m == [Started(s) EXCEPT !.at = "row", !.row = 1, !.names = schema]
    IN /\ s.error = "none"
       /\ \E outcome \in {"done"} \cup Codes, some \in BOOLEAN, kv \in BOOLEAN :
             /\ status' = outcome /\ message' = Says(outcome)
             /\ vm' = Stepped(Started(s), outcome)
             /\ result' = IF outcome \in Codes THEN Throws(outcome, Says(outcome))
                          ELSE IF some THEN Returns(m, "row", kv) ELSE Nothing
             /\ rowKeys' = IF kv /\ outcome = "done" /\ some THEN Keys(schema) ELSE rowKeys
       /\ given' = a.values /\ valid' = TRUE /\ since' = FALSE /\ Compiled
       /\ UNCHANGED <<iterKv, schema>>

\* expandSql binds as a run does, but it does not step.
ExpandSql(a) ==
    LET s == StartQuery(a)
    IN /\ s.error = "none"
       /\ vm' = Started(s) /\ message' = s.message
       /\ result' = Nothing
       /\ given' = <<>> /\ valid' = FALSE /\ since' = TRUE
       /\ UNCHANGED <<status, iterKv, rowKeys, schema, renamed>>

(***************************************************************************)
(* Other calls on the connection                                           *)
(***************************************************************************)
OtherCall(says) ==
    /\ message' = says
    /\ since' = TRUE
    /\ UNCHANGED <<status, iterKv, rowKeys, vm, schema, result, given, valid, renamed>>

\* ALTER TABLE ADD or RENAME COLUMN, also while a row is being read: the
\* program that runs goes on as it was compiled.
Alter(names) ==
    /\ names # schema
    /\ schema' = names
    /\ message' = "ok" /\ since' = TRUE
    /\ UNCHANGED <<status, iterKv, rowKeys, vm, result, given, valid, renamed>>

Next ==
    \/ \E a \in Arguments : StartFails(a) \/ ExpandSql(a) \/ Iter(a) \/ Loop(a)
    \/ NextRow \/ NextEnds
    \/ \E says \in Codes \cup {"ok"} : OtherCall(says)
    \/ \E names \in Schemas : Alter(names)

Spec == Init /\ [][Next]_vars

(***************************************************************************)
(* Properties                                                              *)
(***************************************************************************)
Statuses == {"Unknown", "row", "done"} \cup Codes

\* Types.  A statement that has no row has counted none.
TypeOK ==
    /\ status \in Statuses /\ iterKv \in BOOLEAN
    /\ rowKeys \in Schemas \cup {NoKeys} /\ schema \in Schemas
    /\ DOMAIN vm.bound = 1 .. Parameters /\ vm.names \in Schemas
    /\ vm.row \in 0 .. MaxRows /\ vm.at \in {"start", "row", "done"} \cup Codes
    /\ (vm.at = "row") = (vm.row > 0)
    /\ message \in {"ok", "range"} \cup Codes
    /\ {valid, renamed, since} \subseteq BOOLEAN

Returned(i) == result.values[i]

\* A row shows the arguments of the run it belongs to, and NULL for each
\* parameter that was not given: no binding of an earlier run, or of one
\* that failed half way, is left over (query.ts:171-172).  Except after expandSql
\* or a run that could not bind, which end a running iterator without saying
\* so: its next row is then all null (query.ts:703).
RowsAreReal ==
    result.kind = "row" /\ valid =>
        \A i \in 1 .. Parameters :
            Returned(i) = Read(IF i <= Len(given) THEN Bind(given[i]) ELSE Null)

Faithful(s) ==
    /\ \A i \in 1 .. Len(s) : s[i] # 0 /\ ~Surrogate(s[i])
    /\ Len(Bytes(s)) <= ShortString \/ s = <<>> \/ s[1] # ByteOrderMark

\* The table of query.ts:24-33, by the type that goes in
TypesOut ==
    [number |-> {"number"}, bigint |-> {"number", "bigint"}, boolean |-> {"number"},
     string |-> {"string"}, Date |-> {"string"}, Uint8Array |-> {"Uint8Array"},
     null |-> {"null"}, undefined |-> {"null"}]

\* The same value comes out, in a type of the table; a bigint as a number if
\* that is safe (query.ts:41-43).
Documented(v, out) ==
    /\ out.type \in TypesOut[v.type]
    /\ v.type = "bigint" => (out.type = "number" <=> Safe(v.data[1]))
    /\ out.data = IF v.type \in {"string", "Date"} THEN CodeUnits(v.data) ELSE v.data

\* Against the table: NaN and an array without bytes
Vanishes(v) == v.type \in {"number", "Uint8Array"} /\ v.data = <<>>

\* Strings that do not come back whole: they end at a NUL, lone surrogates are
\* replaced, and a byte order mark is lost from more than 16 bytes.
Garbled(v) == v.type \in {"string", "Date"} /\ ~Faithful(v.data)

\* What comes back instead of them, and what the table says of all others
ComesBack(v, out) ==
    IF Vanishes(v) THEN out.type = "null"
    ELSE IF Garbled(v) THEN out.type = "string"
    ELSE Documented(v, out)

\* Values survive the way to SQLite and back as the table says, at every edge of
\* the integers and of UTF-8, in strings decoded by hand and by TextDecoder
\* alike; but NaN and an array without bytes come back as null
\* (query.ts:205-230, 272-317).
RoundTrip ==
    result.kind = "row" /\ valid =>
        \A i \in 1 .. Len(given) : ComesBack(given[i], Returned(i))

\* What query.ts:24-33 says without exception: the type of what comes out.
TypesAreDocumented ==
    result.kind = "row" /\ valid =>
        \A i \in 1 .. Len(given) : Returned(i).type \in TypesOut[given[i].type]

\* Entries are made with the names of the columns their row has, whenever the
\* schema changes and whichever run made the first entry, unless the statement
\* was compiled with other names after that (query.ts:320).
KeysAgree ==
    result.kind = "row" /\ valid /\ result.keys # NoKeys /\ ~renamed =>
        result.keys = result.names

\* The message of an error is that of its status, unless another call was made
\* between the step that failed and the next() that throws (query.ts:436).
ErrorsAgree ==
    result.kind = "throw" /\ result.code # "Unknown" /\ (since => result.code = "range") =>
        result.message = result.code
==============================================================================
