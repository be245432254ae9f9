----------------------------- MODULE Marshalling -----------------------------
(***************************************************************************)
(* Values on their way from JavaScript to SQLite and back: the binding of  *)
(* parameters and the reading of columns in src/query.ts (function.ts does *)
(* the same for results and arguments of functions), setStr and getStr of  *)
(* src/wasm.ts, and bind_big_int and column_type of build/src/wrapper.c.   *)
(*                                                                         *)
(* A JavaScript value is [type, data]: data is <<n>> for a bigint, boolean *)
(* or integer number, <<p, q>> for a number that is a fraction, <<>> for   *)
(* NaN, the code points of a string, the bytes of an array, and otherwise  *)
(* <<>>.  SQLite's values have the same form; a TEXT is valid UTF-8, given *)
(* by its code points.                                                     *)
(***************************************************************************)
EXTENDS Integers, Sequences, SequencesExt

CONSTANTS
    Half,           \* 2^32: an SQLite integer has two halves
    MaxSafe,        \* Number.MAX_SAFE_INTEGER and JS_MAX_SAFE_INTEGER
    ShortString     \* 16: longer strings are decoded by TextDecoder

ASSUME MarshallingAssumption ==
    /\ Half \in Nat /\ Half > 0 /\ Half % 2 = 0
    /\ MaxSafe \in Nat /\ ShortString \in Nat

Value(type, data) == [type |-> type, data |-> data]
Null == Value("NULL", <<>>)

LastCodePoint == 1114111
CodePoints == 0 .. LastCodePoint

\* QueryParameter, and "object" for what is none
JsValues ==
    [type : {"number"}, data : {d \in Seq(Int) : Len(d) <= 2}]
    \cup [type : {"boolean"}, data : {<<0>>, <<1>>}]
    \cup [type : {"bigint"}, data : {d \in Seq(Int) : Len(d) = 1}]
    \cup [type : {"string", "Date"}, data : Seq(CodePoints)]
    \cup [type : {"Uint8Array"}, data : Seq(0 .. 255)]
    \cup [type : {"null", "undefined", "object"}, data : {<<>>}]

(***************************************************************************)
(* Integers                                                                *)
(***************************************************************************)
Limit == Half * (Half \div 2)       \* 2^63
Int64(x) == ((x + Limit) % (2 * Limit)) - Limit
Fits(n) == -Limit <= n /\ n < Limit
Safe(n) == -MaxSafe <= n /\ n <= MaxSafe

\* Slip: the sign is not taken off first; >> rounds down.
SplitSigned(n) ==
    [sign |-> IF n >= 0 THEN 1 ELSE -1, upper |-> (n \div Half) % Half, lower |-> n % Half]

\* BigInt.asUintN(32, ...) of both halves
Split(n) ==
    LET posVal == IF n >= 0 THEN n ELSE -n
    IN [sign |-> IF n >= 0 THEN 1 ELSE -1,
        upper |-> (posVal \div Half) % Half, lower |-> posVal % Half]

\* bind_big_int; WebAssembly's integers wrap around.
Join(s) == Int64(Int64(s.lower + Int64(s.upper * Half)) * s.sign)

(***************************************************************************)
(* Strings                                                                 *)
(***************************************************************************)
Surrogate(c) == 55296 <= c /\ c < 57344
Replacement == 65533

\* External: TextEncoder
Tail6(c) == 128 + (c % 64)
Utf8(c) ==
    IF c < 128 THEN <<c>>
    ELSE IF c < 2048 THEN <<192 + c \div 64, Tail6(c)>>
    ELSE IF c < 65536
         THEN <<224 + c \div 4096, Tail6(c \div 64), Tail6(c)>>
         ELSE <<240 + c \div 262144, Tail6(c \div 4096), Tail6(c \div 64), Tail6(c)>>

\* String.fromCharCode of a code point's one or two code units
Utf16(c) ==
    IF c < 65536 THEN <<c>>
    ELSE <<55296 + (c - 65536) \div 1024, 56320 + ((c - 65536) % 1024)>>

Bytes(s) == FlattenSeq([i \in DOMAIN s |-> Utf8(s[i])])
CodeUnits(s) == FlattenSeq([i \in DOMAIN s |-> Utf16(s[i])])

\* setStr, and SQLite, which takes the length up to the first NUL
SetStr(s) ==
    LET nul == {i \in 1 .. Len(s) : s[i] = 0}
        end == IF nul = {} THEN Len(s) ELSE (CHOOSE i \in nul : \A j \in nul : i <= j) - 1
    IN [i \in 1 .. end |-> IF Surrogate(s[i]) THEN Replacement ELSE s[i]]

Units(u) == IF u < 65536 THEN <<u>>
            ELSE <<55296 + (u - 65536) \div 1024, 56320 + ((u - 65536) % 1024)>>

\* getStr's arithmetic on the bytes from index i on
Low(b, i) == b[i] % 64
TwoBytes(b, i) == (b[i] % 32) * 64 + Low(b, i + 1)
ThreeBytes(b, i) == (b[i] % 16) * 4096 + Low(b, i + 1) * 64 + Low(b, i + 2)
FourBytes(b, i) ==
    (b[i] % 8) * 262144 + Low(b, i + 1) * 4096 + Low(b, i + 2) * 64 + Low(b, i + 3)

\* The loop of getStr over the bytes of a short string, from index i on
ByHand(b) ==
    LET from[i \in 1 .. Len(b) + 4] ==
            IF i > Len(b) THEN <<>>
            ELSE IF b[i] < 128 THEN <<b[i]>> \o from[i + 1]
            ELSE IF b[i] \div 32 = 6 THEN <<TwoBytes(b, i)>> \o from[i + 2]
            ELSE IF b[i] \div 16 = 14 THEN Units(ThreeBytes(b, i)) \o from[i + 3]
            ELSE Units(FourBytes(b, i)) \o from[i + 4]
    IN from[1]

\* TextDecoder (external) drops a byte order mark.
ByteOrderMark == 65279
TextDecoder(s) ==
    CodeUnits(IF s # <<>> /\ s[1] = ByteOrderMark THEN Tail(s) ELSE s)

GetStr(s) ==
    LET bytes == Bytes(s)
    IN IF Len(bytes) > ShortString THEN TextDecoder(s) ELSE ByHand(bytes)

(***************************************************************************)
(* Values                                                                  *)
(***************************************************************************)
\* The types that #startQuery binds
Bindable(v) ==
    /\ v.type \in {"number", "bigint", "boolean", "string", "Date",
                   "Uint8Array", "null", "undefined"}
    /\ v.type = "bigint" => Fits(v.data[1])

\* Unsafe integers are bound as REAL; SQLite makes a NULL of NaN.
BindNumber(data) ==
    IF data = <<>> THEN Null
    ELSE Value(IF Len(data) = 1 /\ Safe(data[1]) THEN "INTEGER" ELSE "REAL", data)

Bind(v) ==
    CASE v.type \in {"number", "boolean"} -> BindNumber(v.data)
      [] v.type = "bigint" -> Value("INTEGER", <<Join(Split(v.data[1]))>>)
      [] v.type \in {"string", "Date"} -> Value("TEXT", SetStr(v.data))
      [] v.type = "Uint8Array" -> Value("BLOB", v.data)
      [] v.type \in {"null", "undefined"} -> Null

\* column_type and #getQueryRow; sqlite3_column_blob of no bytes is 0.
Read(v) ==
    CASE v.type = "INTEGER" ->
             Value(IF Safe(v.data[1]) THEN "number" ELSE "bigint", v.data)
      [] v.type = "REAL" -> Value("number", v.data)
      [] v.type = "TEXT" -> Value("string", GetStr(v.data))
      [] v.type = "BLOB" -> IF v.data = <<>> THEN Value("null", <<>>)
                            ELSE Value("Uint8Array", v.data)
      [] v.type = "NULL" -> Value("null", <<>>)
==============================================================================
