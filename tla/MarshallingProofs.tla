-------------------------- MODULE MarshallingProofs --------------------------
(***************************************************************************)
(* Proofs about Marshalling: integers, for halves of any size, and strings *)
(* of any length.                                                          *)
(***************************************************************************)
EXTENDS Marshalling, SequenceTheorems, BoundedInduction, TLAPS

USE MarshallingAssumption

-----------------------------------------------------------------------------
(* Division                                                                *)

LEMMA Division ==
  ASSUME NEW m \in Nat \ {0}, NEW x \in Nat
  PROVE  /\ x \div m \in Nat /\ x % m \in 0 .. m - 1
         /\ x = m * (x \div m) + (x % m)
<1>1. x \div m \in Nat /\ x % m \in 0 .. m - 1
  OBVIOUS
<1>2. x % m = x - m * (x \div m)
  OBVIOUS
<1> DEFINE d == m * (x \div m)
<1>3. d \in Int
  BY <1>1
<1> QED
  BY <1>1, <1>2, <1>3

LEMMA SmallModulus ==
  ASSUME NEW m \in Nat \ {0}, NEW x \in 0 .. m - 1
  PROVE  x % m = x
  OBVIOUS

-----------------------------------------------------------------------------
(* Integers of two halves                                                  *)

LEMMA Limits ==
  /\ Half \div 2 \in Nat \ {0} /\ Half \div 2 < Half
  /\ 2 * (Half \div 2) = Half
  /\ Limit \in Nat \ {0} /\ Limit = Half * (Half \div 2)
<1>1. Half \div 2 \in Nat \ {0} /\ Half \div 2 < Half /\ 2 * (Half \div 2) = Half
  OBVIOUS
<1> DEFINE h == Half \div 2
<1>2. h \in Nat \ {0} /\ Half \in Nat \ {0}
  BY <1>1
<1> HIDE DEF h
<1>3. Half * h \in Nat \ {0}
  BY <1>2
<1> QED
  BY <1>1, <1>3 DEF Limit, h

LEMMA InRange ==
  ASSUME NEW x \in Int, Fits(x)
  PROVE  Int64(x) = x
<1> DEFINE m == 2 * Limit
<1>1. Limit \in Nat \ {0}
  BY Limits
<1> HIDE DEF Limit
<1>2. m \in Nat \ {0} /\ x + Limit \in 0 .. m - 1
  BY <1>1 DEF Fits
<1>3. (x + Limit) % m = x + Limit
  BY <1>2, SmallModulus
<1> QED
  BY <1>1, <1>3 DEF Int64

LEMMA WrapsAround == Int64(Limit) = -Limit
<1> DEFINE m == 2 * Limit
<1>1. Limit \in Nat \ {0}
  BY Limits
<1> HIDE DEF Limit
<1>2. m \in Nat \ {0} /\ Limit + Limit = m
  BY <1>1
<1>3. m % m = 0
  BY <1>2
<1> QED
  BY <1>1, <1>2, <1>3 DEF Int64

(* The upper half of 2^63 fits as well.                                    *)
LEMMA Halves ==
  ASSUME NEW p \in Nat, p <= Limit
  PROVE  /\ (p \div Half) % Half = p \div Half
         /\ p \div Half \in Nat /\ p % Half \in Nat
         /\ p = (p \div Half) * Half + (p % Half)
         /\ (p \div Half) * Half <= Limit
         /\ (p \div Half) * Half = Limit => p % Half = 0
<1> DEFINE h == Half \div 2
           u == p \div Half
           l == p % Half
<1>1. h \in Nat \ {0} /\ h < Half /\ Limit = Half * h /\ Limit \in Nat /\ Half \in Nat \ {0}
  BY Limits
<1>2. u \in Nat /\ l \in 0 .. Half - 1 /\ p = Half * u + l
  BY <1>1, Division
<1> HIDE DEF h, u, l, Limit
<1>3. u <= h
  <2> SUFFICES ASSUME u >= h + 1 PROVE FALSE
    BY <1>1, <1>2
  <2>1. Half * u >= Half * (h + 1)
    BY <1>1, <1>2
  <2>2. Half * (h + 1) = Half * h + Half
    BY <1>1
  <2> QED
    BY <1>1, <1>2, <2>1, <2>2
<1>4. u % Half = u
  BY <1>1, <1>2, <1>3, SmallModulus
<1>5. u * Half = Half * u /\ Half * u <= p
  BY <1>1, <1>2
<1>6. p = u * Half + l /\ u * Half <= Limit /\ (u * Half = Limit => l = 0)
  <2> DEFINE v == Half * u
  <2>1. v \in Nat /\ u * Half = v /\ p = v + l /\ v <= p
    BY <1>1, <1>2, <1>5
  <2> HIDE DEF v
  <2> QED
    BY <1>1, <1>2, <2>1
<1> QED
  BY <1>2, <1>4, <1>6 DEF u, l

(* A bigint in the range of SQLite's integers reaches SQLite unchanged,    *)
(* also the least one, whose positive counterpart does not fit             *)
(* (query.ts:211-228, wrapper.c:195-203).                                  *)
THEOREM BigintsArrive == \A n \in Int : Fits(n) => Join(Split(n)) = n
<1> SUFFICES ASSUME NEW n \in Int, Fits(n) PROVE Join(Split(n)) = n
  OBVIOUS
<1> DEFINE p == IF n >= 0 THEN n ELSE -n
           s == IF n >= 0 THEN 1 ELSE -1
           u == p \div Half
           l == p % Half
<1>1. Limit \in Nat \ {0}
  BY Limits
<1> HIDE DEF Limit
<1>2. p \in Nat /\ p <= Limit /\ n = p * s /\ s \in Int
  BY <1>1 DEF Fits
<1>3. /\ u % Half = u /\ u \in Nat /\ l \in Nat
      /\ p = u * Half + l /\ u * Half <= Limit
      /\ u * Half = Limit => l = 0
  BY <1>2, Halves
<1>4. Split(n) = [sign |-> s, upper |-> u, lower |-> l]
  BY <1>3 DEF Split
<1>5. Join(Split(n)) = Int64(Int64(l + Int64(u * Half)) * s)
  BY <1>4 DEF Join
<1> HIDE DEF u, l
<1>6. u * Half \in Nat
  BY <1>3
<1>7. CASE p < Limit
  <2>1. Int64(u * Half) = u * Half
    BY <1>1, <1>2, <1>3, <1>6, <1>7, InRange DEF Fits
  <2>2. Int64(l + u * Half) = p
    BY <1>1, <1>2, <1>3, <1>6, <1>7, InRange DEF Fits
  <2>3. Int64(p * s) = n
    BY <1>2, InRange
  <2> QED
    BY <1>5, <2>1, <2>2, <2>3
<1>8. CASE p = Limit
  <2>1. n = -Limit /\ s = -1
    BY <1>1, <1>2, <1>8 DEF Fits
  <2>2. Int64(l + Int64(u * Half)) = -Limit
    <3>1. CASE u * Half = Limit
      <4>1. l + Int64(u * Half) = -Limit
        BY <1>1, <1>3, <3>1, WrapsAround
      <4> QED
        BY <1>1, <4>1, InRange DEF Fits
    <3>2. CASE u * Half < Limit
      <4>1. Int64(u * Half) = u * Half
        BY <1>1, <1>6, <3>2, InRange DEF Fits
      <4>2. l + Int64(u * Half) = Limit
        BY <1>1, <1>3, <1>6, <1>8, <4>1
      <4> QED
        BY <4>2, WrapsAround
    <3> QED
      BY <1>1, <1>3, <1>6, <3>1, <3>2
  <2>3. (-Limit) * s = Limit
    BY <1>1, <2>1
  <2> QED
    BY <1>5, <2>1, <2>2, <2>3, WrapsAround
<1> QED
  BY <1>1, <1>2, <1>7, <1>8

(* Every such bigint, and every integer number however large, is read back *)
(* as the value it was (query.ts:24-33, 194-317, wrapper.c:195-250).       *)
THEOREM IntegersRoundTrip ==
  \A n \in Int :
     /\ Fits(n) => Read(Bind(Value("bigint", <<n>>))) =
                   Value(IF Safe(n) THEN "number" ELSE "bigint", <<n>>)
     /\ Read(Bind(Value("number", <<n>>))) = Value("number", <<n>>)
<1> SUFFICES ASSUME NEW n \in Int
             PROVE  /\ Fits(n) => Read(Bind(Value("bigint", <<n>>))) =
                                  Value(IF Safe(n) THEN "number" ELSE "bigint", <<n>>)
                    /\ Read(Bind(Value("number", <<n>>))) = Value("number", <<n>>)
  OBVIOUS
<1>1. ASSUME Fits(n)
      PROVE  Read(Bind(Value("bigint", <<n>>))) =
             Value(IF Safe(n) THEN "number" ELSE "bigint", <<n>>)
  <2>1. Bind(Value("bigint", <<n>>)) = Value("INTEGER", <<Join(Split(n))>>)
    BY DEF Bind, Value
  <2>2. Join(Split(n)) = n
    BY <1>1, BigintsArrive
  <2> QED
    BY <2>1, <2>2 DEF Read, Value
<1>2. Read(Bind(Value("number", <<n>>))) = Value("number", <<n>>)
  <2>1. Bind(Value("number", <<n>>)) = Value(IF Safe(n) THEN "INTEGER" ELSE "REAL", <<n>>)
    BY DEF Bind, BindNumber, Value
  <2>2. CASE Safe(n)
    BY <2>1, <2>2 DEF Read, Value
  <2>3. CASE ~Safe(n)
    BY <2>1, <2>3 DEF Read, Value
  <2> QED
    BY <2>2, <2>3
<1> QED
  BY <1>1, <1>2

-----------------------------------------------------------------------------
(* Sequences of sequences                                                  *)

(* FlattenSeq(ss) is the last of the concatenations of ss[1] to ss[k].      *)
Concatenations(ss, S, f) ==
    /\ ss \in Seq(Seq(S))
    /\ f \in [0 .. Len(ss) -> Seq(S)] /\ f[0] = <<>>
    /\ \A k \in 1 .. Len(ss) : f[k] = f[k - 1] \o ss[k]

LEMMA FlattenSeqIs ==
  ASSUME NEW S, NEW ss \in Seq(Seq(S))
  PROVE  \E f : Concatenations(ss, S, f) /\ FlattenSeq(ss) = f[Len(ss)]
<1> DEFINE n == Len(ss)
           V == Seq(S)
           step == [k \in 1 .. n |-> [x \in V |-> x \o ss[k]]]
<1>1. n \in Nat /\ \A k \in 1 .. n : ss[k] \in V
  OBVIOUS
<1>2. <<>> \in V /\ step \in [1 .. n -> [V -> V]]
  BY <1>1, ConcatProperties
<1>3. PICK f : Follows(f, n, V, <<>>, step)
  <2> HIDE DEF step, n, V
  <2> QED
    BY <1>1, <1>2, Recursion DEF Steps
<1>a. \A k \in 1 .. n : f[k] = f[k - 1] \o ss[k] /\ f[k - 1] \in V
  <2> SUFFICES ASSUME NEW k \in 1 .. n PROVE f[k] = f[k - 1] \o ss[k] /\ f[k - 1] \in V
    OBVIOUS
  <2>1. f[k] = step[k][f[k - 1]] /\ k - 1 \in 0 .. n
    <3>1. k \in 1 .. n /\ k - 1 \in 0 .. n
      BY <1>1
    <3> HIDE DEF step, n
    <3> QED
      BY <1>3, <3>1 DEF Follows
  <2>2. f[k - 1] \in V
    BY <1>3, <2>1 DEF Follows
  <2> HIDE DEF V, n
  <2> QED
    BY <2>1, <2>2
<1> HIDE DEF step
<1>4. Concatenations(ss, S, f)
  BY <1>1, <1>3, <1>a DEF Concatenations, Follows
<1>5. CASE n = 0
  BY <1>3, <1>4, <1>5 DEF FlattenSeq, Follows
<1>6. CASE n # 0
  <2> DEFINE Eq(g) == g = [i \in 1 .. n |-> IF i = 1 THEN ss[i] ELSE g[i - 1] \o ss[i]]
             g0 == [i \in 1 .. n |-> f[i]]
  <2>1. f[1] = ss[1]
    <3>1. 1 \in 1 .. n /\ f[1] = f[0] \o ss[1] /\ ss[1] \in Seq(S)
      <4>1. 1 \in 1 .. n /\ 1 - 1 = 0
        BY <1>1, <1>6
      <4>2. f[1] = f[1 - 1] \o ss[1]
        BY <4>1, <1>a
      <4> QED
        BY <1>1, <4>1, <4>2
    <3> QED
      BY <1>3, <3>1, ConcatEmptySeq DEF Follows
  <2>2. Eq(g0)
    <3>1. ASSUME NEW i \in 1 .. n
          PROVE f[i] = IF i = 1 THEN ss[i] ELSE g0[i - 1] \o ss[i]
      <4>1. i # 1 => g0[i - 1] = f[i - 1]
        BY <1>1
      <4> QED
        BY <1>a, <2>1, <4>1
    <3> QED
      BY <3>1
  <2>3. \A g : Eq(g) => \A i \in 0 .. n : i # 0 => g[i] = f[i]
    <3> SUFFICES ASSUME NEW g, Eq(g) PROVE \A i \in 0 .. n : i # 0 => g[i] = f[i]
      OBVIOUS
    <3> DEFINE I == {i \in 0 .. n : i # 0 => g[i] = f[i]}
    <3>1. \A i \in 1 .. n : g[i] = IF i = 1 THEN ss[i] ELSE g[i - 1] \o ss[i]
      OBVIOUS
    <3>2. 0 \in I
      BY <1>1
    <3>3. ASSUME NEW i \in 1 .. n, i - 1 \in I PROVE i \in I
      <4>1. i = 1 => g[i] = f[i]
        BY <2>1, <3>1
      <4>2. i # 1 => i - 1 # 0 /\ g[i - 1] = f[i - 1]
        BY <1>1, <3>3
      <4>3. g[i] = f[i]
        BY <1>a, <3>1, <4>1, <4>2
      <4> QED
        BY <1>1, <4>3
    <3> HIDE DEF I
    <3>4. 0 .. n \subseteq I
      BY <1>1, <3>2, <3>3, Induction
    <3> QED
      BY <3>4 DEF I
  <2>4. FlattenSeq(ss) = (CHOOSE g : Eq(g))[n]
    BY <1>6 DEF FlattenSeq
  <2> HIDE DEF Eq
  <2>5. Eq(CHOOSE g : Eq(g))
    BY <2>2
  <2> QED
    BY <1>1, <1>4, <1>6, <2>3, <2>4, <2>5
<1> QED
  BY <1>5, <1>6

-----------------------------------------------------------------------------
(* One code point                                                          *)

\* The bytes of a code point c are at b[i], b[i + 1], ...
Shows(b, i, c) ==
    /\ i \in 1 .. Len(b) /\ i + Len(Utf8(c)) - 1 <= Len(b)
    /\ \A j \in 1 .. Len(Utf8(c)) : b[i + j - 1] = Utf8(c)[j]

\* What ByHand makes of the bytes from i on, if f[j] is what it makes of those from j
Decoded(b, f, i) ==
    IF i > Len(b) THEN <<>>
    ELSE IF b[i] < 128 THEN <<b[i]>> \o f[i + 1]
    ELSE IF b[i] \div 32 = 6 THEN <<TwoBytes(b, i)>> \o f[i + 2]
    ELSE IF b[i] \div 16 = 14 THEN Units(ThreeBytes(b, i)) \o f[i + 3]
    ELSE Units(FourBytes(b, i)) \o f[i + 4]

LEMMA TailBits ==
  ASSUME NEW c \in Nat
  PROVE  Tail6(c) \in 128 .. 191 /\ Tail6(c) % 64 = c % 64 /\ c % 64 \in 0 .. 63
<1>1. c % 64 \in 0 .. 63
  OBVIOUS
<1> QED
  BY <1>1 DEF Tail6

LEMMA DecodeOne ==
  ASSUME NEW b, Len(b) \in Nat, NEW f, NEW i, NEW c \in CodePoints, Shows(b, i, c)
  PROVE  Decoded(b, f, i) = Utf16(c) \o f[i + Len(Utf8(c))]
<1>1. i \in Nat /\ ~(i > Len(b)) /\ c \in Nat
  <2>1. i \in 1 .. Len(b)
    BY DEF Shows
  <2>2. c \in 0 .. LastCodePoint
    BY DEF CodePoints
  <2>3. LastCodePoint \in Nat
    BY SMT DEF LastCodePoint
  <2> QED
    BY <2>1, <2>2, <2>3
<1>2. CASE c < 128
  <2>1. Utf8(c) = <<c>> /\ Len(Utf8(c)) = 1
    BY SMT, <1>2 DEF Utf8
  <2>2. b[i + 1 - 1] = c /\ i + 1 - 1 = i
    BY SMT, <1>1, <2>1 DEF Shows
  <2>3. Utf16(c) = <<c>>
    BY SMT, <1>1, <1>2 DEF Utf16
  <2>4. b[i] < 128
    BY <1>2, <2>2
  <2>5. Decoded(b, f, i) = <<b[i]>> \o f[i + 1]
    BY Zenon, <1>1, <2>4 DEF Decoded
  <2> QED
    BY SMT, <2>1, <2>2, <2>3, <2>5
<1>3. CASE c >= 128 /\ c < 2048
  <2> DEFINE h == c \div 64
             l == c % 64
  <2>1. Utf8(c) = <<192 + h, Tail6(c)>> /\ Len(Utf8(c)) = 2
    BY SMT, <1>1, <1>3 DEF Utf8
  <2>2. b[i + 1 - 1] = 192 + h /\ b[i + 2 - 1] = Tail6(c) /\ i + 1 - 1 = i /\ i + 2 - 1 = i + 1
    BY SMT, <1>1, <2>1 DEF Shows
  <2>3. h \in 2 .. 31 /\ l \in 0 .. 63 /\ h * 64 + l = c
    BY SMT, <1>1, <1>3
  <2>4. Tail6(c) % 64 = l
    BY <1>1, TailBits
  <2> HIDE DEF h, l
  <2>5. ~(192 + h < 128) /\ (192 + h) \div 32 = 6 /\ (192 + h) % 32 = h
    BY SMT, <2>3
  <2>6. Utf16(c) = <<c>>
    BY SMT, <1>1, <1>3 DEF Utf16
  <2>7. /\ b[i] = 192 + h /\ b[i + 1] % 64 = l
    BY SMT, <2>2, <2>4
  <2>8. TwoBytes(b, i) = c
    <3>1. b[i] % 32 = h
      BY <2>5, <2>7
    <3> QED
      BY SMT, <2>3, <2>7, <3>1 DEF TwoBytes, Low
  <2>9. ~(b[i] < 128) /\ b[i] \div 32 = 6
    BY <2>5, <2>7
  <2>10. Decoded(b, f, i) = <<c>> \o f[i + 2]
    BY Zenon, <1>1, <2>8, <2>9 DEF Decoded
  <2> QED
    BY Zenon, <2>1, <2>6, <2>10
<1>4. CASE c >= 2048 /\ c < 65536
  <2> DEFINE h == c \div 4096
             m == c \div 64
             l == c % 64
             k == m % 64
  <2>1. Utf8(c) = <<224 + h, Tail6(m), Tail6(c)>> /\ Len(Utf8(c)) = 3
    BY SMT, <1>1, <1>4 DEF Utf8
  <2>2. /\ b[i + 1 - 1] = 224 + h /\ b[i + 2 - 1] = Tail6(m) /\ b[i + 3 - 1] = Tail6(c)
        /\ i + 1 - 1 = i /\ i + 2 - 1 = i + 1 /\ i + 3 - 1 = i + 2
    BY SMT, <1>1, <2>1 DEF Shows
  <2>3. h \in 0 .. 15 /\ l \in 0 .. 63 /\ k \in 0 .. 63 /\ m \in Nat
        /\ h * 4096 + k * 64 + l = c
    <3>1. l \in 0 .. 63 /\ m \in Nat /\ m <= 1023 /\ c = m * 64 + l
      BY SMT, <1>1, <1>4
    <3>2. k \in 0 .. 63 /\ m \div 64 \in 0 .. 15 /\ m = (m \div 64) * 64 + k
      <4> HIDE DEF m
      <4> QED
        BY SMT, <3>1
    <3>3. h = m \div 64
      BY SMT, <1>1
    <3> HIDE DEF h, l, m, k
    <3> QED
      BY SMT, <3>1, <3>2, <3>3
  <2>4. Tail6(c) % 64 = l /\ Tail6(m) % 64 = k
    BY SMT, <1>1, <2>3, TailBits
  <2> HIDE DEF h, l, m, k
  <2>5. ~(224 + h < 128) /\ (224 + h) \div 32 # 6 /\ (224 + h) \div 16 = 14 /\ (224 + h) % 16 = h
    BY SMT, <2>3
  <2>6. Utf16(c) = <<c>> /\ Units(c) = <<c>>
    BY SMT, <1>1, <1>4 DEF Utf16, Units
  <2>7. /\ b[i] = 224 + h /\ b[i + 1] % 64 = k /\ b[i + 2] % 64 = l
    BY SMT, <2>2, <2>4
  <2>8. ThreeBytes(b, i) = c
    <3>1. b[i] % 16 = h
      BY <2>5, <2>7
    <3>2. Low(b, i + 1) = k /\ Low(b, i + 2) = l
      BY <2>7 DEF Low
    <3>3. ThreeBytes(b, i) = h * 4096 + k * 64 + l
      BY SMT, <3>1, <3>2 DEF ThreeBytes
    <3> QED
      BY SMT, <2>3, <3>3
  <2>9. ~(b[i] < 128) /\ b[i] \div 32 # 6 /\ b[i] \div 16 = 14
    BY <2>5, <2>7
  <2>10. Decoded(b, f, i) = Units(c) \o f[i + 3]
    BY Zenon, <1>1, <2>8, <2>9 DEF Decoded
  <2> QED
    BY Zenon, <2>1, <2>6, <2>10
<1>5. CASE c >= 65536
  <2> DEFINE h == c \div 262144
             g == c \div 4096
             m == c \div 64
             l == c % 64
             k == m % 64
             j == g % 64
  <2>1. Utf8(c) = <<240 + h, Tail6(g), Tail6(m), Tail6(c)>> /\ Len(Utf8(c)) = 4
    BY SMT, <1>1, <1>5 DEF Utf8
  <2>2. /\ b[i + 1 - 1] = 240 + h /\ b[i + 2 - 1] = Tail6(g)
        /\ b[i + 3 - 1] = Tail6(m) /\ b[i + 4 - 1] = Tail6(c)
        /\ i + 1 - 1 = i /\ i + 2 - 1 = i + 1 /\ i + 3 - 1 = i + 2 /\ i + 4 - 1 = i + 3
    BY SMT, <1>1, <2>1 DEF Shows
  <2>3. h \in 0 .. 4 /\ l \in 0 .. 63 /\ k \in 0 .. 63 /\ j \in 0 .. 63 /\ m \in Nat /\ g \in Nat
        /\ h * 262144 + j * 4096 + k * 64 + l = c
    <3>1. l \in 0 .. 63 /\ m \in Nat /\ m <= 20479 /\ c = m * 64 + l
      <4> DEFINE n == LastCodePoint
      <4>1. n = 1114111
        BY SMT DEF LastCodePoint
      <4>2. c <= n
        <5>1. c \in 0 .. n
          BY DEF CodePoints
        <5>2. n \in Nat
          BY SMT, <4>1
        <5> HIDE DEF n
        <5> QED
          BY <5>1, <5>2
      <4> HIDE DEF n
      <4> QED
        BY SMT, <1>1, <4>1, <4>2
    <3>2. k \in 0 .. 63 /\ m \div 64 \in Nat /\ m \div 64 <= 319 /\ m = (m \div 64) * 64 + k
      <4> HIDE DEF m
      <4> QED
        BY SMT, <3>1
    <3>3. g = m \div 64
      BY SMT, <1>1
    <3>4. j \in 0 .. 63 /\ g \div 64 \in 0 .. 4 /\ g = (g \div 64) * 64 + j
      <4>1. g \in Nat /\ g <= 319
        <5> HIDE DEF g, m, k
        <5> QED
          BY SMT, <3>2, <3>3
      <4> HIDE DEF g
      <4> QED
        BY SMT, <4>1
    <3>5. h = g \div 64
      BY SMT, <1>1
    <3> HIDE DEF h, l, m, k, g, j
    <3> QED
      BY SMT, <3>1, <3>2, <3>3, <3>4, <3>5
  <2>4. Tail6(c) % 64 = l /\ Tail6(m) % 64 = k /\ Tail6(g) % 64 = j
    BY SMT, <1>1, <2>3, TailBits
  <2> HIDE DEF h, l, m, k, g, j
  <2>5. ~(240 + h < 128) /\ (240 + h) \div 32 # 6 /\ (240 + h) \div 16 # 14 /\ (240 + h) % 8 = h
    BY SMT, <2>3
  <2>6. Utf16(c) = Units(c)
    BY SMT DEF Utf16, Units
  <2>7. /\ b[i] = 240 + h /\ b[i + 1] % 64 = j /\ b[i + 2] % 64 = k /\ b[i + 3] % 64 = l
    BY SMT, <2>2, <2>4
  <2>8. FourBytes(b, i) = c
    <3>1. b[i] % 8 = h
      BY <2>5, <2>7
    <3>2. Low(b, i + 1) = j /\ Low(b, i + 2) = k /\ Low(b, i + 3) = l
      BY <2>7 DEF Low
    <3>3. FourBytes(b, i) = h * 262144 + j * 4096 + k * 64 + l
      BY SMT, <3>1, <3>2 DEF FourBytes
    <3> QED
      BY SMT, <2>3, <3>3
  <2>9. ~(b[i] < 128) /\ b[i] \div 32 # 6 /\ b[i] \div 16 # 14
    BY <2>5, <2>7
  <2>10. Decoded(b, f, i) = Units(c) \o f[i + 4]
    BY Zenon, <1>1, <2>8, <2>9 DEF Decoded
  <2> QED
    BY Zenon, <2>1, <2>6, <2>10
<1> QED
  BY SMT, <1>1, <1>2, <1>3, <1>4, <1>5

-----------------------------------------------------------------------------
(* Strings                                                                 *)

LEMMA CodePointNat ==
  ASSUME NEW c \in CodePoints
  PROVE  c \in Nat
<1>1. c \in 0 .. LastCodePoint
  BY DEF CodePoints
<1>2. LastCodePoint \in Nat
  BY SMT DEF LastCodePoint
<1> QED
  BY <1>1, <1>2

LEMMA EncodeOne ==
  ASSUME NEW c \in CodePoints
  PROVE  Utf8(c) \in Seq(Int) /\ Len(Utf8(c)) \in 1 .. 4 /\ Utf16(c) \in Seq(Int)
<1>1. c \in Nat
  BY CodePointNat
<1>2. Utf8(c) \in Seq(Int) /\ Len(Utf8(c)) \in 1 .. 4
  BY SMT, <1>1 DEF Utf8, Tail6
<1>3. Utf16(c) \in Seq(Int)
  BY SMT, <1>1 DEF Utf16
<1> QED
  BY <1>2, <1>3

LEMMA PartsAreFirst ==
  ASSUME NEW ss, NEW S, NEW f, Concatenations(ss, S, f), NEW k \in 0 .. Len(ss)
  PROVE  /\ Len(f[k]) <= Len(f[Len(ss)])
         /\ \A j \in 1 .. Len(f[k]) : f[Len(ss)][j] = f[k][j]
<1> DEFINE n == Len(ss)
           Within(r) == r >= k => /\ Len(f[k]) <= Len(f[r])
                                  /\ \A j \in 1 .. Len(f[k]) : f[r][j] = f[k][j]
           I == {m \in 0 .. n : Within(m)}
<1>0. n \in Nat /\ \A m \in 1 .. n : ss[m] \in Seq(S)
  BY DEF Concatenations
<1>1. \A m \in 0 .. n : f[m] \in Seq(S)
  BY DEF Concatenations
<1>2. 0 \in I
  BY <1>1
<1>3. ASSUME NEW m \in 1 .. n, m - 1 \in I PROVE m \in I
  <2>1. f[m] = f[m - 1] \o ss[m] /\ f[m - 1] \in Seq(S) /\ ss[m] \in Seq(S)
    <3>1. f[m] = f[m - 1] \o ss[m]
      BY DEF Concatenations
    <3>2. m - 1 \in 0 .. n
      BY <1>0
    <3>3. ss[m] \in Seq(S)
      BY <1>0
    <3> HIDE DEF n
    <3> QED
      BY <1>1, <3>1, <3>2, <3>3
  <2>2. CASE k <= m - 1
    <3>1. /\ Len(f[m]) = Len(f[m - 1]) + Len(ss[m])
          /\ \A j \in 1 .. Len(f[m - 1]) : f[m][j] = f[m - 1][j]
      <4> DEFINE x == f[m - 1]
                 y == ss[m]
      <4>1. f[m] = x \o y /\ x \in Seq(S) /\ y \in Seq(S)
        BY <2>1
      <4> HIDE DEF x, y
      <4>2. Len(x \o y) = Len(x) + Len(y) /\ \A j \in 1 .. Len(x) : (x \o y)[j] = x[j]
        BY <4>1
      <4> QED
        BY <4>1, <4>2 DEF x, y
    <3>2. Len(f[k]) <= Len(f[m - 1]) /\ \A j \in 1 .. Len(f[k]) : f[m - 1][j] = f[k][j]
      BY <1>3, <2>2
    <3>3. Len(f[k]) \in Nat /\ Len(f[m - 1]) \in Nat /\ Len(ss[m]) \in Nat
      BY <1>1, <2>1
    <3>4. Len(f[k]) <= Len(f[m])
      <4> DEFINE a == Len(f[k])
                 c == Len(f[m - 1])
                 d == Len(ss[m])
      <4>1. a <= c /\ Len(f[m]) = c + d /\ a \in Nat /\ c \in Nat /\ d \in Nat
        BY <3>1, <3>2, <3>3
      <4> HIDE DEF a, c, d
      <4>2. a <= Len(f[m])
        BY <4>1
      <4> QED
        BY <4>2 DEF a
    <3>5. ASSUME NEW j \in 1 .. Len(f[k]) PROVE f[m][j] = f[k][j]
      <4>1. j \in 1 .. Len(f[m - 1])
        BY <3>2, <3>3
      <4> QED
        BY <3>1, <3>2, <4>1
    <3> QED
      BY <3>4, <3>5
  <2>3. CASE k = m
    BY <1>1, <2>3
  <2>4. CASE k > m
    BY <2>4
  <2> QED
    BY <2>2, <2>3, <2>4
<1> HIDE DEF I
<1>4. 0 .. n \subseteq I
  BY <1>0, <1>2, <1>3, Induction
<1>5. n \in I
  BY <1>0, <1>4
<1> QED
  BY <1>5 DEF I

LEMMA ByHandIs ==
  ASSUME NEW b, Len(b) \in Nat
  PROVE  \E f : /\ \A i \in 1 .. Len(b) + 4 : f[i] = Decoded(b, f, i)
                /\ ByHand(b) = f[1]
<1> DEFINE n == Len(b)
           D == 1 .. n + 4
           Eq(f) == f = [i \in D |-> Decoded(b, f, i)]
           Fine(k, f) == /\ f = [i \in D |-> f[i]]
                         /\ \A i \in D : i > n - k => f[i] = Decoded(b, f, i)
           I == {k \in 0 .. n : \E f : Fine(k, f)}
<1>1. 0 \in I
  <2>1. Fine(0, [i \in D |-> <<>>])
    BY DEF Decoded
  <2> HIDE DEF Fine
  <2> QED
    BY <2>1
<1>2. ASSUME NEW k \in 1 .. n, k - 1 \in I PROVE k \in I
  <2>1. PICK f : Fine(k - 1, f)
    BY <1>2
  <2> DEFINE m == n - k + 1
             g == [i \in D |-> IF i = m THEN Decoded(b, f, m) ELSE f[i]]
  <2>2. m \in D /\ m <= n /\ m + 1 \in D /\ m + 2 \in D /\ m + 3 \in D /\ m + 4 \in D
    OBVIOUS
  <2>3. \A i \in D : i # m => g[i] = f[i]
    OBVIOUS
  <2>4. \A i \in D : i >= m => Decoded(b, g, i) = Decoded(b, f, i)
    <3> SUFFICES ASSUME NEW i \in D, i >= m PROVE Decoded(b, g, i) = Decoded(b, f, i)
      OBVIOUS
    <3>1. CASE i > n
      BY <3>1 DEF Decoded
    <3>2. CASE ~(i > n)
      <4>1. /\ i + 1 \in D /\ i + 2 \in D /\ i + 3 \in D /\ i + 4 \in D
            /\ i + 1 # m /\ i + 2 # m /\ i + 3 # m /\ i + 4 # m
        BY <2>2, <3>2
      <4>2. g[i + 1] = f[i + 1] /\ g[i + 2] = f[i + 2] /\ g[i + 3] = f[i + 3] /\ g[i + 4] = f[i + 4]
        BY <2>3, <4>1
      <4> HIDE DEF g
      <4> QED
        BY <4>2 DEF Decoded
    <3> QED
      BY <3>1, <3>2
  <2>5. Fine(k, g)
    <3>1. g = [i \in D |-> g[i]]
      OBVIOUS
    <3>2. ASSUME NEW i \in D, i > n - k PROVE g[i] = Decoded(b, g, i)
      <4>1. CASE i = m
        BY <2>2, <2>4, <4>1
      <4>2. CASE i # m
        <5>1. i > n - (k - 1) /\ i >= m
          BY <3>2, <4>2
        <5>2. f[i] = Decoded(b, f, i)
          BY <2>1, <5>1
        <5> HIDE DEF g
        <5> QED
          BY <2>3, <2>4, <4>2, <5>1, <5>2
      <4> QED
        BY <4>1, <4>2
    <3> QED
      BY <3>1, <3>2
  <2> HIDE DEF Fine, g
  <2> QED
    BY <2>5
<1> HIDE DEF I
<1>3. 0 .. n \subseteq I
  BY <1>1, <1>2, Induction
<1>4. PICK f : Fine(n, f)
  BY <1>3 DEF I
<1>5. Eq(f)
  BY <1>4
<1>6. ByHand(b) = (CHOOSE g : Eq(g))[1]
  BY Zenon DEF ByHand, Decoded
<1> DEFINE h == CHOOSE g : Eq(g)
<1>7. Eq(h)
  <2> HIDE DEF Eq
  <2> QED
    BY <1>5
<1>8. \A i \in D : h[i] = Decoded(b, h, i)
  <2> HIDE DEF h
  <2> QED
    BY <1>7
<1> HIDE DEF h
<1> QED
  BY <1>6, <1>8 DEF h

(* The bytes of the k-th code point begin where those of the code points   *)
(* before it end.                                                          *)
LEMMA BytesShow ==
  ASSUME NEW s \in Seq(CodePoints), NEW ss, NEW f,
         ss = [i \in DOMAIN s |-> Utf8(s[i])], Concatenations(ss, Int, f),
         NEW k \in 1 .. Len(s)
  PROVE  /\ Shows(f[Len(s)], Len(f[k - 1]) + 1, s[k])
         /\ Len(f[k]) = Len(f[k - 1]) + Len(Utf8(s[k]))
<1> DEFINE n == Len(s)
           c == s[k]
           u == Utf8(c)
           a == f[k - 1]
           b == f[n]
           d == f[k]
<1>1. Len(ss) = n /\ \A i \in 1 .. n : ss[i] = Utf8(s[i]) /\ ss[i] \in Seq(Int)
  <2>1. DOMAIN s = 1 .. n /\ n \in Nat /\ \A i \in 1 .. n : s[i] \in CodePoints
    OBVIOUS
  <2>2. Len(ss) = n
    BY <2>1
  <2> QED
    BY <2>1, <2>2, EncodeOne
<1>2. c \in CodePoints /\ u \in Seq(Int) /\ Len(u) \in 1 .. 4 /\ n \in Nat
  <2>1. c \in CodePoints /\ n \in Nat
    OBVIOUS
  <2> QED
    BY <2>1, EncodeOne
<1>3. \A i \in 0 .. n : f[i] \in Seq(Int)
  BY <1>1 DEF Concatenations
<1>4. a \in Seq(Int) /\ b \in Seq(Int) /\ d \in Seq(Int)
  <2>1. k - 1 \in 0 .. n /\ n \in 0 .. n /\ k \in 0 .. n
    BY <1>2
  <2> HIDE DEF n
  <2> QED
    BY <1>3, <2>1
<1>5. d = a \o u
  <2>1. f[k] = f[k - 1] \o ss[k] /\ ss[k] = Utf8(s[k])
    BY <1>1 DEF Concatenations
  <2> QED
    BY <2>1
<1>6. Len(d) <= Len(b) /\ \A j \in 1 .. Len(d) : b[j] = d[j]
  <2>1. k \in 0 .. Len(ss) /\ Len(ss) = n /\ Len(ss) \in Nat
    BY <1>1, <1>2
  <2>3. /\ Len(f[k]) <= Len(f[Len(ss)])
        /\ \A j \in 1 .. Len(f[k]) : f[Len(ss)][j] = f[k][j]
    BY <2>1, PartsAreFirst
  <2> QED
    BY <2>1, <2>3
<1> HIDE DEF n, c, u, a, b, d
<1>7. /\ Len(d) = Len(a) + Len(u) /\ Len(a) \in Nat /\ Len(b) \in Nat /\ Len(u) \in Nat
      /\ \A j \in 1 .. Len(u) : d[Len(a) + j] = u[j]
  BY <1>2, <1>4, <1>5
<1>8. Shows(b, Len(a) + 1, c)
  <2> DEFINE la == Len(a)
             lb == Len(b)
             lu == Len(u)
             ld == Len(d)
  <2>1. la \in Nat /\ lb \in Nat /\ lu \in 1 .. 4 /\ ld = la + lu /\ ld <= lb
    BY <1>2, <1>6, <1>7
  <2>2. \A j \in 1 .. lu : b[la + 1 + j - 1] = u[j]
    <3> SUFFICES ASSUME NEW j \in 1 .. lu PROVE b[la + 1 + j - 1] = u[j]
      OBVIOUS
    <3>1. d[la + j] = u[j]
      BY <1>7
    <3>2. \A q \in 1 .. ld : b[q] = d[q]
      BY <1>6
    <3> HIDE DEF la, lb, lu, ld
    <3>3. la + j \in 1 .. ld /\ la + 1 + j - 1 = la + j
      BY <2>1
    <3> QED
      BY <3>1, <3>2, <3>3
  <2>3. la + 1 \in 1 .. lb /\ la + 1 + lu - 1 <= lb
    <3> HIDE DEF la, lb, lu, ld
    <3> QED
      BY <2>1
  <2> QED
    BY <2>2, <2>3 DEF Shows, u
<1> QED
  BY <1>7, <1>8 DEF n, c, u, a, b, d

(* The loop of getStr decodes every string that TextEncoder has encoded to *)
(* its code units, whatever its length and code points (wasm.ts:57-86).    *)
THEOREM DecodedByHand ==
  ASSUME NEW s \in Seq(CodePoints)
  PROVE  ByHand(Bytes(s)) = CodeUnits(s)
<1> DEFINE n == Len(s)
           ss == [i \in DOMAIN s |-> Utf8(s[i])]
           tt == [i \in DOMAIN s |-> Utf16(s[i])]
<1>1. DOMAIN s = 1 .. n /\ n \in Nat /\ \A i \in 1 .. n : s[i] \in CodePoints
  OBVIOUS
<1>2. ss \in Seq(Seq(Int)) /\ Len(ss) = n
  BY <1>1, EncodeOne
<1>3. tt \in Seq(Seq(Int)) /\ Len(tt) = n /\ \A i \in 1 .. n : tt[i] = Utf16(s[i])
  BY <1>1, EncodeOne
<1>4. PICK fb : Concatenations(ss, Int, fb) /\ FlattenSeq(ss) = fb[n]
  BY <1>2, FlattenSeqIs
<1>5. PICK fu : Concatenations(tt, Int, fu) /\ FlattenSeq(tt) = fu[n]
  BY <1>3, FlattenSeqIs
<1>6. /\ \A k \in 0 .. n : fb[k] \in Seq(Int) /\ fu[k] \in Seq(Int)
      /\ fb[0] = <<>> /\ fu[0] = <<>>
      /\ \A k \in 1 .. n : fu[k] = fu[k - 1] \o Utf16(s[k])
  BY <1>2, <1>3, <1>4, <1>5 DEF Concatenations
<1> DEFINE b == fb[n]
           at(k) == Len(fb[k]) + 1
<1>7. /\ \A k \in 1 .. n : /\ Shows(b, at(k - 1), s[k])
                           /\ at(k) = at(k - 1) + Len(Utf8(s[k]))
      /\ b \in Seq(Int) /\ Len(b) \in Nat
  <2>1. ASSUME NEW k \in 1 .. n
        PROVE  Shows(b, Len(fb[k - 1]) + 1, s[k]) /\ Len(fb[k]) = Len(fb[k - 1]) + Len(Utf8(s[k]))
    <3> HIDE DEF ss
    <3>1. ss = [i \in DOMAIN s |-> Utf8(s[i])]
      BY DEF ss
    <3> QED
      BY <1>4, <3>1, BytesShow
  <2>2. ASSUME NEW k \in 1 .. n PROVE at(k) = at(k - 1) + Len(Utf8(s[k]))
    <3>1. Len(fb[k - 1]) \in Nat /\ Len(Utf8(s[k])) \in Nat
      <4>1. k - 1 \in 0 .. n /\ s[k] \in CodePoints
        BY <1>1
      <4> QED
        BY <1>6, <4>1, EncodeOne
    <3> DEFINE x == Len(fb[k - 1])
               y == Len(Utf8(s[k]))
    <3>2. Len(fb[k]) = x + y /\ at(k) = Len(fb[k]) + 1 /\ at(k - 1) = x + 1
          /\ x \in Nat /\ y \in Nat
      BY <2>1, <3>1
    <3> HIDE DEF x, y, at
    <3>3. x + y + 1 = x + 1 + y
      BY <3>2
    <3> QED
      BY <3>2, <3>3 DEF y
  <2> QED
    BY <1>1, <1>6, <2>1, <2>2
<1>8. PICK f : (\A i \in 1 .. Len(b) + 4 : f[i] = Decoded(b, f, i)) /\ ByHand(b) = f[1]
  BY <1>7, ByHandIs
<1> DEFINE Rest(k) == f[at(k)] \in Seq(Int) /\ fu[k] \o f[at(k)] = fu[n]
           I == {j \in 0 .. n : Rest(n - j)}
<1> HIDE DEF ss, tt
<1>9. 0 \in I
  <2>1. f[at(n)] = <<>>
    <3> DEFINE i == Len(b) + 1
    <3>1. i \in 1 .. Len(b) + 4 /\ i > Len(b) /\ at(n) = i
      BY <1>7
    <3> HIDE DEF i, b, n
    <3>2. f[i] = Decoded(b, f, i) /\ Decoded(b, f, i) = <<>>
      BY <1>8, <3>1 DEF Decoded
    <3> QED
      BY <3>1, <3>2
  <2>2. fu[n] \o <<>> = fu[n]
    BY <1>1, <1>6, ConcatEmptySeq
  <2>3. Rest(n) /\ n - 0 = n /\ 0 \in 0 .. n
    BY <1>1, <2>1, <2>2
  <2> HIDE DEF Rest, n
  <2> QED
    BY <2>3
<1>10. ASSUME NEW j \in 1 .. n, j - 1 \in I PROVE j \in I
  <2> DEFINE k == n - j + 1
  <2>1. k \in 1 .. n /\ k - 1 = n - j /\ k = n - (j - 1) /\ k - 1 \in 0 .. n /\ k \in 0 .. n
    BY <1>1
  <2>2. Rest(k)
    BY <1>10, <2>1
  <2> HIDE DEF k, b, n
  <2>3. Shows(b, at(k - 1), s[k]) /\ at(k) = at(k - 1) + Len(Utf8(s[k]))
    BY <1>7, <2>1
  <2>4. s[k] \in CodePoints /\ Utf16(s[k]) \in Seq(Int)
    BY <1>1, <2>1, EncodeOne
  <2>5. f[at(k - 1)] = Utf16(s[k]) \o f[at(k)]
    <3>1. Decoded(b, f, at(k - 1)) = Utf16(s[k]) \o f[at(k - 1) + Len(Utf8(s[k]))]
      <4> DEFINE i == at(k - 1)
                 c == s[k]
      <4>1. Shows(b, i, c) /\ c \in CodePoints /\ Len(b) \in Nat
        BY <1>7, <2>3, <2>4
      <4> HIDE DEF i, c
      <4>2. Decoded(b, f, i) = Utf16(c) \o f[i + Len(Utf8(c))]
        BY <4>1, DecodeOne
      <4> QED
        BY <4>2 DEF i, c
    <3>2. at(k - 1) \in 1 .. Len(b) + 4
      BY <1>7, <2>3 DEF Shows
    <3> QED
      BY <1>8, <2>3, <3>1, <3>2
  <2>6. fu[k] = fu[k - 1] \o Utf16(s[k]) /\ fu[k - 1] \in Seq(Int)
    BY <1>6, <2>1
  <2>7. Rest(k - 1)
    <3> DEFINE r == f[at(k)]
               x == fu[k - 1]
               y == Utf16(s[k])
    <3>1. r \in Seq(Int) /\ x \in Seq(Int) /\ y \in Seq(Int)
      BY <2>2, <2>4, <2>6
    <3>2. (x \o y) \o r = fu[n]
      BY <2>2, <2>6
    <3> HIDE DEF r, x, y
    <3>3. x \o (y \o r) = fu[n] /\ y \o r \in Seq(Int)
      <4>1. (x \o y) \o r = x \o (y \o r)
        BY <3>1
      <4>2. y \o r \in Seq(Int)
        BY <3>1
      <4> QED
        BY <3>2, <4>1, <4>2
    <3> QED
      BY <2>5, <3>3 DEF r, x, y
  <2>8. Rest(n - j) /\ j \in 0 .. n
    <3> HIDE DEF Rest
    <3>1. j \in 0 .. n
      BY <1>1
    <3> QED
      BY <2>1, <2>7, <3>1
  <2> HIDE DEF Rest
  <2> QED
    BY <2>8
<1> HIDE DEF I
<1>11. 0 .. n \subseteq I
  BY <1>1, <1>9, <1>10, Induction
<1>12. Rest(0)
  <2>1. n \in I /\ n - n = 0
    BY <1>1, <1>11
  <2> QED
    BY <2>1 DEF I
<1>13. f[1] = fu[n]
  <2>1. at(0) = 1
    BY <1>6
  <2> QED
    BY <1>6, <1>12, <2>1, ConcatEmptySeq
<1> QED
  BY <1>4, <1>5, <1>8, <1>13 DEF Bytes, CodeUnits, ss, tt

=============================================================================
