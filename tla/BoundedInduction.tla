-------------------------- MODULE BoundedInduction --------------------------
(***************************************************************************)
(* Induction up to a bound, and functions given by their value at 0 and a  *)
(* step to each other number.  The library's induction theorems have a     *)
(* predicate as a parameter; these follow from the least element of a set  *)
(* of numbers.                                                             *)
(***************************************************************************)
EXTENDS Integers, WellFoundedInduction, TLAPS

Below == {ss \in Nat \X Nat : ss[1] < ss[2]}
LEMMA BelowWF == IsWellFoundedOn(Below, Nat)
  BY NatLessThanWellFounded DEF OpToRel, Below

LEMMA Least ==
  ASSUME NEW T, T \subseteq Nat, T # {}
  PROVE  \E x \in T : \A y \in T : ~(y < x)
<1>1. PICK x \in T : \A y \in T : ~(<<y, x>> \in Below)
  BY BelowWF, WFMin
<1> QED
  BY <1>1 DEF Below

LEMMA Induction ==
  ASSUME NEW n \in Nat, NEW S, 0 \in S, \A k \in 1 .. n : k - 1 \in S => k \in S
  PROVE  0 .. n \subseteq S
<1> DEFINE T == (0 .. n) \ S
<1> SUFFICES ASSUME T # {} PROVE FALSE
  OBVIOUS
<1>1. T \subseteq Nat
  OBVIOUS
<1> HIDE DEF T
<1>2. PICK x \in T : \A y \in T : ~(y < x)
  BY <1>1, Least
<1>3. x \in 1 .. n /\ x \notin S /\ x - 1 \in 0 .. n
  BY <1>2 DEF T
<1>4. x - 1 \in S
  BY <1>2, <1>3 DEF T
<1> QED
  BY <1>3, <1>4

(* A function on 0 .. n may be given by its value at 0 and a step to each  *)
(* other.                                                                  *)
Steps(n, V, base, step) == n \in Nat /\ base \in V /\ step \in [1 .. n -> [V -> V]]

Follows(f, n, V, base, step) ==
    f \in [0 .. n -> V] /\ f[0] = base /\ \A i \in 1 .. n : f[i] = step[i][f[i - 1]]

LEMMA Recursion ==
  ASSUME NEW n, NEW V, NEW base, NEW step, Steps(n, V, base, step)
  PROVE  \E f : Follows(f, n, V, base, step)
<1> USE DEF Steps
<1> DEFINE Fine(k, f) == f[0] = base /\ \A i \in 1 .. k : f[i] = step[i][f[i - 1]]
           S == {k \in 0 .. n : \E f \in [0 .. n -> V] : Fine(k, f)}
<1> HIDE DEF Fine
<1>1. 0 \in S
  <2>1. [i \in 0 .. n |-> base] \in [0 .. n -> V]
    OBVIOUS
  <2>2. Fine(0, [i \in 0 .. n |-> base])
    BY DEF Fine
  <2> QED
    BY <2>1, <2>2
<1>2. ASSUME NEW k \in 1 .. n, k - 1 \in S PROVE k \in S
  <2>1. PICK f \in [0 .. n -> V] : Fine(k - 1, f)
    BY <1>2
  <2> DEFINE g == [f EXCEPT ![k] = step[k][f[k - 1]]]
  <2>2. g \in [0 .. n -> V] /\ g[k] = step[k][f[k - 1]] /\ \A i \in 0 .. n : i # k => g[i] = f[i]
    <3>1. step[k] \in [V -> V] /\ f[k - 1] \in V
      OBVIOUS
    <3> QED
      BY <3>1
  <2> HIDE DEF g
  <2>3. Fine(k, g)
    BY <2>1, <2>2 DEF Fine
  <2> QED
    BY <2>2, <2>3
<1> HIDE DEF S
<1>3. 0 .. n \subseteq S
  BY <1>1, <1>2, Induction
<1>4. \E f \in [0 .. n -> V] : Fine(n, f)
  BY <1>3 DEF S
<1> QED
  BY <1>4 DEF Fine, Follows

=============================================================================
