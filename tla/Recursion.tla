------------------------------ MODULE Recursion ------------------------------
(***************************************************************************)
(* Functions defined by recursion over the natural numbers:                *)
(*                                                                         *)
(*     f[n \in Nat] == Step(n, f[n - 1])                                   *)
(*                                                                         *)
(* is the function chosen of those that satisfy this equation.  A module   *)
(* that instantiates this one with the step of such a definition has the   *)
(* equation from the theorem Defined, and Induction with it.               *)
(***************************************************************************)
EXTENDS Integers, TLAPS, WellFoundedInduction

CONSTANT Step(_, _)   \* the value at n, made of n and the value at n - 1

\* A set that holds zero and the successor of every number in it holds them all.
LEMMA Induction ==
  ASSUME NEW S, 0 \in S, \A n \in Nat : n \in S => n + 1 \in S
  PROVE  Nat \subseteq S
<1> DEFINE T == {n \in Nat : n \notin S}
<1> SUFFICES ASSUME T # {} PROVE FALSE
  OBVIOUS
<1>1. \E x \in T : \A y \in T : <<y, x>> \notin OpToRel(<, Nat)
  BY NatLessThanWellFounded, WFMin, Zenon
<1>2. PICK x \in T : \A y \in T : ~(y < x)
  BY <1>1 DEF OpToRel
<1>3. x # 0 /\ x - 1 \in Nat /\ x - 1 \in S
  BY <1>2
<1> QED
  BY <1>3

-----------------------------------------------------------------------------
(* The function is put together from those that satisfy the equation up to  *)
(* a number: there is one for every number, and they agree.                 *)

UpTo(g, n) == \A i \in 0 .. n : g[i] = Step(i, g[i - 1])

LEMMA Agree ==
  ASSUME \A x, y : Step(0, x) = Step(0, y), NEW g, NEW h, NEW n \in Nat, NEW m \in Nat,
         UpTo(g, n), UpTo(h, m)
  PROVE  \A i \in Nat : i =< n /\ i =< m => g[i] = h[i]
<1> DEFINE S == {i \in Nat : i =< n /\ i =< m => g[i] = h[i]}
<1>1. 0 \in S
  BY DEF UpTo
<1>2. ASSUME NEW i \in Nat, i \in S PROVE i + 1 \in S
  <2> SUFFICES ASSUME i + 1 =< n, i + 1 =< m PROVE g[i + 1] = h[i + 1]
    OBVIOUS
  <2>1. g[i] = h[i] /\ i + 1 \in 0 .. n /\ i + 1 \in 0 .. m /\ (i + 1) - 1 = i
    BY <1>2
  <2>2. g[i + 1] = Step(i + 1, g[i]) /\ h[i + 1] = Step(i + 1, h[i])
    BY <2>1 DEF UpTo
  <2> QED
    BY <2>1, <2>2
<1> HIDE DEF S
<1>3. Nat \subseteq S
  BY <1>1, <1>2, Induction
<1> QED
  BY <1>3 DEF S

LEMMA Reach ==
  ASSUME \A x, y : Step(0, x) = Step(0, y), NEW n \in Nat
  PROVE  \E g : UpTo(g, n)
<1> DEFINE S == {i \in Nat : \E g : UpTo(g, i)}
<1>1. 0 \in S
  <2> DEFINE g == [i \in {0} |-> Step(0, {})]
  <2>1. UpTo(g, 0)
    BY DEF UpTo
  <2> QED
    BY <2>1
<1>2. ASSUME NEW i \in Nat, i \in S PROVE i + 1 \in S
  <2>1. PICK g : UpTo(g, i)
    BY <1>2
  <2> DEFINE h == [j \in 0 .. i + 1 |-> IF j = i + 1 THEN Step(i + 1, g[i]) ELSE g[j]]
  <2>2. ASSUME NEW j \in 0 .. i + 1 PROVE h[j] = Step(j, h[j - 1])
    <3>1. CASE j = i + 1
      BY <3>1
    <3>2. CASE j = 0
      BY <2>1, <3>2 DEF UpTo
    <3>3. CASE j \in 1 .. i
      BY <2>1, <3>3 DEF UpTo
    <3> QED
      BY <3>1, <3>2, <3>3
  <2>3. UpTo(h, i + 1)
    BY <2>2 DEF UpTo
  <2> QED
    BY <2>3
<1> HIDE DEF S
<1>3. Nat \subseteq S
  BY <1>1, <1>2, Induction
<1> QED
  BY <1>3 DEF S

\* When the step at zero does not use the value before it, there is a function that
\* satisfies the equation, so that the one a recursive definition chooses does.
THEOREM Defined ==
  ASSUME \A x, y : Step(0, x) = Step(0, y)
  PROVE  \E f : f = [n \in Nat |-> Step(n, f[n - 1])]
<1> DEFINE G(n) == CHOOSE g : UpTo(g, n)
           f == [n \in Nat |-> G(n)[n]]
<1>1. \A n \in Nat : UpTo(G(n), n)
  BY Reach
<1>2. ASSUME NEW n \in Nat PROVE f[n] = Step(n, f[n - 1])
  <2>1. f[n] = Step(n, G(n)[n - 1])
    BY <1>1 DEF UpTo
  <2>2. CASE n = 0
    BY <2>1, <2>2
  <2>3. CASE n # 0
    <3>1. n - 1 \in Nat /\ n - 1 =< n
      BY <2>3
    <3> HIDE DEF G
    <3>2. G(n)[n - 1] = G(n - 1)[n - 1]
      BY <1>1, <3>1, Agree
    <3> QED
      BY <2>1, <3>1, <3>2
  <2> QED
    BY <2>2, <2>3
<1>3. f = [n \in Nat |-> f[n]]
  OBVIOUS
<1> HIDE DEF f
<1>4. [n \in Nat |-> f[n]] = [n \in Nat |-> Step(n, f[n - 1])]
  BY <1>2
<1> QED
  BY <1>3, <1>4, Zenon
=============================================================================
