----------------------------- MODULE BasicLemmas -----------------------------
(***************************************************************************)
(* The facts the proofs rest on: what Least and FirstStop of module         *)
(* Scanning are, for every set and every range, and what Cmp and Reversed   *)
(* of module Orderings are.                                                 *)
(***************************************************************************)
EXTENDS Scanning, Orderings, WellFoundedInduction, TLAPS

\* The least element of a set of naturals is in the set and below the others.
LEMMA LeastOf ==
  ASSUME NEW S \in SUBSET Nat, S # {}
  PROVE  Least(S) \in S /\ \A n \in S : Least(S) <= n
<1> DEFINE Below == {ss \in Nat \X Nat : ss[1] < ss[2]}
<1>1. OpToRel(<, Nat) = Below
  BY DEF OpToRel
<1>2. IsWellFoundedOn(Below, Nat)
  BY <1>1, NatLessThanWellFounded
<1>3. PICK m \in S : \A n \in S : ~ (<<n, m>> \in Below)
  <2> HIDE DEF Below
  <2> QED
    BY <1>2, WFMin
<1>4. ASSUME NEW n \in S PROVE m <= n
  <2>1. m \in Nat /\ n \in Nat /\ <<n, m>> \notin Below
    BY <1>3
  <2>2. ~ (n < m)
    BY <2>1
  <2> QED
    BY <2>1, <2>2
<1> QED
  BY <1>3, <1>4 DEF Least

\* A scan ends within its range, on a stop or at the end, and passes none.
LEMMA FirstStopIs ==
  ASSUME NEW start \in Nat, NEW end \in Nat, start <= end, NEW stops
  PROVE  /\ FirstStop(start, end, stops) \in start .. end
         /\ FirstStop(start, end, stops) = end \/ FirstStop(start, end, stops) \in stops
         /\ \A p \in start .. end : p < FirstStop(start, end, stops) => p \notin stops
<1> DEFINE S == {k \in start .. end : k = end \/ k \in stops}
<1>1. S \in SUBSET Nat /\ end \in S
  OBVIOUS
<1>2. Least(S) \in S /\ \A n \in S : Least(S) <= n
  BY <1>1, LeastOf
<1>3. FirstStop(start, end, stops) = Least(S)
  BY DEF FirstStop
<1> HIDE DEF S
<1>4. Least(S) \in Nat
  BY <1>1, <1>2
<1>5. ASSUME NEW p \in start .. end, p < Least(S), p \in stops PROVE FALSE
  <2>1. p \in S
    BY <1>5 DEF S
  <2> QED
    BY <1>2, <1>4, <1>5, <2>1
<1> QED
  BY <1>2, <1>3, <1>5 DEF S

\* And it is the only place that does.
LEMMA FirstStopUnique ==
  ASSUME NEW start \in Nat, NEW end \in Nat, start <= end, NEW stops,
         NEW k \in start .. end, k = end \/ k \in stops,
         \A p \in start .. end : p < k => p \notin stops
  PROVE  k = FirstStop(start, end, stops)
<1> DEFINE f == FirstStop(start, end, stops)
<1>1. /\ f \in start .. end /\ (f = end \/ f \in stops)
      /\ \A p \in start .. end : p < f => p \notin stops
  BY FirstStopIs
<1> HIDE DEF f
<1>2. ~ (f < k) /\ ~ (k < f)
  BY <1>1
<1> QED
  BY <1>1, <1>2 DEF f

-------------------------------------------------------------------------------
(***************************************************************************)
(* Induction, with a set in the place of the predicate, and the functions   *)
(* that a recursive definition over 0 .. m stands for.                      *)
(***************************************************************************)
LEMMA Induction ==
  ASSUME NEW S, 0 \in S, \A n \in Nat : n \in S => n + 1 \in S
  PROVE  \A n \in Nat : n \in S
<1> DEFINE D == Nat \ S
<1>1. SUFFICES ASSUME D # {} PROVE FALSE
  OBVIOUS
<1>2. Least(D) \in D /\ \A n \in D : Least(D) <= n
  BY <1>1, LeastOf
<1> DEFINE m == Least(D)
<1>3. m \in Nat /\ m \notin S /\ \A n \in D : m <= n
  BY <1>2
<1> HIDE DEF m
<1>4. m - 1 \in Nat /\ (m - 1) + 1 = m
  BY <1>3
<1>5. m - 1 \in S
  BY <1>3, <1>4
<1> QED
  BY <1>3, <1>4, <1>5

\* A value and a step for the functions on 0 .. m with values in V.
Stepping(V, c, m, step) == c \in V /\ m \in Nat /\ step \in [V \X (1 .. m) -> V]

Steps(g, V, c, m, step) ==
  /\ g \in [0 .. m -> V]
  /\ g[0] = c
  /\ \A n \in 1 .. m : g[n] = step[<<g[n - 1], n>>]

\* They determine one.
LEMMA Recursion ==
  ASSUME NEW V, NEW c, NEW m, NEW step, Stepping(V, c, m, step)
  PROVE  \E g : Steps(g, V, c, m, step)
<1> USE DEF Stepping
<1> DEFINE Good(g, k) == g[0] = c /\ \A n \in 1 .. k : g[n] = step[<<g[n - 1], n>>]
           S == {k \in Nat : k <= m => \E g \in [0 .. k -> V] : Good(g, k)}
<1>1. 0 \in S
  <2>1. [n \in 0 .. 0 |-> c] \in [0 .. 0 -> V] /\ Good([n \in 0 .. 0 |-> c], 0)
    OBVIOUS
  <2> QED
    BY <2>1
<1>2. ASSUME NEW k \in Nat, k \in S PROVE k + 1 \in S
  <2>1. SUFFICES ASSUME k + 1 <= m PROVE \E g \in [0 .. k + 1 -> V] : Good(g, k + 1)
    OBVIOUS
  <2>2. PICK g \in [0 .. k -> V] : Good(g, k)
    BY <1>2, <2>1
  <2> DEFINE h == [n \in 0 .. k + 1 |-> IF n <= k THEN g[n] ELSE step[<<g[k], k + 1>>]]
  <2>3. h \in [0 .. k + 1 -> V]
    BY <2>1
  <2>4. ASSUME NEW n \in 1 .. k + 1 PROVE h[n] = step[<<h[n - 1], n>>]
    <3>1. h[n - 1] = g[n - 1]
      OBVIOUS
    <3>2. CASE n <= k
      BY <2>2, <3>1, <3>2
    <3>3. CASE n = k + 1
      <4>1. h[n] = step[<<g[k], k + 1>>] /\ n - 1 = k
        BY <3>3
      <4>2. g[k] = h[n - 1]
        BY <3>1, <4>1
      <4> QED
        BY <3>3, <4>1, <4>2
    <3> QED
      BY <3>2, <3>3
  <2>5. h[0] = c
    BY <2>2
  <2>6. Good(h, k + 1)
    <3> HIDE DEF h
    <3> QED
      BY <2>4, <2>5
  <2> HIDE DEF h, Good
  <2> QED
    BY <2>3, <2>6
<1>3. \A k \in Nat : k \in S
  <2> HIDE DEF S
  <2> QED
    BY <1>1, <1>2, Induction
<1>4. m \in S
  <2> HIDE DEF S
  <2> QED
    BY <1>3
<1> HIDE DEF Good
<1>5. \E g \in [0 .. m -> V] : Good(g, m)
  BY <1>4
<1> QED
  BY <1>5 DEF Good, Steps

-------------------------------------------------------------------------------
(***************************************************************************)
(* Values of numerals.  f[i] is the value after i digits.                   *)
(***************************************************************************)
Grows(f, n) ==
  /\ \A i \in 0 .. n : f[i] \in Nat
  /\ \A i \in 0 .. n - 1 : 10 * f[i] <= f[i + 1] /\ f[i + 1] <= 10 * f[i] + 9

\* A value that is less after some digits is less after as many digits more.
LEMMA LessStays ==
  ASSUME NEW f, NEW g, NEW m \in Nat, NEW n \in Nat, Grows(f, m), Grows(g, n),
         NEW x \in 0 .. m, NEW y \in 0 .. n, f[x] < g[y],
         NEW k \in Nat, x + k <= m, y + k <= n
  PROVE  f[x + k] < g[y + k]
<1> DEFINE S == {i \in Nat : i <= k => f[x + i] < g[y + i]}
<1>1. 0 \in S
  OBVIOUS
<1>2. ASSUME NEW i \in Nat, i \in S PROVE i + 1 \in S
  <2>1. SUFFICES ASSUME i + 1 <= k PROVE f[x + (i + 1)] < g[y + (i + 1)]
    OBVIOUS
  <2>2. f[x + i] < g[y + i]
    BY <1>2, <2>1
  <2>3. /\ x + i \in 0 .. m - 1 /\ (x + i) + 1 = x + (i + 1) /\ x + (i + 1) \in 0 .. m
        /\ y + i \in 0 .. n - 1 /\ (y + i) + 1 = y + (i + 1) /\ y + (i + 1) \in 0 .. n
    BY <2>1
  <2>4. f[x + i] \in Nat /\ f[x + (i + 1)] \in Nat /\ f[x + (i + 1)] <= 10 * f[x + i] + 9
    BY <2>3 DEF Grows
  <2>5. g[y + i] \in Nat /\ g[y + (i + 1)] \in Nat /\ 10 * g[y + i] <= g[y + (i + 1)]
    BY <2>3 DEF Grows
  <2> QED
    BY <2>2, <2>4, <2>5
<1>3. k \in S
  <2> HIDE DEF S
  <2> QED
    BY <1>1, <1>2, Induction
<1> QED
  BY <1>3

\* More digits, a greater value, if the first of them makes it greater.
LEMMA LongerIsGreater ==
  ASSUME NEW f, NEW g, NEW m \in Nat, NEW n \in Nat, Grows(f, m), Grows(g, n),
         m < n, f[0] < g[1]
  PROVE  f[m] < g[n]
<1> DEFINE S == {i \in Nat : m + (1 + i) <= n => f[m] < g[m + (1 + i)]}
<1>1. 0 \in S
  <2>1. f[0 + m] < g[1 + m]
    <3>1. 0 \in 0 .. m /\ 1 \in 0 .. n /\ 0 + m <= m /\ 1 + m <= n
      OBVIOUS
    <3> QED
      BY <3>1, LessStays
  <2>2. 0 + m = m /\ 1 + m = m + (1 + 0)
    OBVIOUS
  <2> QED
    BY <2>1, <2>2
<1>2. ASSUME NEW i \in Nat, i \in S PROVE i + 1 \in S
  <2>1. SUFFICES ASSUME m + (1 + (i + 1)) <= n PROVE f[m] < g[m + (1 + (i + 1))]
    OBVIOUS
  <2>2. f[m] < g[m + (1 + i)]
    BY <1>2, <2>1
  <2>3. /\ m + (1 + i) \in 0 .. n - 1 /\ (m + (1 + i)) + 1 = m + (1 + (i + 1))
        /\ m + (1 + (i + 1)) \in 0 .. n /\ m \in 0 .. m
    BY <2>1
  <2>4. /\ f[m] \in Nat /\ g[m + (1 + i)] \in Nat /\ g[m + (1 + (i + 1))] \in Nat
        /\ 10 * g[m + (1 + i)] <= g[m + (1 + (i + 1))]
    BY <2>3 DEF Grows
  <2> QED
    BY <2>2, <2>4
<1>3. n - (m + 1) \in Nat /\ m + (1 + (n - (m + 1))) = n /\ n - (m + 1) \in S
  <2> HIDE DEF S
  <2> QED
    BY <1>1, <1>2, Induction
<1> QED
  BY <1>3

-------------------------------------------------------------------------------
\* Comparing two numbers always yields an Ordering, and Equal for equal ones only.
LEMMA CmpIs ==
  ASSUME NEW x \in Int, NEW y \in Int
  PROVE  Cmp(x, y) \in Orders /\ (Cmp(x, y) = "Equal" <=> x = y)
<1>1. x < y \/ x = y \/ x > y
  OBVIOUS
<1>2. CASE x < y
  BY <1>2 DEF Cmp, Orders
<1>3. CASE x = y
  BY <1>3 DEF Cmp, Orders
<1>4. CASE x > y
  BY <1>4 DEF Cmp, Orders
<1> QED
  BY <1>1, <1>2, <1>3, <1>4

\* Comparing the other way round gives the reverse.
LEMMA CmpReversed ==
  ASSUME NEW x \in Int, NEW y \in Int
  PROVE  Cmp(y, x) = Reversed(Cmp(x, y))
<1>1. x < y \/ x = y \/ x > y
  OBVIOUS
<1>2. CASE x < y
  BY <1>2 DEF Cmp, Reversed
<1>3. CASE x = y
  BY <1>3 DEF Cmp, Reversed
<1>4. CASE x > y
  BY <1>4 DEF Cmp, Reversed
<1> QED
  BY <1>1, <1>2, <1>3, <1>4

\* Reversing keeps draws and what is open, and nothing else.
LEMMA ReversedIs ==
  /\ Reversed("Less") = "Greater" /\ Reversed("Greater") = "Less"
  /\ Reversed("Equal") = "Equal" /\ Reversed("Undecided") = "Undecided"
  /\ \A o \in Orders : /\ Reversed(o) \in Orders
                       /\ (Reversed(o) = "Equal") <=> (o = "Equal")
BY DEF Reversed, Orders
==============================================================================
