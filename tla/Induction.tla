------------------------------- MODULE Induction -------------------------------
(***************************************************************************)
(* Induction as facts about sets of numbers, for the proofs about the      *)
(* recursive functions of the models and about lists kept short.           *)
(***************************************************************************)
EXTENDS Naturals, WellFoundedInduction, TLAPS

\* Numbers have a least one.
LEMMA Least ==
  ASSUME NEW S, S \subseteq Nat, S # {}
  PROVE  \E n \in S : \A m \in S : n <= m
<1>1. PICK n \in S : \A m \in S : <<m, n>> \notin OpToRel(<, Nat)
  BY NatLessThanWellFounded, WFMin
<1>2. \A m \in S : ~ (m < n)
  BY <1>1, Zenon DEF OpToRel
<1> QED
  BY <1>2

\* What holds at 0 and is handed on holds up to n.
LEMMA OneByOne ==
  ASSUME NEW n \in Nat, NEW S, S \subseteq 0 .. n, 0 \in S,
         \A k \in 1 .. n : k - 1 \in S => k \in S
  PROVE  S = 0 .. n
<1> DEFINE Left == (0 .. n) \ S
<1> SUFFICES ASSUME Left # {} PROVE FALSE
  OBVIOUS
<1>1. Left \subseteq Nat
  OBVIOUS
<1>2. PICK k \in Left : \A m \in Left : k <= m
  BY <1>1, Least
<1>3. k \in 1 .. n /\ k - 1 \in 0 .. n /\ ~ (k <= k - 1)
  OBVIOUS
<1>4. k - 1 \in S
  BY <1>2, <1>3
<1> QED
  BY <1>3, <1>4

\* f[k] is what next makes of f[k - 1] and k.
Follows(f, n, first, next) ==
  f[0] = first /\ \A k \in 1 .. n : f[k] = next[<<f[k - 1], k>>]

LEMMA Iteration ==
  ASSUME NEW n \in Nat, NEW V, NEW first \in V, NEW next \in [V \X (1 .. n) -> V]
  PROVE  \E f \in [0 .. n -> V] : Follows(f, n, first, next)
<1> DEFINE S == {m \in 0 .. n : \E f \in [0 .. m -> V] : Follows(f, m, first, next)}
<1>1. 0 \in S
  <2> DEFINE f == [k \in 0 .. 0 |-> first]
  <2>1. f \in [0 .. 0 -> V] /\ f[0] = first
    OBVIOUS
  <2> HIDE DEF f
  <2> QED
    BY <2>1 DEF Follows
<1>2. ASSUME NEW m \in 1 .. n, m - 1 \in S
      PROVE  m \in S
  <2>1. PICK f \in [0 .. m - 1 -> V] : Follows(f, m - 1, first, next)
    BY <1>2
  <2> DEFINE last == next[<<f[m - 1], m>>]
             g == [k \in 0 .. m |-> IF k = m THEN last ELSE f[k]]
  <2>2. last \in V
    <3>1. m - 1 \in 0 .. m - 1
      OBVIOUS
    <3>2. <<f[m - 1], m>> \in V \X (1 .. n)
      BY <3>1
    <3> QED
      BY <3>2
  <2> HIDE DEF last
  <2>3. g \in [0 .. m -> V]
    BY <2>2
  <2>4. g[m] = last /\ \A k \in 0 .. m - 1 : g[k] = f[k]
    OBVIOUS
  <2> HIDE DEF g
  <2>5. g[0] = first
    BY <2>1, <2>4 DEF Follows
  <2>6. ASSUME NEW k \in 1 .. m
        PROVE  g[k] = next[<<g[k - 1], k>>]
    <3>1. g[k - 1] = f[k - 1]
      BY <2>4
    <3>2. CASE k = m
      BY <2>4, <3>1, <3>2 DEF last
    <3>3. CASE k # m
      BY <2>1, <2>4, <3>1, <3>3 DEF Follows
    <3> QED
      BY <3>2, <3>3
  <2> QED
    BY <2>3, <2>5, <2>6 DEF Follows
<1>3. S \subseteq 0 .. n /\ \A m \in 1 .. n : m - 1 \in S => m \in S
  BY <1>2
<1> HIDE DEF S
<1>4. S = 0 .. n
  BY <1>1, <1>3, OneByOne
<1>5. n \in S
  BY <1>4
<1> QED
  BY <1>5 DEF S
=============================================================================
