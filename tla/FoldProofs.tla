----------------------------- MODULE FoldProofs -----------------------------
(***************************************************************************)
(* What FoldLeft does with any operator, one element at a time. A proof    *)
(* about a translator, the meter or the dataset copy takes an instance of  *)
(* this module with its step for `op`.                                     *)
(***************************************************************************)
EXTENDS Integers, Sequences, SequencesExt, WellFoundedInduction, TLAPS

CONSTANT op(_, _)

-----------------------------------------------------------------------------
(* Numbers are reached from 0, one after the other. *)
LEMMA Induction ==
  ASSUME NEW S, 0 \in S, \A n \in Nat : n \in S => n + 1 \in S
  PROVE  Nat \subseteq S
<1>. SUFFICES ASSUME Nat \ S # {} PROVE FALSE
  OBVIOUS
<1>. DEFINE T == Nat \ S
<1>1. PICK x \in T : \A y \in T : <<y, x>> \notin OpToRel(<, Nat)
  BY NatLessThanWellFounded, WFMin
<1>2. x # 0 /\ x - 1 \in Nat
  OBVIOUS
<1>3. <<x - 1, x>> \in OpToRel(<, Nat)
  BY <1>1, <1>2 DEF OpToRel
<1>4. x - 1 \in S
  BY <1>1, <1>2, <1>3
<1>5. x \in Nat /\ x \notin S /\ (x - 1) + 1 = x
  OBVIOUS
<1>. HIDE DEF T
<1>6. (x - 1) + 1 \in S
  BY <1>2, <1>4
<1>. QED
  BY <1>5, <1>6

-----------------------------------------------------------------------------
(* The recursion of FoldLeft over the positions of s: what is folded of a  *)
(* set of positions, by the largest of them.                               *)
Folds(b, s, m, f) ==
  f = [t \in SUBSET (1..m) |-> IF t = {} THEN b ELSE op(f[t \ {Max(t)}], s[Max(t)])]

LEMMA MaxIs ==
  ASSUME NEW t \in SUBSET Nat, NEW x \in t, \A y \in t : y <= x
  PROVE  Max(t) = x
<1>1. x \in Nat /\ \A y \in t : y \in Nat /\ x >= y
  OBVIOUS
<1>2. Max(t) \in t /\ \A y \in t : Max(t) >= y
  BY <1>1 DEF Max
<1>3. Max(t) \in Nat /\ Max(t) >= x /\ Max(t) <= x
  BY <1>1, <1>2
<1>. QED
  BY <1>1, <1>3

LEMMA FoldsExist ==
  ASSUME NEW b, NEW s, NEW n \in Nat
  PROVE  \E f : Folds(b, s, n, f)
<1>. DEFINE S == {m \in Nat : \E f : Folds(b, s, m, f)}
<1>1. 0 \in S
  <2>1. SUBSET (1..0) = {{}}
    OBVIOUS
  <2>2. Folds(b, s, 0, [t \in {{}} |-> b])
    BY <2>1 DEF Folds
  <2>. QED
    BY <2>2
<1>2. ASSUME NEW m \in Nat, m \in S PROVE m + 1 \in S
  <2>1. PICK f : Folds(b, s, m, f)
    BY <1>2
  <2>. DEFINE g == [t \in SUBSET (1..(m + 1)) |->
                      IF m + 1 \in t THEN op(f[t \ {m + 1}], s[m + 1]) ELSE f[t]]
  <2>2. ASSUME NEW t \in SUBSET (1..(m + 1))
        PROVE  g[t] = IF t = {} THEN b ELSE op(g[t \ {Max(t)}], s[Max(t)])
    <3>1. CASE m + 1 \in t
      <4>1. Max(t) = m + 1
        BY <3>1, MaxIs
      <4>2. t \ {m + 1} \in SUBSET (1..(m + 1)) /\ m + 1 \notin t \ {m + 1}
        OBVIOUS
      <4>3. g[t \ {m + 1}] = f[t \ {m + 1}]
        BY <4>2
      <4>. QED
        BY <3>1, <4>1, <4>3
    <3>2. CASE m + 1 \notin t
      <4>0. ASSUME NEW i \in t PROVE i \in 1..m
        <5>1. i \in 1..(m + 1) /\ i # m + 1
          BY <3>2
        <5>. QED
          BY <5>1
      <4>1. t \in SUBSET (1..m) /\ t \ {Max(t)} \in SUBSET (1..(m + 1)) /\ m + 1 \notin t \ {Max(t)}
        BY <3>2, <4>0
      <4>2. g[t] = f[t] /\ g[t \ {Max(t)}] = f[t \ {Max(t)}]
        BY <3>2, <4>1
      <4>3. f[t] = IF t = {} THEN b ELSE op(f[t \ {Max(t)}], s[Max(t)])
        BY <2>1, <4>1 DEF Folds
      <4>. QED
        BY <4>2, <4>3
    <3>. QED
      BY <3>1, <3>2
  <2>3. g = [t \in SUBSET (1..(m + 1)) |-> IF t = {} THEN b ELSE op(g[t \ {Max(t)}], s[Max(t)])]
    BY <2>2
  <2>4. Folds(b, s, m + 1, g)
    BY <2>3 DEF Folds
  <2>. QED
    BY <2>4
<1>. HIDE DEF S
<1>3. n \in S
  BY <1>1, <1>2, Induction
<1>. QED
  BY <1>3 DEF S

Folded(b, s) == FoldLeft(op, b, s)

(* A fold goes through values: it starts from its base, each element takes *)
(* it one step on, and it is the last of them.                             *)
Unrolls(b, s, n, h) ==
  /\ h = [k \in 0..n |-> h[k]]
  /\ h[0] = b /\ h[n] = Folded(b, s)
  /\ \A k \in 1..n : h[k] = op(h[k - 1], s[k])

LEMMA Unrolled ==
  ASSUME NEW b, NEW s, NEW n \in Nat, DOMAIN s = 1..n
  PROVE  \E h : Unrolls(b, s, n, h)
<1>. DEFINE iter == CHOOSE f : Folds(b, s, n, f)
<1>. DEFINE h == [k \in 0..n |-> iter[1..k]]
<1>1. Folds(b, s, n, iter)
  BY FoldsExist
<1>2. Folded(b, s) = iter[1..n]
  BY DEF Folded, FoldLeft, MapThenFoldSet, Folds
<1>. HIDE DEF iter
<1>3. h[0] = b
  <2>1. 1..0 = {} /\ {} \in SUBSET (1..n)
    OBVIOUS
  <2>. QED
    BY <1>1, <2>1 DEF Folds
<1>4. ASSUME NEW k \in 1..n PROVE h[k] = op(h[k - 1], s[k])
  <2>1. 1..k \in SUBSET (1..n) /\ 1..k # {}
    <3>1. k \in 1..k
      OBVIOUS
    <3>2. \A i \in 1..k : i \in 1..n
      OBVIOUS
    <3>. QED
      BY <3>1, <3>2
  <2>2. (1..k) \ {k} = 1..(k - 1)
    OBVIOUS
  <2>3. k \in 0..n /\ k - 1 \in 0..n
    OBVIOUS
  <2>4. Max(1..k) = k
    BY MaxIs
  <2>5. iter[1..k] = op(iter[(1..k) \ {k}], s[k])
    BY <1>1, <2>1, <2>4 DEF Folds
  <2>. QED
    BY <2>2, <2>3, <2>5
<1>5. h = [k \in 0..n |-> h[k]] /\ h[n] = iter[1..n]
  OBVIOUS
<1>. HIDE DEF h
<1>. QED
  BY <1>2, <1>3, <1>4, <1>5 DEF Unrolls
=============================================================================
