----------------------------- MODULE Recursion ------------------------------
(* Facts about what is computed along a sequence, for Framing_proof and       *)
(* Status_proof: induction over sets of numbers, recursive functions that     *)
(* exist, and FlattenSeq.  Induction and recursion are stated for sets and    *)
(* functions instead of operators, so that they can be cited by name.         *)
EXTENDS Integers, SequencesExt, SequenceTheorems, FiniteSetTheorems, WellFoundedInduction, TLAPS

-----------------------------------------------------------------------------
(* Induction.                                                                 *)

\* A set with 0 and the successor of each of its numbers has them all.
LEMMA SetInduction ==
    ASSUME NEW S, 0 \in S, \A n \in Nat : n \in S => n + 1 \in S
    PROVE  Nat \subseteq S
<1> DEFINE T == Nat \ S
<1>1. SUFFICES ASSUME T # {} PROVE FALSE
  BY <1>1
<1>2. PICK x \in T : \A y \in T : ~(<<y, x>> \in OpToRel(<, Nat))
  BY <1>1, NatLessThanWellFounded, WFMin, Zenon
<1>3. x \in Nat /\ x # 0 /\ x - 1 \in Nat /\ x - 1 < x
  OBVIOUS
<1>4. x - 1 \in S
  BY <1>2, <1>3 DEF OpToRel
<1> QED BY <1>3, <1>4

\* The same up to a bound.
LEMMA BoundedInduction ==
    ASSUME NEW N \in Nat, NEW S, 0 \in S, \A n \in 0 .. N - 1 : n \in S => n + 1 \in S
    PROVE  0 .. N \subseteq S
<1> DEFINE T == {n \in Nat : n <= N => n \in S}
<1>1. 0 \in T
  OBVIOUS
<1>2. \A n \in Nat : n \in T => n + 1 \in T
  OBVIOUS
<1>3. Nat \subseteq T
  <2> HIDE DEF T
  <2> QED BY <1>1, <1>2, SetInduction
<1> QED BY <1>3

-----------------------------------------------------------------------------
(* Recursive functions.                                                       *)

\* A function of the places in a sequence, whose value at i is made of its value
\* at a later place, up to N, or at the place before.
Makes(make, D, T) == \A i \in D : \A t \in T : make[<<i, t>>] \in T
GoesOn(next, N) == \A i \in Nat \ {0} : next[i] \in Nat \ {0} /\ (i <= N => next[i] > i)
Forward(f, T, end, N, next, make) ==
    /\ f \in [Nat \ {0} -> T]
    /\ \A i \in Nat \ {0} : f[i] = IF i > N THEN end ELSE make[<<i, f[next[i]]>>]
Backward(f, T, first, n, make) ==
    /\ f \in [1 .. n -> T]
    /\ \A i \in 1 .. n : f[i] = IF i = 1 THEN first ELSE make[<<i, f[i - 1]>>]

LEMMA ForwardRecursion ==
    ASSUME NEW T, NEW end \in T, NEW N \in Int,
           NEW next, GoesOn(next, N), NEW make, Makes(make, Nat \ {0}, T)
    PROVE  \E f : Forward(f, T, end, N, next, make)
<1> USE DEF GoesOn, Makes
<1> DEFINE From(j) == {i \in Nat \ {0} : i > N - j}
           Fits(f, i) == f[i] = IF i > N THEN end ELSE make[<<i, f[next[i]]>>]
           S == {j \in Nat : \E f \in [From(j) -> T] : \A i \in From(j) : Fits(f, i)}
<1>1. 0 \in S
  <2> DEFINE f == [i \in From(0) |-> end]
  <2>1. f \in [From(0) -> T] /\ \A i \in From(0) : Fits(f, i)
    OBVIOUS
  <2> QED BY <2>1
<1>2. \A j \in Nat : j \in S => j + 1 \in S
  <2> SUFFICES ASSUME NEW j \in Nat, j \in S PROVE j + 1 \in S
    OBVIOUS
  <2>1. PICK g \in [From(j) -> T] : \A i \in From(j) : Fits(g, i)
    OBVIOUS
  <2> DEFINE f == [i \in From(j + 1) |-> IF i > N - j THEN g[i] ELSE make[<<i, g[next[i]]>>]]
  <2>2. \A i \in From(j + 1) : i <= N => next[i] \in From(j)
    OBVIOUS
  <2>3. \A i \in From(j + 1) : f[i] \in T
    <3> TAKE i \in From(j + 1)
    <3>1. CASE i > N - j
      BY <3>1
    <3>2. CASE ~(i > N - j)
      <4>1. g[next[i]] \in T
        BY <2>2, <3>2
      <4> QED BY <3>2, <4>1
    <3> QED BY <3>1, <3>2
  <2>4. \A i \in From(j + 1) : Fits(f, i)
    <3> TAKE i \in From(j + 1)
    <3>1. i <= N => f[next[i]] = g[next[i]]
      BY <2>2
    <3> QED BY <3>1, <2>1
  <2>5. f \in [From(j + 1) -> T]
    BY <2>3
  <2> HIDE DEF f
  <2>6. \E h \in [From(j + 1) -> T] : \A i \in From(j + 1) : Fits(h, i)
    BY <2>4, <2>5
  <2>7. j + 1 \in Nat
    OBVIOUS
  <2> HIDE DEF From, Fits
  <2> QED BY <2>6, <2>7
<1>3. Nat \subseteq S
  <2> HIDE DEF S
  <2> QED BY <1>1, <1>2, SetInduction
<1>4. \E n \in Nat : n >= N
  <2>1. CASE N \in Nat
    BY <2>1
  <2>2. CASE N \notin Nat
    <3>1. 0 >= N
      BY <2>2
    <3> QED BY <3>1
  <2> QED BY <2>1, <2>2
<1>5. PICK n \in Nat : n >= N
  BY <1>4
<1>6. From(n) = Nat \ {0}
  BY <1>5
<1>7. PICK f \in [From(n) -> T] : \A i \in From(n) : Fits(f, i)
  BY <1>3
<1> HIDE DEF GoesOn, Makes
<1> QED BY <1>6, <1>7 DEF Forward

\* There is one such function: what follows it agrees with it.
Follows(g, T, end, N, next, make) ==
    \A i \in Nat \ {0} : /\ i > N => g[i] = end
                         /\ i <= N /\ g[next[i]] \in T => g[i] = make[<<i, g[next[i]]>>]

LEMMA ForwardUnique ==
    ASSUME NEW T, NEW end, NEW N \in Int, NEW next, GoesOn(next, N), NEW make,
           NEW f, Forward(f, T, end, N, next, make), NEW g, Follows(g, T, end, N, next, make)
    PROVE  \A i \in Nat \ {0} : g[i] = f[i]
<1> DEFINE S == {n \in Nat : \A i \in Nat \ {0} : i > N - n => g[i] = f[i]}
<1>1. 0 \in S
  <2> SUFFICES ASSUME NEW i \in Nat \ {0}, i > N - 0 PROVE g[i] = f[i]
    OBVIOUS
  <2>1. i > N
    OBVIOUS
  <2> QED BY <2>1 DEF Forward, Follows
<1>2. ASSUME NEW n \in Nat, n \in S PROVE n + 1 \in S
  <2> SUFFICES ASSUME NEW i \in Nat \ {0}, i > N - (n + 1) PROVE g[i] = f[i]
    OBVIOUS
  <2>1. CASE i > N
    BY <2>1 DEF Forward, Follows
  <2>2. CASE ~(i > N)
    <3>1. i <= N /\ next[i] \in Nat \ {0} /\ next[i] > N - n
      BY <2>2 DEF GoesOn
    <3>2. g[next[i]] = f[next[i]]
      BY <1>2, <3>1
    <3>3. f[next[i]] \in T
      BY <3>1 DEF Forward
    <3>4. g[i] = make[<<i, g[next[i]]>>]
      BY <3>1, <3>2, <3>3 DEF Follows
    <3>5. f[i] = make[<<i, f[next[i]]>>]
      BY <2>2 DEF Forward
    <3> QED BY <3>2, <3>4, <3>5
  <2> QED BY <2>1, <2>2
<1>3. Nat \subseteq S
  <2> HIDE DEF S
  <2> QED BY <1>1, <1>2, SetInduction
<1> SUFFICES ASSUME NEW i \in Nat \ {0} PROVE g[i] = f[i]
  OBVIOUS
<1>4. \E n \in Nat : i > N - n
  <2>1. N \in Nat => i > N - N
    OBVIOUS
  <2>2. N \notin Nat => i > N - 0
    OBVIOUS
  <2> QED BY <2>1, <2>2
<1> QED BY <1>3, <1>4

LEMMA BackwardRecursion ==
    ASSUME NEW T, NEW n \in Nat, NEW first \in T, NEW make, Makes(make, 1 .. n, T)
    PROVE  \E f : Backward(f, T, first, n, make)
<1> USE DEF Makes
<1> DEFINE Fits(f, i) == f[i] = IF i = 1 THEN first ELSE make[<<i, f[i - 1]>>]
           S == {m \in 0 .. n : \E f \in [1 .. m -> T] : \A i \in 1 .. m : Fits(f, i)}
<1>1. 0 \in S
  <2> DEFINE f == [i \in 1 .. 0 |-> first]
  <2>1. f \in [1 .. 0 -> T] /\ \A i \in 1 .. 0 : Fits(f, i)
    OBVIOUS
  <2> HIDE DEF f
  <2>2. \E g \in [1 .. 0 -> T] : \A i \in 1 .. 0 : Fits(g, i)
    BY <2>1
  <2>3. 0 \in 0 .. n
    OBVIOUS
  <2> HIDE DEF Fits
  <2> QED BY <2>2, <2>3
<1>2. \A m \in 0 .. n - 1 : m \in S => m + 1 \in S
  <2> SUFFICES ASSUME NEW m \in 0 .. n - 1, m \in S PROVE m + 1 \in S
    OBVIOUS
  <2>1. PICK g \in [1 .. m -> T] : \A i \in 1 .. m : Fits(g, i)
    OBVIOUS
  <2> DEFINE f == [i \in 1 .. m + 1 |->
                     IF i <= m THEN g[i] ELSE IF i = 1 THEN first ELSE make[<<i, g[i - 1]>>]]
  <2>2. \A i \in 1 .. m + 1 : f[i] \in T
    OBVIOUS
  <2>3. \A i \in 1 .. m + 1 : Fits(f, i)
    <3> TAKE i \in 1 .. m + 1
    <3>1. i # 1 => f[i - 1] = g[i - 1]
      OBVIOUS
    <3> QED BY <3>1, <2>1
  <2>4. f \in [1 .. m + 1 -> T]
    BY <2>2
  <2> HIDE DEF f
  <2>5. \E h \in [1 .. m + 1 -> T] : \A i \in 1 .. m + 1 : Fits(h, i)
    BY <2>3, <2>4
  <2> QED BY <2>5
<1>3. 0 .. n \subseteq S
  <2> HIDE DEF S
  <2> QED BY <1>1, <1>2, BoundedInduction
<1>4. PICK f \in [1 .. n -> T] : \A i \in 1 .. n : Fits(f, i)
  BY <1>3
<1> QED BY <1>4 DEF Backward

\* A function of the subsets of 1..n, as folds are: it takes out one element
\* that pick names, and goes on with what is left.
Picks(pick, D) == \A t \in SUBSET D : t # {} => pick[t] \in t
Folding(f, T, base, D, pick, make) ==
    /\ f \in [SUBSET D -> T]
    /\ \A t \in SUBSET D : f[t] = IF t = {} THEN base ELSE make[<<pick[t], f[t \ {pick[t]}]>>]

LEMMA SetRecursion ==
    ASSUME NEW T, NEW base \in T, NEW D, IsFiniteSet(D),
           NEW pick, Picks(pick, D), NEW make, Makes(make, D, T)
    PROVE  \E f : Folding(f, T, base, D, pick, make)
<1> DEFINE Small(j) == {t \in SUBSET D : Cardinality(t) <= j}
           Fits(f, t) == f[t] = IF t = {} THEN base ELSE make[<<pick[t], f[t \ {pick[t]}]>>]
           S == {j \in Nat : \E f \in [Small(j) -> T] : \A t \in Small(j) : Fits(f, t)}
<1>1. \A t \in SUBSET D : /\ IsFiniteSet(t) /\ Cardinality(t) \in Nat
                          /\ (Cardinality(t) = 0 <=> t = {})
                          /\ t # {} => /\ pick[t] \in t /\ t \ {pick[t]} \in SUBSET D
                                        /\ Cardinality(t \ {pick[t]}) = Cardinality(t) - 1
  <2> TAKE t \in SUBSET D
  <2>1. IsFiniteSet(t) /\ Cardinality(t) \in Nat
    BY FS_Subset, FS_CardinalityType
  <2>2. Cardinality(t) = 0 <=> t = {}
    BY <2>1, FS_EmptySet
  <2>3. ASSUME t # {} PROVE pick[t] \in t
    BY <2>3 DEF Picks
  <2>4. t # {} => Cardinality(t \ {pick[t]}) = Cardinality(t) - 1
    BY <2>1, <2>3, FS_RemoveElement
  <2>5. t \ {pick[t]} \in SUBSET D
    OBVIOUS
  <2> QED BY <2>1, <2>2, <2>3, <2>4, <2>5
<1>2. 0 \in S
  <2> DEFINE f == [t \in Small(0) |-> base]
  <2>1. \A t \in Small(0) : t = {}
    <3> TAKE t \in Small(0)
    <3>1. t \in SUBSET D /\ Cardinality(t) <= 0
      OBVIOUS
    <3>2. Cardinality(t) \in Nat /\ (Cardinality(t) = 0 <=> t = {})
      BY <1>1, <3>1
    <3> HIDE DEF Small
    <3> QED BY <3>1, <3>2
  <2>2. f \in [Small(0) -> T] /\ \A t \in Small(0) : Fits(f, t)
    BY <2>1
  <2> HIDE DEF f
  <2>3. \E g \in [Small(0) -> T] : \A t \in Small(0) : Fits(g, t)
    BY <2>2
  <2> HIDE DEF Fits, Small
  <2> QED BY <2>3
<1>3. ASSUME NEW j \in Nat, j \in S PROVE j + 1 \in S
  <2>1. PICK g \in [Small(j) -> T] : \A t \in Small(j) : Fits(g, t)
    BY <1>3
  <2> DEFINE f == [t \in Small(j + 1) |->
                     IF t \in Small(j) THEN g[t] ELSE make[<<pick[t], g[t \ {pick[t]}]>>]]
  <2>2. \A t \in Small(j + 1) : t # {} => pick[t] \in D /\ t \ {pick[t]} \in Small(j) /\ t \ {pick[t]} \in Small(j + 1)
    <3> SUFFICES ASSUME NEW t \in Small(j + 1), t # {}
                 PROVE  pick[t] \in D /\ t \ {pick[t]} \in Small(j) /\ t \ {pick[t]} \in Small(j + 1)
      OBVIOUS
    <3> DEFINE c == Cardinality(t)
               u == t \ {pick[t]}
    <3>1. t \in SUBSET D /\ c <= j + 1
      OBVIOUS
    <3>2. c \in Nat /\ pick[t] \in t /\ u \in SUBSET D /\ Cardinality(u) = c - 1
      BY <1>1, <3>1
    <3>3. c - 1 <= j /\ c - 1 <= j + 1
      <4> HIDE DEF c
      <4> QED BY <3>1, <3>2
    <3> HIDE DEF c, u
    <3>4. u \in Small(j) /\ u \in Small(j + 1)
      BY <3>2, <3>3
    <3> QED BY <3>1, <3>2, <3>4 DEF u
  <2>3. \A t \in Small(j + 1) : t \notin Small(j) => t # {}
    BY <1>1
  <2>4. \A t \in Small(j + 1) : f[t] \in T
    <3> TAKE t \in Small(j + 1)
    <3>1. CASE t \in Small(j)
      BY <3>1
    <3>2. CASE t \notin Small(j)
      <4>1. pick[t] \in D /\ g[t \ {pick[t]}] \in T
        BY <3>2, <2>2, <2>3
      <4> QED BY <3>2, <4>1 DEF Makes
    <3> QED BY <3>1, <3>2
  <2>5. \A t \in Small(j + 1) : Fits(f, t)
    <3> TAKE t \in Small(j + 1)
    <3>1. t # {} => f[t \ {pick[t]}] = g[t \ {pick[t]}]
      BY <2>2
    <3>2. CASE t \in Small(j)
      <4>1. f[t] = g[t]
        BY <3>2
      <4> HIDE DEF f, Small
      <4> QED BY <3>1, <3>2, <4>1, <2>1
    <3>3. CASE t \notin Small(j)
      <4>1. f[t] = make[<<pick[t], g[t \ {pick[t]}]>>] /\ t # {}
        BY <3>3, <2>3
      <4> HIDE DEF f, Small
      <4> QED BY <3>1, <4>1
    <3> QED BY <3>2, <3>3
  <2>6. f \in [Small(j + 1) -> T]
    BY <2>4
  <2> HIDE DEF f
  <2>7. \E h \in [Small(j + 1) -> T] : \A t \in Small(j + 1) : Fits(h, t)
    BY <2>5, <2>6
  <2>8. j + 1 \in Nat
    OBVIOUS
  <2> HIDE DEF Fits, Small
  <2> QED BY <2>7, <2>8
<1>4. Nat \subseteq S
  <2> HIDE DEF S
  <2> QED BY <1>2, <1>3, SetInduction
<1>5. Cardinality(D) \in Nat /\ Small(Cardinality(D)) = SUBSET D
  <2>1. Cardinality(D) \in Nat
    BY FS_CardinalityType
  <2>2. \A t \in SUBSET D : Cardinality(t) <= Cardinality(D)
    BY FS_Subset
  <2> QED BY <2>1, <2>2
<1>6. PICK f \in [Small(Cardinality(D)) -> T] : \A t \in Small(Cardinality(D)) : Fits(f, t)
  BY <1>4, <1>5
<1> HIDE DEF Small
<1> QED BY <1>5, <1>6 DEF Folding

\* The sum of a sequence of numbers, as FoldSeq makes it, is a number.
LEMMA SumType ==
    ASSUME NEW s \in Seq(Nat)
    PROVE  FoldSeq(+, 0, s) \in Nat
<1> DEFINE D == DOMAIN s
           pick == [t \in SUBSET D |-> CHOOSE x \in t : TRUE]
           make == [x \in D \X Nat |-> s[x[1]] + x[2]]
           step(f, t) == IF t = {} THEN 0 ELSE s[CHOOSE x \in t : TRUE] + f[t \ {CHOOSE x \in t : TRUE}]
           iter == CHOOSE f : f = [t \in SUBSET D |-> step(f, t)]
<1>1. IsFiniteSet(D)
  <2>1. D = 1 .. Len(s)
    OBVIOUS
  <2> QED BY <2>1, FS_Interval
<1>2. Picks(pick, D) /\ \A t \in SUBSET D : pick[t] = CHOOSE x \in t : TRUE
  BY DEF Picks
<1>3. \A i \in D : \A n \in Nat : make[<<i, n>>] = s[i] + n /\ s[i] + n \in Nat
  OBVIOUS
<1>4. FoldSeq(+, 0, s) = iter[D]
  BY DEF FoldSeq, FoldFunction, FoldFunctionOnSet, MapThenFoldSet
<1>5. PICK f : Folding(f, Nat, 0, D, pick, make)
  <2>1. Makes(make, D, Nat)
    BY <1>3 DEF Makes
  <2> HIDE DEF D, pick, make
  <2> QED BY <1>1, <1>2, <2>1, SetRecursion
<1>6. f \in [SUBSET D -> Nat] /\ \A t \in SUBSET D : f[t] = step(f, t)
  <2>1. f \in [SUBSET D -> Nat]
    BY <1>5 DEF Folding
  <2>2. ASSUME NEW t \in SUBSET D PROVE f[t] = step(f, t)
    <3>1. CASE t = {}
      BY <3>1, <1>5 DEF Folding
    <3>2. CASE t # {}
      <4> DEFINE x == CHOOSE x \in t : TRUE
      <4>1. x \in D /\ t \ {x} \in SUBSET D /\ pick[t] = x
        BY <3>2
      <4>2. f[t] = make[<<x, f[t \ {x}]>>]
        <5> HIDE DEF x, D, pick, make
        <5> QED BY <3>2, <4>1, <1>5 DEF Folding
      <4>3. make[<<x, f[t \ {x}]>>] = s[x] + f[t \ {x}]
        <5> HIDE DEF x, D, make
        <5> QED BY <2>1, <4>1, <1>3
      <4> QED BY <3>2, <4>2, <4>3
    <3> QED BY <3>1, <3>2
  <2> QED BY <2>1, <2>2
<1>7. f = [t \in SUBSET D |-> step(f, t)]
  <2> HIDE DEF D, step
  <2> QED BY <1>6
<1>8. iter = [t \in SUBSET D |-> step(iter, t)]
  <2> HIDE DEF step
  <2> QED BY <1>7
<1> DEFINE T == {j \in Nat : \A t \in SUBSET D : Cardinality(t) = j => iter[t] = f[t]}
<1>9. Nat \subseteq T
  <2>1. 0 \in T
    <3> SUFFICES ASSUME NEW t \in SUBSET D, Cardinality(t) = 0 PROVE iter[t] = f[t]
      OBVIOUS
    <3>1. t = {}
      BY <1>1, FS_Subset, FS_EmptySet
    <3>2. iter[t] = step(iter, t) /\ f[t] = step(f, t)
      <4> HIDE DEF step, iter
      <4> QED BY <1>6, <1>8
    <3> HIDE DEF iter
    <3> QED BY <3>1, <3>2
  <2>2. ASSUME NEW j \in Nat, j \in T PROVE j + 1 \in T
    <3>0. SUFFICES ASSUME NEW t \in SUBSET D, Cardinality(t) = j + 1 PROVE iter[t] = f[t]
      <4> HIDE DEF iter, D
      <4> QED BY <3>0
    <3> DEFINE x == CHOOSE x \in t : TRUE
    <3>1. IsFiniteSet(t)
      BY <1>1, FS_Subset
    <3>2. t # {}
      BY <3>0, <3>1, FS_EmptySet
    <3>3. x \in t /\ t \ {x} \in SUBSET D
      BY <3>2
    <3>4. Cardinality(t \ {x}) = j
      <4> HIDE DEF x
      <4>1. Cardinality(t \ {x}) = Cardinality(t) - 1
        BY <3>1, <3>3, FS_RemoveElement
      <4> QED BY <3>0, <4>1
    <3>5. iter[t \ {x}] = f[t \ {x}]
      <4> HIDE DEF iter, x, D
      <4> QED BY <2>2, <3>3, <3>4
    <3>6. iter[t] = step(iter, t) /\ f[t] = step(f, t)
      <4> HIDE DEF step, iter
      <4> QED BY <1>6, <1>8
    <3> HIDE DEF iter
    <3> QED BY <3>2, <3>5, <3>6
  <2> HIDE DEF T
  <2> QED BY <2>1, <2>2, SetInduction
<1>10. Cardinality(D) \in Nat /\ D \in SUBSET D
  BY <1>1, FS_CardinalityType
<1>11. iter[D] = f[D] /\ f[D] \in Nat
  <2> HIDE DEF iter, D
  <2> QED BY <1>6, <1>9, <1>10
<1> QED BY <1>4, <1>11

-----------------------------------------------------------------------------
(* Sequences.                                                                 *)

\* The elements of two sequences in a row.
LEMMA ConcatParts ==
    ASSUME NEW S, NEW s \in Seq(S), NEW t \in Seq(S)
    PROVE  /\ s \o t \in Seq(S) /\ Len(s \o t) = Len(s) + Len(t)
           /\ \A i \in 1 .. Len(s) : (s \o t)[i] = s[i]
           /\ \A i \in 1 .. Len(t) : (s \o t)[Len(s) + i] = t[i]
<1>1. /\ s \o t \in Seq(S) /\ Len(s \o t) = Len(s) + Len(t)
      /\ \A i \in 1 .. Len(s) + Len(t) : (s \o t)[i] = IF i <= Len(s) THEN s[i] ELSE t[i - Len(s)]
  BY ConcatProperties
<1>2. Len(s) \in Nat /\ Len(t) \in Nat
  BY LenProperties
<1>3. \A i \in 1 .. Len(s) : (s \o t)[i] = s[i]
  BY <1>1, <1>2
<1>4. ASSUME NEW i \in 1 .. Len(t) PROVE (s \o t)[Len(s) + i] = t[i]
  <2>1. Len(s) + i \in 1 .. Len(s) + Len(t) /\ ~(Len(s) + i <= Len(s)) /\ Len(s) + i - Len(s) = i
    BY <1>2
  <2> QED BY <2>1, <1>1
<1> QED BY <1>1, <1>3, <1>4

\* What is left of a sequence without its first k elements.
Drop(s, k) == SubSeq(s, k + 1, Len(s))

LEMMA DropType ==
    ASSUME NEW S, NEW s \in Seq(S), NEW k \in 0 .. Len(s)
    PROVE  /\ Drop(s, k) \in Seq(S) /\ Len(Drop(s, k)) = Len(s) - k
           /\ \A i \in 1 .. Len(s) - k : Drop(s, k)[i] = s[k + i]
  BY SubSeqProperties DEF Drop

\* A part that lies in the first of two sequences, and what is left of both.
LEMMA PartOfConcat ==
    ASSUME NEW S, NEW s \in Seq(S), NEW t \in Seq(S), NEW k \in 0 .. Len(s)
    PROVE  /\ SubSeq(s \o t, 1, k) = SubSeq(s, 1, k)
           /\ Drop(s \o t, k) = Drop(s, k) \o t
<1>1. /\ s \o t \in Seq(S) /\ Len(s \o t) = Len(s) + Len(t)
      /\ \A i \in 1 .. Len(s) + Len(t) : (s \o t)[i] = IF i <= Len(s) THEN s[i] ELSE t[i - Len(s)]
  BY ConcatProperties
<1>2. SubSeq(s \o t, 1, k) = SubSeq(s, 1, k)
  <2>1. /\ SubSeq(s, 1, k) \in Seq(S) /\ Len(SubSeq(s, 1, k)) = k
        /\ \A i \in 1 .. k : SubSeq(s, 1, k)[i] = s[i]
    BY SubSeqProperties
  <2>2. /\ SubSeq(s \o t, 1, k) \in Seq(S) /\ Len(SubSeq(s \o t, 1, k)) = k
        /\ \A i \in 1 .. k : SubSeq(s \o t, 1, k)[i] = s[i]
    <3>1. \A i \in 1 .. k : (s \o t)[i] = s[i] /\ s[i] \in S
      BY <1>1
    <3> QED BY <3>1, SubSeqProperties, <1>1
  <2> QED BY <2>1, <2>2, SeqEqual
<1>3. Drop(s \o t, k) = Drop(s, k) \o t
  <2> DEFINE l == Drop(s \o t, k)
             r == Drop(s, k) \o t
  <2>1. /\ l \in Seq(S) /\ Len(l) = Len(s) + Len(t) - k
        /\ \A i \in 1 .. Len(s) + Len(t) - k : l[i] = (s \o t)[k + i]
    <3> DEFINE u == s \o t
    <3>1. u \in Seq(S) /\ Len(u) = Len(s) + Len(t) /\ k \in 0 .. Len(u)
      BY <1>1
    <3> HIDE DEF u
    <3>2. /\ Drop(u, k) \in Seq(S) /\ Len(Drop(u, k)) = Len(u) - k
          /\ \A i \in 1 .. Len(u) - k : Drop(u, k)[i] = u[k + i]
      BY <3>1, DropType
    <3> QED BY <3>1, <3>2 DEF u
  <2>2. /\ Drop(s, k) \in Seq(S) /\ Len(Drop(s, k)) = Len(s) - k
        /\ \A i \in 1 .. Len(s) - k : Drop(s, k)[i] = s[k + i]
    BY DropType
  <2>3. /\ r \in Seq(S) /\ Len(r) = Len(s) - k + Len(t)
        /\ \A i \in 1 .. Len(s) - k + Len(t) :
              r[i] = IF i <= Len(s) - k THEN Drop(s, k)[i] ELSE t[i - (Len(s) - k)]
    <3> DEFINE d == Drop(s, k)
    <3>1. d \in Seq(S) /\ Len(d) = Len(s) - k
      BY <2>2
    <3> HIDE DEF d
    <3>2. /\ d \o t \in Seq(S) /\ Len(d \o t) = Len(d) + Len(t)
          /\ \A i \in 1 .. Len(d) + Len(t) : (d \o t)[i] = IF i <= Len(d) THEN d[i] ELSE t[i - Len(d)]
      BY <3>1, ConcatProperties
    <3> QED BY <3>1, <3>2 DEF d
  <2>4. \A i \in 1 .. Len(l) : l[i] = r[i]
    <3> HIDE DEF l, r
    <3> TAKE i \in 1 .. Len(l)
    <3>1. i \in 1 .. Len(s) + Len(t) - k /\ k + i \in 1 .. Len(s) + Len(t)
      BY <2>1
    <3>2. l[i] = IF k + i <= Len(s) THEN s[k + i] ELSE t[k + i - Len(s)]
      BY <3>1, <2>1, <1>1
    <3>3. r[i] = IF i <= Len(s) - k THEN s[k + i] ELSE t[i - (Len(s) - k)]
      BY <3>1, <2>3, <2>2
    <3> QED BY <3>2, <3>3
  <2> HIDE DEF l, r
  <2>5. Len(l) = Len(r)
    BY <2>1, <2>3
  <2>6. l = r
    BY <2>1, <2>3, <2>4, <2>5, SeqEqual
  <2> QED BY <2>6 DEF l, r
<1> QED BY <1>2, <1>3

\* Dropping twice, and dropping a prefix that was put on.
LEMMA DropDrop ==
    ASSUME NEW S, NEW s \in Seq(S), NEW k \in 0 .. Len(s), NEW n \in 0 .. Len(s) - k
    PROVE  Drop(Drop(s, k), n) = Drop(s, k + n) /\ SubSeq(Drop(s, k), 1, n) = SubSeq(s, k + 1, k + n)
<1>1. /\ Drop(s, k) \in Seq(S) /\ Len(Drop(s, k)) = Len(s) - k
      /\ \A i \in 1 .. Len(s) - k : Drop(s, k)[i] = s[k + i]
  BY DropType
<1>2. /\ Drop(Drop(s, k), n) \in Seq(S) /\ Len(Drop(Drop(s, k), n)) = Len(s) - k - n
      /\ \A i \in 1 .. Len(s) - k - n : Drop(Drop(s, k), n)[i] = Drop(s, k)[n + i]
  BY <1>1, DropType
<1>3. k + n \in 0 .. Len(s)
  OBVIOUS
<1>4. /\ Drop(s, k + n) \in Seq(S) /\ Len(Drop(s, k + n)) = Len(s) - (k + n)
      /\ \A i \in 1 .. Len(s) - (k + n) : Drop(s, k + n)[i] = s[k + n + i]
  BY <1>3, DropType
<1>5. \A i \in 1 .. Len(s) - k - n : Drop(Drop(s, k), n)[i] = Drop(s, k + n)[i]
  <2> TAKE i \in 1 .. Len(s) - k - n
  <2>1. n + i \in 1 .. Len(s) - k /\ i \in 1 .. Len(s) - (k + n)
    OBVIOUS
  <2>2. Drop(Drop(s, k), n)[i] = Drop(s, k)[n + i] /\ Drop(s, k)[n + i] = s[k + (n + i)]
    BY <2>1, <1>1, <1>2
  <2>3. Drop(s, k + n)[i] = s[k + n + i]
    BY <2>1, <1>4
  <2>4. k + n + i = k + (n + i)
    OBVIOUS
  <2> QED BY <2>2, <2>3, <2>4
<1>6. Drop(Drop(s, k), n) = Drop(s, k + n)
  BY <1>2, <1>4, <1>5, SeqEqual
<1>7. /\ SubSeq(s, k + 1, k + n) \in Seq(S) /\ Len(SubSeq(s, k + 1, k + n)) = n
      /\ \A i \in 1 .. n : SubSeq(s, k + 1, k + n)[i] = s[k + i]
  <2>1. \A i \in k + 1 .. k + n : s[i] \in S
    OBVIOUS
  <2> QED BY <2>1, SubSeqProperties
<1>8. /\ SubSeq(Drop(s, k), 1, n) \in Seq(S) /\ Len(SubSeq(Drop(s, k), 1, n)) = n
      /\ \A i \in 1 .. n : SubSeq(Drop(s, k), 1, n)[i] = Drop(s, k)[i]
  <2>1. \A i \in 1 .. n : Drop(s, k)[i] \in S
    BY <1>1
  <2> QED BY <2>1, SubSeqProperties
<1>9. SubSeq(Drop(s, k), 1, n) = SubSeq(s, k + 1, k + n)
  BY <1>1, <1>7, <1>8, SeqEqual
<1> QED BY <1>6, <1>9

-----------------------------------------------------------------------------
(* FlattenSeq.                                                                *)

Flattening(ss) == CHOOSE f : f = [i \in 1 .. Len(ss) |-> IF i = 1 THEN ss[i] ELSE f[i - 1] \o ss[i]]

LEMMA FlattenRec ==
    ASSUME NEW S, NEW ss \in Seq(Seq(S))
    PROVE  /\ Flattening(ss) \in [1 .. Len(ss) -> Seq(S)]
           /\ \A i \in 1 .. Len(ss) :
                Flattening(ss)[i] = IF i = 1 THEN ss[i] ELSE Flattening(ss)[i - 1] \o ss[i]
           /\ FlattenSeq(ss) = IF Len(ss) = 0 THEN <<>> ELSE Flattening(ss)[Len(ss)]
           /\ FlattenSeq(ss) \in Seq(S)
<1> DEFINE n == Len(ss)
           Fits(f) == f = [i \in 1 .. n |-> IF i = 1 THEN ss[i] ELSE f[i - 1] \o ss[i]]
           make == [x \in (1 .. n) \X Seq(S) |-> x[2] \o ss[x[1]]]
           first == IF n = 0 THEN <<>> ELSE ss[1]
<1>1. n \in Nat /\ first \in Seq(S)
  OBVIOUS
<1>2. \A i \in 1 .. n : \A t \in Seq(S) : make[<<i, t>>] \in Seq(S)
  OBVIOUS
<1>3. PICK f : Backward(f, Seq(S), first, n, make)
  <2>1. Makes(make, 1 .. n, Seq(S))
    BY <1>2 DEF Makes
  <2> HIDE DEF n, first, make
  <2> QED BY <1>1, <2>1, BackwardRecursion
<1>4. /\ f \in [1 .. n -> Seq(S)]
      /\ \A i \in 1 .. n : f[i] = IF i = 1 THEN ss[i] ELSE f[i - 1] \o ss[i]
  <2> HIDE DEF n
  <2>1. f \in [1 .. n -> Seq(S)]
    BY <1>3 DEF Backward
  <2>2. ASSUME NEW i \in 1 .. n, i # 1 PROVE f[i] = f[i - 1] \o ss[i]
    <3>1. i - 1 \in 1 .. n
      BY <1>1, <2>2
    <3>2. f[i - 1] \in Seq(S)
      BY <2>1, <3>1
    <3>3. make[<<i, f[i - 1]>>] = f[i - 1] \o ss[i]
      BY <3>2, Zenon
    <3>4. f[i] = make[<<i, f[i - 1]>>]
      <4> HIDE DEF make, first
      <4> QED BY <1>3, <2>2 DEF Backward
    <3> QED BY <3>3, <3>4
  <2>3. 1 \in 1 .. n => f[1] = ss[1]
    <3>1. 1 \in 1 .. n => n # 0
      BY <1>1
    <3>2. 1 \in 1 .. n => f[1] = first
      <4> HIDE DEF make, first
      <4> QED BY <1>3, Zenon DEF Backward
    <3>3. n # 0 => first = ss[1]
      OBVIOUS
    <3> QED BY <3>1, <3>2, <3>3
  <2> QED BY <2>1, <2>2, <2>3
<1>5. Fits(f)
  <2> HIDE DEF n
  <2> QED BY <1>4, Zenon
<1>6. Fits(Flattening(ss))
  BY <1>5, Zenon DEF Flattening
<1>7. \A i \in 1 .. n : Flattening(ss)[i] = IF i = 1 THEN ss[i] ELSE Flattening(ss)[i - 1] \o ss[i]
  BY <1>6
<1>8. \A i \in 1 .. n : Flattening(ss)[i] = f[i]
  <2> DEFINE T == {i \in 0 .. n : i = 0 \/ Flattening(ss)[i] = f[i]}
  <2>1. 0 \in T
    BY <1>1
  <2>2. ASSUME NEW i \in 0 .. n - 1, i \in T PROVE i + 1 \in T
    <3>1. i + 1 \in 1 .. n /\ (i + 1) - 1 = i /\ (i + 1 = 1 <=> i = 0)
      BY <1>1
    <3>2. f[i + 1] = IF i + 1 = 1 THEN ss[i + 1] ELSE f[i] \o ss[i + 1]
      BY <1>4, <3>1
    <3>3. Flattening(ss)[i + 1] = IF i + 1 = 1 THEN ss[i + 1] ELSE Flattening(ss)[i] \o ss[i + 1]
      BY <1>7, <3>1
    <3>4. i + 1 \in 0 .. n
      BY <3>1
    <3> QED BY <2>2, <3>1, <3>2, <3>3, <3>4
  <2>3. 0 .. n \subseteq T
    <3> HIDE DEF T
    <3> QED BY <2>1, <2>2, <1>1, BoundedInduction
  <2>4. \A i \in 1 .. n : i \in 0 .. n /\ i # 0
    BY <1>1
  <2> QED BY <2>3, <2>4
<1>9. Flattening(ss) \in [1 .. n -> Seq(S)]
  <2>1. Flattening(ss) = [i \in 1 .. n |-> Flattening(ss)[i]]
    BY <1>6
  <2> QED BY <2>1, <1>8, <1>4
<1>10. FlattenSeq(ss) = IF n = 0 THEN <<>> ELSE Flattening(ss)[n]
  <2>1. CASE n = 0
    <3>1. ss = <<>>
      BY <2>1
    <3> QED BY <3>1, <2>1 DEF FlattenSeq
  <2>2. CASE n # 0
    BY <2>2 DEF FlattenSeq, Flattening
  <2> QED BY <2>1, <2>2
<1>11. FlattenSeq(ss) \in Seq(S)
  <2>1. CASE n = 0
    BY <2>1, <1>10
  <2>2. CASE n # 0
    <3>1. n \in 1 .. n
      BY <2>2, <1>1
    <3> HIDE DEF n
    <3> QED BY <3>1, <2>2, <1>9, <1>10
  <2> QED BY <2>1, <2>2
<1> QED BY <1>7, <1>9, <1>10, <1>11

LEMMA FlattenEmpty == FlattenSeq(<<>>) = <<>>
  BY DEF FlattenSeq

\* One sequence more, at the end.
LEMMA FlattenAppend ==
    ASSUME NEW S, NEW ss \in Seq(Seq(S)), NEW s \in Seq(S)
    PROVE  FlattenSeq(Append(ss, s)) = FlattenSeq(ss) \o s
<1> DEFINE n == Len(ss)
           tt == Append(ss, s)
           F == Flattening(ss)
           G == Flattening(tt)
<1>1. /\ n \in Nat /\ tt \in Seq(Seq(S)) /\ Len(tt) = n + 1 /\ tt[n + 1] = s
      /\ \A i \in 1 .. n : tt[i] = ss[i]
  OBVIOUS
<1> HIDE DEF n, tt
<1>2. \A i \in 1 .. n : F[i] = IF i = 1 THEN ss[i] ELSE F[i - 1] \o ss[i]
  BY FlattenRec DEF n
<1>3. \A i \in 1 .. n + 1 : G[i] = IF i = 1 THEN tt[i] ELSE G[i - 1] \o tt[i]
  BY FlattenRec, <1>1
<1>4. FlattenSeq(ss) = IF n = 0 THEN <<>> ELSE F[n]
  BY FlattenRec DEF n
<1>5. FlattenSeq(tt) = G[n + 1]
  BY FlattenRec, <1>1
<1> DEFINE T == {i \in 0 .. n : i = 0 \/ G[i] = F[i]}
<1> HIDE DEF F, G
<1>6. 0 .. n \subseteq T
  <2>1. 0 \in T
    BY <1>1
  <2>2. ASSUME NEW i \in 0 .. n - 1, i \in T PROVE i + 1 \in T
    <3>0. n \in Nat
      BY <1>1
    <3>1. i + 1 \in 1 .. n /\ i + 1 \in 1 .. n + 1 /\ (i + 1) - 1 = i /\ (i + 1 = 1 <=> i = 0)
      BY <3>0
    <3>2. F[i + 1] = IF i + 1 = 1 THEN ss[i + 1] ELSE F[i] \o ss[i + 1]
      BY <1>2, <3>1
    <3>3. G[i + 1] = IF i + 1 = 1 THEN ss[i + 1] ELSE G[i] \o ss[i + 1]
      BY <1>1, <1>3, <3>1
    <3> QED BY <2>2, <3>1, <3>2, <3>3
  <2> HIDE DEF T
  <2> QED BY <2>1, <2>2, <1>1, BoundedInduction
<1>7. CASE n = 0
  <2>1. ss = <<>> /\ <<>> \o s = s
    BY <1>7 DEF n
  <2>2. G[n + 1] = s
    BY <1>1, <1>3, <1>7
  <2> QED BY <2>1, <2>2, <1>4, <1>5, <1>7 DEF tt
<1>8. CASE n # 0
  <2>1. n \in 0 .. n /\ n + 1 \in 1 .. n + 1 /\ n + 1 # 1 /\ (n + 1) - 1 = n
    BY <1>1, <1>8
  <2>2. G[n] = F[n]
    BY <2>1, <1>6, <1>8
  <2>3. G[n + 1] = G[n] \o s
    BY <2>1, <1>1, <1>3
  <2> QED BY <2>2, <2>3, <1>4, <1>5, <1>8 DEF tt
<1> QED BY <1>7, <1>8

\* Two sequences of sequences.
LEMMA FlattenConcat ==
    ASSUME NEW S, NEW ss \in Seq(Seq(S)), NEW tt \in Seq(Seq(S))
    PROVE  FlattenSeq(ss \o tt) = FlattenSeq(ss) \o FlattenSeq(tt)
<1> DEFINE Fits(t) == FlattenSeq(ss \o t) = FlattenSeq(ss) \o FlattenSeq(t)
           T == {n \in Nat : \A t \in Seq(Seq(S)) : Len(t) = n => Fits(t)}
<1>1. 0 \in T
  <2>1. ASSUME NEW t \in Seq(Seq(S)), Len(t) = 0 PROVE Fits(t)
    <3>1. t = <<>> /\ ss \o <<>> = ss
      BY <2>1
    <3>2. FlattenSeq(ss) \o <<>> = FlattenSeq(ss)
      BY FlattenRec
    <3> QED BY <3>1, <3>2, FlattenEmpty
  <2> QED BY <2>1
<1>2. ASSUME NEW n \in Nat, n \in T PROVE n + 1 \in T
  <2>1. ASSUME NEW t \in Seq(Seq(S)), Len(t) = n + 1 PROVE Fits(t)
    <3>1. PICK u \in Seq(Seq(S)), s \in Seq(S) : t = Append(u, s)
      <4>1. t # <<>>
        BY <2>1
      <4> QED BY <4>1, SequenceEmptyOrAppend
    <3>2. Len(u) = n
      BY <2>1, <3>1
    <3>3. FlattenSeq(ss \o u) = FlattenSeq(ss) \o FlattenSeq(u)
      BY <1>2, <3>2
    <3>4. ss \o t = Append(ss \o u, s) /\ ss \o u \in Seq(Seq(S))
      BY <3>1
    <3>5. FlattenSeq(t) = FlattenSeq(u) \o s /\ FlattenSeq(ss \o t) = FlattenSeq(ss \o u) \o s
      BY <3>1, <3>4, FlattenAppend
    <3>6. FlattenSeq(ss) \in Seq(S) /\ FlattenSeq(u) \in Seq(S)
      BY FlattenRec
    <3>7. (FlattenSeq(ss) \o FlattenSeq(u)) \o s = FlattenSeq(ss) \o (FlattenSeq(u) \o s)
      <4> DEFINE a == FlattenSeq(ss)
                 b == FlattenSeq(u)
      <4>1. a \in Seq(S) /\ b \in Seq(S)
        BY <3>6
      <4> HIDE DEF a, b
      <4>2. (a \o b) \o s = a \o (b \o s)
        BY <4>1, ConcatAssociative, SMTT(30)
      <4> QED BY <4>2 DEF a, b
    <3> QED BY <3>3, <3>5, <3>7
  <2> QED BY <2>1
<1>3. Nat \subseteq T
  <2> HIDE DEF T
  <2> QED BY <1>1, <1>2, SetInduction
<1>4. Len(tt) \in Nat
  OBVIOUS
<1> QED BY <1>3, <1>4

LEMMA FlattenCons ==
    ASSUME NEW S, NEW s \in Seq(S), NEW ss \in Seq(Seq(S))
    PROVE  FlattenSeq(<<s>> \o ss) = s \o FlattenSeq(ss)
<1>1. FlattenSeq(<<s>>) = s
  <2>1. <<s>> = Append(<<>>, s) /\ <<>> \in Seq(Seq(S)) /\ <<>> \o s = s
    OBVIOUS
  <2> QED BY <2>1, FlattenAppend, FlattenEmpty
<1>2. <<s>> \in Seq(Seq(S))
  OBVIOUS
<1> HIDE DEF FlattenSeq
<1>3. FlattenSeq(<<s>> \o ss) = FlattenSeq(<<s>>) \o FlattenSeq(ss)
  BY <1>2, FlattenConcat
<1> QED BY <1>1, <1>3

-----------------------------------------------------------------------------
(* Where the parts of a sequence lie in it.                                   *)

\* Behind the first c elements of p comes b.
Lies(p, c, b) ==
    /\ c + Len(b) <= Len(p)
    /\ \A k \in 1 .. Len(b) : p[c + k] = b[k]

LEMMA LiesParts ==
    ASSUME NEW S, NEW p \in Seq(S), NEW c \in Nat, NEW a \in Seq(S), NEW b \in Seq(S), Lies(p, c, a \o b)
    PROVE  Lies(p, c, a) /\ Lies(p, c + Len(a), b)
<1>1. /\ Len(a \o b) = Len(a) + Len(b)
      /\ \A i \in 1 .. Len(a) : (a \o b)[i] = a[i]
      /\ \A i \in 1 .. Len(b) : (a \o b)[Len(a) + i] = b[i]
  BY ConcatParts
<1>2. Len(a) \in Nat /\ Len(b) \in Nat /\ Len(p) \in Nat
  OBVIOUS
<1> DEFINE m == Len(a)
           n == Len(b)
           ab == a \o b
<1>3. ab = a \o b /\ m = Len(a) /\ n = Len(b)
  OBVIOUS
<1> HIDE DEF m, n, ab
<1>4. c + (m + n) <= Len(p) /\ \A k \in 1 .. m + n : p[c + k] = ab[k]
  BY <1>1, <1>3 DEF Lies
<1>5. \A k \in 1 .. m : p[c + k] = a[k]
  <2> TAKE k \in 1 .. m
  <2>1. k \in 1 .. m + n
    BY <1>2, <1>3
  <2> QED BY <2>1, <1>1, <1>3, <1>4
<1>6. \A k \in 1 .. n : p[c + m + k] = b[k]
  <2> TAKE k \in 1 .. n
  <2>1. m + k \in 1 .. m + n /\ c + (m + k) = c + m + k
    BY <1>2, <1>3
  <2>2. p[c + (m + k)] = ab[m + k]
    BY <2>1, <1>4
  <2> QED BY <2>1, <2>2, <1>1, <1>3
<1>7. c + m <= Len(p) /\ c + m + n <= Len(p)
  BY <1>2, <1>3, <1>4
<1> QED BY <1>3, <1>5, <1>6, <1>7 DEF Lies

LEMMA LiesWhole ==
    ASSUME NEW S, NEW p \in Seq(S)
    PROVE  Lies(p, 0, p)
<1>1. Len(p) \in Nat
  OBVIOUS
<1>2. 0 + Len(p) <= Len(p) /\ \A k \in 1 .. Len(p) : p[0 + k] = p[k]
  <2>1. \A k \in 1 .. Len(p) : 0 + k = k
    BY <1>1
  <2> QED BY <1>1, <2>1
<1> QED BY <1>2 DEF Lies

LEMMA LiesWithin ==
    ASSUME NEW S, NEW p \in Seq(S), NEW b \in Seq(S), NEW a \in Seq(S), NEW c \in Nat, NEW d \in Nat,
           Lies(p, c, b), Lies(b, d, a)
    PROVE  Lies(p, c + d, a)
<1> DEFINE l == Len(a)
           m == Len(b)
           n == Len(p)
<1>1. l \in Nat /\ m \in Nat /\ n \in Nat
  OBVIOUS
<1>2. c + m <= n /\ \A k \in 1 .. m : p[c + k] = b[k]
  BY DEF Lies
<1>3. d + l <= m /\ \A k \in 1 .. l : b[d + k] = a[k]
  BY DEF Lies
<1>4. (c + d) + l <= n /\ \A k \in 1 .. l : p[(c + d) + k] = a[k]
  <2> HIDE DEF l, m, n
  <2>1. (c + d) + l <= n
    BY <1>1, <1>2, <1>3
  <2>2. ASSUME NEW k \in 1 .. l PROVE p[(c + d) + k] = a[k]
    <3>1. d + k \in 1 .. m /\ c + (d + k) = (c + d) + k
      BY <1>1, <1>3
    <3>2. p[c + (d + k)] = b[d + k] /\ b[d + k] = a[k]
      BY <1>2, <1>3, <3>1
    <3> QED BY <3>1, <3>2
  <2> QED BY <2>1, <2>2
<1> QED BY <1>4 DEF Lies

\* The sequences that are flattened lie one after another.
Upto(ss, n) == Len(FlattenSeq(SubSeq(ss, 1, n)))

LEMMA UptoEnds ==
    ASSUME NEW S, NEW ss \in Seq(Seq(S))
    PROVE  Upto(ss, 0) = 0 /\ Upto(ss, Len(ss)) = Len(FlattenSeq(ss))
<1>1. SubSeq(ss, 1, Len(ss)) = ss /\ SubSeq(ss, 1, 0) = <<>>
  OBVIOUS
<1>2. Upto(ss, 0) = Len(FlattenSeq(<<>>))
  BY <1>1 DEF Upto
<1> QED BY <1>1, <1>2, FlattenEmpty DEF Upto

LEMMA PartLies ==
    ASSUME NEW S, NEW ss \in Seq(Seq(S)), NEW n \in 1 .. Len(ss)
    PROVE  /\ Upto(ss, n - 1) \in Nat /\ Upto(ss, n) \in Nat /\ Upto(ss, n) = Upto(ss, n - 1) + Len(ss[n])
           /\ Lies(FlattenSeq(ss), Upto(ss, n - 1), ss[n])
           /\ Upto(ss, n) <= Len(FlattenSeq(ss))
<1> DEFINE T == Seq(S)
           a == SubSeq(ss, 1, n - 1)
           b == SubSeq(ss, 1, n)
           d == SubSeq(ss, n + 1, Len(ss))
           s == ss[n]
<1>1. Len(ss) \in Nat /\ n \in Nat /\ n - 1 \in Nat /\ s \in T
  OBVIOUS
<1> HIDE DEF T
<1>2. /\ a \in Seq(T) /\ Len(a) = n - 1 /\ \A i \in 1 .. n - 1 : a[i] = ss[i]
  <2>1. \A i \in 1 .. n - 1 : ss[i] \in T
    BY DEF T
  <2> QED BY <1>1, <2>1, SubSeqProperties
<1>3. /\ b \in Seq(T) /\ Len(b) = n /\ \A i \in 1 .. n : b[i] = ss[i]
  <2>1. \A i \in 1 .. n : ss[i] \in T
    BY DEF T
  <2> QED BY <1>1, <2>1, SubSeqProperties
<1>4. /\ d \in Seq(T) /\ Len(d) = Len(ss) - n /\ \A i \in 1 .. Len(ss) - n : d[i] = ss[n + i]
  <2> DEFINE e == Drop(ss, n)
  <2>1. n \in 0 .. Len(ss) /\ e = d
    BY <1>1 DEF Drop
  <2>0. ss \in Seq(T)
    BY DEF T
  <2> HIDE DEF e
  <2>2. e \in Seq(T) /\ Len(e) = Len(ss) - n /\ \A i \in 1 .. Len(ss) - n : e[i] = ss[n + i]
    BY <2>0, <2>1, DropType DEF e
  <2> QED BY <2>1, <2>2
<1>5. b = Append(a, s)
  <2> HIDE DEF a, b
  <2>1. /\ Append(a, s) \in Seq(T) /\ Len(Append(a, s)) = n /\ Append(a, s)[n] = s
        /\ \A i \in 1 .. n - 1 : Append(a, s)[i] = a[i]
    <3>1. Append(a, s) \in Seq(T) /\ Len(Append(a, s)) = Len(a) + 1 /\ Append(a, s)[Len(a) + 1] = s
          /\ \A i \in 1 .. Len(a) : Append(a, s)[i] = a[i]
      BY <1>1, <1>2, AppendProperties
    <3> QED BY <1>1, <1>2, <3>1
  <2>2. \A i \in 1 .. n : b[i] = Append(a, s)[i]
    <3> TAKE i \in 1 .. n
    <3>1. i = n \/ i \in 1 .. n - 1
      BY <1>1
    <3> QED BY <1>2, <1>3, <2>1, <3>1
  <2> QED BY <1>3, <2>1, <2>2, SeqEqual
<1>6. ss = b \o d
  <2> HIDE DEF b, d
  <2>1. /\ b \o d \in Seq(T) /\ Len(b \o d) = Len(b) + Len(d)
        /\ \A i \in 1 .. Len(b) : (b \o d)[i] = b[i]
        /\ \A i \in 1 .. Len(d) : (b \o d)[Len(b) + i] = d[i]
    <3>1. b \in Seq(T) /\ d \in Seq(T)
      BY <1>3, <1>4
    <3> QED BY <3>1, ConcatParts
  <2>2. \A i \in 1 .. Len(ss) : ss[i] = (b \o d)[i]
    <3> TAKE i \in 1 .. Len(ss)
    <3>1. CASE i \in 1 .. n
      BY <1>3, <2>1, <3>1
    <3>2. CASE i \notin 1 .. n
      <4> DEFINE j == i - n
      <4>1. j \in 1 .. Len(ss) - n /\ i = n + j
        BY <1>1, <3>2
      <4> HIDE DEF j
      <4> QED BY <1>3, <1>4, <2>1, <4>1
    <3> QED BY <3>1, <3>2
  <2>3. Len(ss) = Len(b \o d) /\ ss \in Seq(T)
    BY <1>1, <1>3, <1>4, <2>1 DEF T
  <2> QED BY <2>1, <2>2, <2>3, SeqEqual
<1> DEFINE fa == FlattenSeq(a)
           fb == FlattenSeq(b)
           fd == FlattenSeq(d)
           fs == FlattenSeq(ss)
<1>7. fa \in Seq(S) /\ fb \in Seq(S) /\ fd \in Seq(S) /\ fs \in Seq(S) /\ s \in Seq(S)
  <2>1. a \in Seq(Seq(S)) /\ b \in Seq(Seq(S)) /\ d \in Seq(Seq(S))
    BY <1>2, <1>3, <1>4 DEF T
  <2> HIDE DEF a, b, d
  <2> QED BY <2>1, FlattenRec
<1>8. fb = fa \o s
  <2>1. a \in Seq(Seq(S)) /\ s \in Seq(S)
    BY <1>2 DEF T
  <2> HIDE DEF a, b, s
  <2> QED BY <1>5, <2>1, FlattenAppend
<1>9. fs = fb \o fd
  <2>1. b \in Seq(Seq(S)) /\ d \in Seq(Seq(S))
    BY <1>3, <1>4 DEF T
  <2> HIDE DEF b, d
  <2> QED BY <1>6, <2>1, FlattenConcat
<1>10. Upto(ss, n - 1) = Len(fa) /\ Upto(ss, n) = Len(fb)
  BY DEF Upto
<1> HIDE DEF fa, fb, fd, fs, s
<1>11. Len(fa) \in Nat /\ Len(fb) = Len(fa) + Len(s) /\ Len(fs) = Len(fb) + Len(fd) /\ Len(fd) \in Nat /\ Len(fb) \in Nat
  BY <1>7, <1>8, <1>9, ConcatProperties
<1>12. Lies(fs, 0, fb) /\ Lies(fb, Len(fa), s)
  <2>1. Lies(fs, 0, fb \o fd)
    BY <1>7, <1>9, LiesWhole
  <2>2. Lies(fb, 0, fa \o s)
    BY <1>7, <1>8, LiesWhole
  <2>3. Lies(fb, 0 + Len(fa), s)
    BY <1>7, <2>2, LiesParts
  <2>4. Lies(fs, 0, fb)
    BY <1>7, <2>1, LiesParts
  <2>5. 0 + Len(fa) = Len(fa)
    BY <1>11
  <2> QED BY <2>3, <2>4, <2>5
<1>13. Lies(fs, Len(fa), s)
  <2>1. Lies(fs, 0 + Len(fa), s)
    BY <1>7, <1>11, <1>12, LiesWithin
  <2>2. 0 + Len(fa) = Len(fa)
    BY <1>11
  <2> QED BY <2>1, <2>2
<1>14. Len(fb) <= Len(fs)
  BY <1>11
<1> QED BY <1>10, <1>11, <1>13, <1>14 DEF fs, s

\* Sequences of one element each, and of none.
LEMMA FlattenSingles ==
    ASSUME NEW S, NEW ss \in Seq(Seq(S)), \A n \in 1 .. Len(ss) : Len(ss[n]) = 1
    PROVE  /\ \A n \in 0 .. Len(ss) : Upto(ss, n) = n
           /\ Len(FlattenSeq(ss)) = Len(ss) /\ \A n \in 1 .. Len(ss) : FlattenSeq(ss)[n] = ss[n][1]
<1> DEFINE N == Len(ss)
           T == {n \in 0 .. N : Upto(ss, n) = n}
<1>1. N \in Nat
  OBVIOUS
<1>2. 0 .. N \subseteq T
  <2>1. 0 \in T
    BY <1>1, UptoEnds
  <2>2. ASSUME NEW n \in 0 .. N - 1, n \in T PROVE n + 1 \in T
    <3> DEFINE m == n + 1
    <3>1. m \in 1 .. N /\ m - 1 = n /\ m \in 0 .. N
      BY <1>1
    <3> HIDE DEF m
    <3>2. Upto(ss, m) = Upto(ss, m - 1) + Len(ss[m])
      BY <3>1, PartLies
    <3>3. Upto(ss, n) = n /\ Len(ss[m]) = 1
      BY <2>2, <3>1
    <3>4. Upto(ss, m) = m
      BY <3>1, <3>2, <3>3 DEF m
    <3> QED BY <3>1, <3>4 DEF m
  <2> HIDE DEF T
  <2> QED BY <1>1, <2>1, <2>2, BoundedInduction
<1>3. Len(FlattenSeq(ss)) = N
  <2>1. Upto(ss, N) = N /\ Upto(ss, N) = Len(FlattenSeq(ss))
    BY <1>1, <1>2, UptoEnds
  <2> QED BY <2>1
<1>4. ASSUME NEW n \in 1 .. N PROVE FlattenSeq(ss)[n] = ss[n][1]
  <2> DEFINE s == ss[n]
             f == FlattenSeq(ss)
             c == Upto(ss, n - 1)
  <2>1. Lies(f, c, s) /\ Len(s) = 1
    BY PartLies
  <2>2. c = n - 1
    <3>1. n - 1 \in 0 .. N
      BY <1>1
    <3> QED BY <3>1, <1>2
  <2> HIDE DEF s, f, c
  <2>3. f[c + 1] = s[1]
    BY <2>1 DEF Lies
  <2>4. c + 1 = n
    BY <1>1, <2>2
  <2> QED BY <2>3, <2>4 DEF s, f
<1> QED BY <1>2, <1>3, <1>4

LEMMA FlattenNothing ==
    ASSUME NEW S, NEW ss \in Seq(Seq(S)), \A n \in 1 .. Len(ss) : ss[n] = <<>>
    PROVE  FlattenSeq(ss) = <<>>
<1> DEFINE N == Len(ss)
           T == {n \in 0 .. N : Upto(ss, n) = 0}
<1>1. N \in Nat
  OBVIOUS
<1>2. 0 .. N \subseteq T
  <2>1. 0 \in T
    BY <1>1, UptoEnds
  <2>2. ASSUME NEW n \in 0 .. N - 1, n \in T PROVE n + 1 \in T
    <3> DEFINE m == n + 1
    <3>1. m \in 1 .. N /\ m - 1 = n /\ m \in 0 .. N
      BY <1>1
    <3> HIDE DEF m
    <3>2. Upto(ss, m) = Upto(ss, m - 1) + Len(ss[m])
      BY <3>1, PartLies
    <3>3. Upto(ss, n) = 0 /\ Len(ss[m]) = 0
      BY <2>2, <3>1
    <3>4. Upto(ss, m) = 0
      BY <3>1, <3>2, <3>3
    <3> QED BY <3>1, <3>4 DEF m
  <2> HIDE DEF T
  <2> QED BY <1>1, <2>1, <2>2, BoundedInduction
<1>3. Len(FlattenSeq(ss)) = 0
  <2>1. Upto(ss, N) = 0 /\ Upto(ss, N) = Len(FlattenSeq(ss))
    BY <1>1, <1>2, UptoEnds
  <2> QED BY <2>1
<1>4. FlattenSeq(ss) \in Seq(S)
  BY FlattenRec
<1> QED BY <1>3, <1>4
=============================================================================
