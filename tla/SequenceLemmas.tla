---------------------------- MODULE SequenceLemmas ----------------------------
(* Induction over the natural numbers, stated with sets, and what the       *)
(* folds over sequences that the models use return.                         *)
EXTENDS Subsequences, SequencesExt, Integers, WellFoundedInduction, SequenceTheorems, TLAPS

(* A set of numbers has a least one.                                        *)
LEMMA LeastNumber ==
    ASSUME NEW T, T \subseteq Nat, T # {}
    PROVE  \E n \in T : \A m \in T : n <= m
<1> DEFINE R == {ss \in Nat \X Nat : ss[1] < ss[2]}
<1>1. IsWellFoundedOn(R, Nat)
  BY NatLessThanWellFounded DEF OpToRel
<1>2. \E n \in T : \A m \in T : ~(<<m, n>> \in R)
  <2> HIDE DEF R
  <2> QED BY <1>1, WFMin, Zenon
<1>3. PICK n \in T : \A m \in T : ~(<<m, n>> \in R)
  BY <1>2
<1>4. ASSUME NEW m \in T PROVE n <= m
  <2>1. n \in Nat /\ m \in Nat
    OBVIOUS
  <2>2. ~(m < n)
    BY <1>3, <2>1
  <2> QED BY <2>1, <2>2
<1> QED BY <1>4

(* Induction: a set with 0 that is closed under successors up to n has all  *)
(* numbers up to n.                                                         *)
LEMMA UpTo ==
    ASSUME NEW n \in Nat, NEW T, 0 \in T, \A k \in 0..(n - 1) : k \in T => k + 1 \in T
    PROVE  \A k \in 0..n : k \in T
<1> DEFINE Bad == {k \in 0..n : k \notin T}
<1> SUFFICES ASSUME Bad # {} PROVE FALSE
  OBVIOUS
<1>1. PICK k \in Bad : \A m \in Bad : k <= m
  <2>1. Bad \subseteq Nat
    OBVIOUS
  <2> HIDE DEF Bad
  <2> QED BY <2>1, LeastNumber
<1>2. k \in 0..n /\ k # 0 /\ k \notin T
  OBVIOUS
<1>3. k - 1 \in 0..(n - 1) /\ k - 1 \notin Bad
  BY <1>1, <1>2
<1>4. k - 1 \in T
  BY <1>3
<1> QED BY <1>2, <1>3, <1>4

(* A function may be defined by its first value and its steps; there is     *)
(* only one.                                                                *)
Recurs(f, n, base, step) == f[0] = base /\ \A i \in 1..n : f[i] = step[i][f[i - 1]]

(* A recursion over 0..n has a solution: its partial solutions reach n, by  *)
(* the least place they would not.                                          *)
LEMMA StepsDefine ==
    ASSUME NEW V, NEW base \in V, NEW n \in Nat, NEW step \in [1..n -> [V -> V]]
    PROVE  \E f \in [0..n -> V] : Recurs(f, n, base, step)
<1> DEFINE T == {k \in 0..n : \E f \in [0..k -> V] : Recurs(f, k, base, step)}
<1>1. 0 \in T
  <2> DEFINE f == [i \in 0..0 |-> base]
  <2>1. f \in [0..0 -> V] /\ Recurs(f, 0, base, step)
    BY DEF Recurs
  <2> QED BY <2>1
<1>2. ASSUME NEW k \in 0..(n - 1), k \in T PROVE k + 1 \in T
  <2>1. PICK f \in [0..k -> V] : Recurs(f, k, base, step)
    BY <1>2
  <2> DEFINE g == [i \in 0..(k + 1) |-> IF i = k + 1 THEN step[k + 1][f[k]] ELSE f[i]]
  <2>2. k \in Nat /\ k + 1 \in 1..n /\ f[k] \in V /\ step[k + 1] \in [V -> V]
    OBVIOUS
  <2>3. g \in [0..(k + 1) -> V]
    BY <2>2
  <2>4. g[0] = base
    BY <2>1, <2>2 DEF Recurs
  <2>5. ASSUME NEW i \in 1..(k + 1) PROVE g[i] = step[i][g[i - 1]]
    <3>1. CASE i = k + 1
      BY <2>2, <3>1
    <3>2. CASE i # k + 1
      <4>1. i \in 1..k /\ g[i] = f[i] /\ g[i - 1] = f[i - 1]
        BY <2>2, <3>2
      <4> QED BY <2>1, <4>1 DEF Recurs
    <3> QED BY <3>1, <3>2
  <2>6. Recurs(g, k + 1, base, step)
    <3> HIDE DEF g
    <3> QED BY <2>4, <2>5 DEF Recurs
  <2> HIDE DEF g
  <2> QED BY <2>2, <2>3, <2>6
<1>3. \A k \in 0..n : k \in T
  <2> HIDE DEF T
  <2> QED BY <1>1, <1>2, UpTo
<1> QED BY <1>3

(* Two solutions of one recursion agree everywhere: they cannot first       *)
(* differ at any place.                                                     *)
LEMMA StepsAgree ==
    ASSUME NEW n \in Nat, NEW base, NEW step, NEW f, NEW g,
           Recurs(f, n, base, step), Recurs(g, n, base, step)
    PROVE  \A k \in 0..n : f[k] = g[k]
<1> DEFINE T == {k \in 0..n : f[k] = g[k]}
<1>1. 0 \in T
  BY DEF Recurs
<1>2. ASSUME NEW k \in 0..(n - 1), k \in T PROVE k + 1 \in T
  <2>1. k + 1 \in 1..n /\ (k + 1) - 1 = k
    OBVIOUS
  <2>2. f[k + 1] = step[k + 1][f[k]] /\ g[k + 1] = step[k + 1][g[k]]
    BY <2>1 DEF Recurs
  <2> QED BY <1>2, <2>1, <2>2
<1>3. \A k \in 0..n : k \in T
  <2> HIDE DEF T
  <2> QED BY <1>1, <1>2, UpTo
<1> QED BY <1>3

(* The function a fold is defined by goes over sets of places and takes the *)
(* greatest place off.                                                      *)
SetRecurs(it, n, base, step) ==
    /\ it[{}] = base
    /\ \A P \in SUBSET (1..n) : P # {} => it[P] = step[Max(P)][it[P \ {Max(P)}]]

(* The greatest of 1..n is n, where it is a place at all.                   *)
LEMMA GreatestPlace ==
    ASSUME NEW n \in Nat, NEW P \in SUBSET (1..n), n \in P
    PROVE  Max(P) = n
<1>1. n \in P /\ \A y \in P : n >= y
  OBVIOUS
<1>2. \A x \in P : (\A y \in P : x >= y) => x = n
  OBVIOUS
<1> QED BY <1>1, <1>2 DEF Max

(* A recursion over subsets of 1..n that peels off the greatest place has   *)
(* a solution.                                                              *)
LEMMA SetStepsDefine ==
    ASSUME NEW V, NEW base \in V, NEW n \in Nat, NEW step \in [1..n -> [V -> V]]
    PROVE  \E it \in [SUBSET (1..n) -> V] : SetRecurs(it, n, base, step)
<1> DEFINE T == {k \in 0..n : \E it \in [SUBSET (1..k) -> V] : SetRecurs(it, k, base, step)}
<1>1. 0 \in T
  <2> DEFINE it == [P \in SUBSET (1..0) |-> base]
  <2>1. it \in [SUBSET (1..0) -> V] /\ it[{}] = base
    OBVIOUS
  <2>2. \A P \in SUBSET (1..0) : P = {}
    OBVIOUS
  <2> HIDE DEF it
  <2>3. SetRecurs(it, 0, base, step)
    BY <2>1, <2>2 DEF SetRecurs
  <2>4. \E g \in [SUBSET (1..0) -> V] : SetRecurs(g, 0, base, step)
    BY <2>1, <2>3
  <2>5. 0 \in 0..n
    OBVIOUS
  <2> QED BY <2>4, <2>5
<1>2. ASSUME NEW k \in 0..(n - 1), k \in T PROVE k + 1 \in T
  <2>1. PICK it \in [SUBSET (1..k) -> V] : SetRecurs(it, k, base, step)
    BY <1>2
  <2>2. k \in Nat /\ k + 1 \in 1..n /\ step[k + 1] \in [V -> V]
    OBVIOUS
  <2> DEFINE new == [P \in SUBSET (1..(k + 1)) |->
                       IF k + 1 \in P THEN step[k + 1][it[P \ {k + 1}]] ELSE it[P]]
  <2>3. ASSUME NEW P \in SUBSET (1..(k + 1))
        PROVE  /\ k + 1 \notin P => P \in SUBSET (1..k)
               /\ P \ {k + 1} \in SUBSET (1..k)
    BY <2>2
  <2>4. new \in [SUBSET (1..(k + 1)) -> V]
    BY <2>2, <2>3
  <2>5. new[{}] = base
    BY <2>1 DEF SetRecurs
  <2>6. ASSUME NEW P \in SUBSET (1..(k + 1)), P # {}
        PROVE  new[P] = step[Max(P)][new[P \ {Max(P)}]]
    <3>1. CASE k + 1 \in P
      <4>1. Max(P) = k + 1
        BY <2>2, <3>1, GreatestPlace
      <4>2. P \ {k + 1} \in SUBSET (1..(k + 1)) /\ k + 1 \notin P \ {k + 1}
        OBVIOUS
      <4>3. new[P \ {k + 1}] = it[P \ {k + 1}]
        BY <4>2
      <4> QED BY <3>1, <4>1, <4>3
    <3>2. CASE k + 1 \notin P
      <4>1. P \in SUBSET (1..k)
        BY <2>3, <3>2
      <4>2. it[P] = step[Max(P)][it[P \ {Max(P)}]]
        BY <2>1, <2>6, <4>1 DEF SetRecurs
      <4>3. P \ {Max(P)} \in SUBSET (1..(k + 1)) /\ k + 1 \notin P \ {Max(P)}
        BY <3>2
      <4>4. new[P] = it[P] /\ new[P \ {Max(P)}] = it[P \ {Max(P)}]
        BY <3>2, <4>3
      <4> QED BY <4>2, <4>4
    <3> QED BY <3>1, <3>2
  <2> HIDE DEF new
  <2>7. SetRecurs(new, k + 1, base, step)
    BY <2>5, <2>6 DEF SetRecurs
  <2> QED BY <2>2, <2>4, <2>7
<1>3. \A k \in 0..n : k \in T
  <2> HIDE DEF T
  <2> QED BY <1>1, <1>2, UpTo
<1>4. n \in T
  <2> HIDE DEF T
  <2> QED BY <1>3
<1> QED BY <1>4, Zenon

(* On the first k places such a function goes up step by step.              *)
LEMMA SetStepsClimb ==
    ASSUME NEW n \in Nat, NEW base, NEW step, NEW it, SetRecurs(it, n, base, step)
    PROVE  Recurs([k \in 0..n |-> it[1..k]], n, base, step)
<1> DEFINE f == [k \in 0..n |-> it[1..k]]
<1>1. f[0] = base
  <2>1. 1..0 = {}
    OBVIOUS
  <2> QED BY <2>1 DEF SetRecurs
<1>2. ASSUME NEW i \in 1..n PROVE f[i] = step[i][f[i - 1]]
  <2>1. i \in Nat /\ 1..i \in SUBSET (1..n) /\ i \in 1..i /\ i - 1 \in 0..n
    OBVIOUS
  <2>2. Max(1..i) = i
    BY <2>1, GreatestPlace
  <2>3. (1..i) \ {i} = 1..(i - 1)
    OBVIOUS
  <2>4. it[1..i] = step[i][it[1..(i - 1)]]
    BY <2>1, <2>2, <2>3 DEF SetRecurs
  <2> QED BY <2>1, <2>4
<1> HIDE DEF f
<1>3. Recurs(f, n, base, step)
  BY <1>1, <1>2 DEF Recurs
<1> QED BY <1>3 DEF f

(* Kept is what a walk over the sequence collects, place by place.          *)
LEMMA KeptSteps ==
    ASSUME NEW S, NEW s \in Seq(S), NEW places
    PROVE  \E f \in [0..Len(s) -> Seq(S)] :
              /\ Kept(s, places) = f[Len(s)]
              /\ f[0] = <<>>
              /\ \A i \in 1..Len(s) :
                    f[i] = IF i \in places THEN Append(f[i - 1], s[i]) ELSE f[i - 1]
<1> DEFINE n == Len(s)
           step == [i \in 1..n |-> [q \in Seq(S) |-> IF i \in places THEN Append(q, s[i]) ELSE q]]
           Def(h) == [i \in 0..n |->
                        IF i = 0 THEN <<>>
                        ELSE IF i \in places THEN Append(h[i - 1], s[i]) ELSE h[i - 1]]
           g == CHOOSE h : h = Def(h)
<1>1. n \in Nat /\ <<>> \in Seq(S) /\ \A i \in 1..n : s[i] \in S
  OBVIOUS
<1>2. step \in [1..n -> [Seq(S) -> Seq(S)]]
  BY <1>1
<1>3. PICK f \in [0..n -> Seq(S)] : Recurs(f, n, <<>>, step)
  <2> HIDE DEF step, n
  <2> QED BY <1>1, <1>2, StepsDefine
<1>4. ASSUME NEW i \in 1..n
      PROVE  /\ f[i] = IF i \in places THEN Append(f[i - 1], s[i]) ELSE f[i - 1]
             /\ i - 1 \in 0..n
  <2>1. i - 1 \in 0..n
    BY <1>1
  <2>2. f[i] = step[i][f[i - 1]] /\ f[i - 1] \in Seq(S)
    <3> HIDE DEF step
    <3> QED BY <1>3, <2>1 DEF Recurs
  <2> QED BY <2>1, <2>2
<1>5. f[0] = <<>>
  BY <1>3 DEF Recurs
<1>6. f = Def(f)
  <2>1. ASSUME NEW i \in 0..n PROVE f[i] = Def(f)[i]
    <3>1. i = 0 \/ i \in 1..n
      BY <1>1
    <3> QED BY <1>4, <1>5, <3>1
  <2>2. DOMAIN f = 0..n /\ f = [i \in 0..n |-> f[i]]
    BY <1>3
  <2> QED BY <2>1, <2>2
<1>7. g = Def(g)
  <2> HIDE DEF Def
  <2> QED BY <1>6
<1>8. \A i \in 0..n : g[i] = IF i = 0 THEN <<>>
                             ELSE IF i \in places THEN Append(g[i - 1], s[i]) ELSE g[i - 1]
  <2> HIDE DEF g
  <2> QED BY <1>7
<1>9. \A k \in 0..n : g[k] = f[k]
  <2> DEFINE T == {k \in 0..n : g[k] = f[k]}
  <2> HIDE DEF g
  <2>1. 0 \in T
    BY <1>1, <1>5, <1>8
  <2>2. ASSUME NEW k \in 0..(n - 1), k \in T PROVE k + 1 \in T
    <3>1. k + 1 \in 1..n /\ k + 1 \in 0..n /\ (k + 1) - 1 = k /\ k + 1 # 0
      BY <1>1
    <3>2. g[k + 1] = IF k + 1 \in places THEN Append(g[k], s[k + 1]) ELSE g[k]
      BY <1>8, <3>1
    <3>3. f[k + 1] = IF k + 1 \in places THEN Append(f[k], s[k + 1]) ELSE f[k]
      BY <1>4, <3>1
    <3> QED BY <2>2, <3>1, <3>2, <3>3
  <2>3. \A k \in 0..n : k \in T
    <3> HIDE DEF T, n
    <3> QED BY <1>1, <2>1, <2>2, UpTo
  <2> QED BY <2>3
<1>10. Kept(s, places) = g[n]
  BY DEF Kept
<1>11. Kept(s, places) = f[n]
  <2> HIDE DEF g
  <2> QED BY <1>1, <1>9, <1>10
<1> QED BY <1>4, <1>5, <1>11

(* Kept lists the elements at those places, all of them, in their order.    *)
Lists(q, s, upto, places) ==
    \E at \in [1..Len(q) -> 1..upto] :
        /\ \A k \in 1..Len(q) : at[k] \in places /\ q[k] = s[at[k]]
        /\ \A k, l \in 1..Len(q) : k < l => at[k] < at[l]
        /\ \A i \in 1..upto : i \in places => \E k \in 1..Len(q) : at[k] = i

(* Nothing is kept of no elements.                                          *)
LEMMA ListsEmpty ==
    ASSUME NEW s, NEW places
    PROVE  Lists(<<>>, s, 0, places)
<1> DEFINE at == [k \in 1..0 |-> 1]
<1>1. at \in [1..0 -> 1..0] /\ 1..0 = {} /\ Len(<<>>) = 0
  OBVIOUS
<1> HIDE DEF at
<1> QED BY <1>1 DEF Lists

(* A place that is not kept leaves the list as it is.                       *)
LEMMA ListsSkip ==
    ASSUME NEW S, NEW q \in Seq(S), NEW s \in Seq(S), NEW places,
           NEW n \in Nat, n + 1 \notin places, Lists(q, s, n, places)
    PROVE  Lists(q, s, n + 1, places)
<1>1. PICK at \in [1..Len(q) -> 1..n] :
        /\ \A k \in 1..Len(q) : at[k] \in places /\ q[k] = s[at[k]]
        /\ \A k, l \in 1..Len(q) : k < l => at[k] < at[l]
        /\ \A i \in 1..n : i \in places => \E k \in 1..Len(q) : at[k] = i
  BY DEF Lists
<1>2. at \in [1..Len(q) -> 1..(n + 1)]
  OBVIOUS
<1>3. \A i \in 1..(n + 1) : i \in places => i \in 1..n
  OBVIOUS
<1> QED BY <1>1, <1>2, <1>3 DEF Lists

(* A place that is kept ends the list.                                      *)
LEMMA ListsTake ==
    ASSUME NEW S, NEW q \in Seq(S), NEW s \in Seq(S), NEW places,
           NEW n \in Nat, n + 1 \in 1..Len(s), n + 1 \in places, Lists(q, s, n, places)
    PROVE  Lists(Append(q, s[n + 1]), s, n + 1, places)
<1>1. PICK at \in [1..Len(q) -> 1..n] :
        /\ \A k \in 1..Len(q) : at[k] \in places /\ q[k] = s[at[k]]
        /\ \A k, l \in 1..Len(q) : k < l => at[k] < at[l]
        /\ \A i \in 1..n : i \in places => \E k \in 1..Len(q) : at[k] = i
  BY DEF Lists
<1> DEFINE r  == Append(q, s[n + 1])
           to == [k \in 1..(Len(q) + 1) |-> IF k = Len(q) + 1 THEN n + 1 ELSE at[k]]
<1>2. /\ Len(q) \in Nat /\ Len(r) = Len(q) + 1
      /\ \A k \in 1..(Len(q) + 1) :
            IF k = Len(q) + 1 THEN r[k] = s[n + 1] ELSE k \in 1..Len(q) /\ r[k] = q[k]
  OBVIOUS
<1> HIDE DEF r
<1>3. to \in [1..Len(r) -> 1..(n + 1)]
  BY <1>2
<1>4. ASSUME NEW k \in 1..Len(r) PROVE to[k] \in places /\ r[k] = s[to[k]]
  BY <1>1, <1>2
<1>5. ASSUME NEW k \in 1..Len(r), NEW l \in 1..Len(r), k < l PROVE to[k] < to[l]
  <2>1. k \in 1..Len(q) /\ at[k] \in 1..n /\ to[k] = at[k]
    BY <1>2, <1>5
  <2>2. CASE l = Len(q) + 1
    BY <1>2, <2>1, <2>2
  <2>3. CASE l # Len(q) + 1
    <3>1. l \in 1..Len(q) /\ to[l] = at[l]
      BY <1>2, <2>3
    <3> QED BY <1>1, <1>5, <2>1, <3>1
  <2> QED BY <2>2, <2>3
<1>6. ASSUME NEW i \in 1..(n + 1), i \in places PROVE \E k \in 1..Len(r) : to[k] = i
  <2>1. CASE i = n + 1
    <3>1. Len(q) + 1 \in 1..Len(r) /\ to[Len(q) + 1] = n + 1
      BY <1>2
    <3> QED BY <2>1, <3>1
  <2>2. CASE i # n + 1
    <3>1. i \in 1..n
      BY <2>2
    <3>2. PICK k \in 1..Len(q) : at[k] = i
      BY <1>1, <1>6, <3>1
    <3>3. k \in 1..Len(r) /\ to[k] = at[k]
      BY <1>2
    <3> QED BY <3>2, <3>3
  <2> QED BY <2>1, <2>2
<1> HIDE DEF to
<1>7. Lists(r, s, n + 1, places)
  BY <1>3, <1>4, <1>5, <1>6 DEF Lists
<1> QED BY <1>7 DEF r

(* Kept lists exactly the elements at the places, in order.                 *)
LEMMA KeptLists ==
    ASSUME NEW S, NEW s \in Seq(S), NEW places
    PROVE  /\ Kept(s, places) \in Seq(S)
           /\ Lists(Kept(s, places), s, Len(s), places)
<1> DEFINE n == Len(s)
<1>1. n \in Nat
  OBVIOUS
<1>2. PICK f \in [0..n -> Seq(S)] :
        /\ Kept(s, places) = f[n]
        /\ f[0] = <<>>
        /\ \A i \in 1..n : f[i] = IF i \in places THEN Append(f[i - 1], s[i]) ELSE f[i - 1]
  BY KeptSteps
<1> DEFINE T == {k \in 0..n : Lists(f[k], s, k, places)}
<1>3. 0 \in T
  BY <1>1, <1>2, ListsEmpty
<1>4. ASSUME NEW k \in 0..(n - 1), k \in T PROVE k + 1 \in T
  <2>1. k \in Nat /\ k \in 0..n /\ k + 1 \in 1..n /\ (k + 1) - 1 = k
    BY <1>1
  <2>2. f[k] \in Seq(S) /\ Lists(f[k], s, k, places)
    BY <1>4, <2>1
  <2>3. CASE k + 1 \in places
    <3>1. f[k + 1] = Append(f[k], s[k + 1])
      BY <1>2, <2>1, <2>3
    <3>2. Lists(f[k + 1], s, k + 1, places)
      BY <2>1, <2>2, <2>3, <3>1, ListsTake
    <3> QED BY <2>1, <3>2
  <2>4. CASE k + 1 \notin places
    <3>1. f[k + 1] = f[k]
      BY <1>2, <2>1, <2>4
    <3>2. Lists(f[k + 1], s, k + 1, places)
      BY <2>1, <2>2, <2>4, <3>1, ListsSkip
    <3> QED BY <2>1, <3>2
  <2> QED BY <2>3, <2>4
<1>5. \A k \in 0..n : k \in T
  <2> HIDE DEF T, n
  <2> QED BY <1>1, <1>3, <1>4, UpTo
<1>6. n \in 0..n
  BY <1>1
<1>7. Lists(f[n], s, n, places)
  BY <1>5, <1>6
<1> QED BY <1>2, <1>6, <1>7

(* FlattenSeq is what a walk over the parts puts together.                  *)
LEMMA FlattenSteps ==
    ASSUME NEW S, NEW ss \in Seq(Seq(S))
    PROVE  \E f \in [0..Len(ss) -> Seq(S)] :
              /\ FlattenSeq(ss) = f[Len(ss)]
              /\ f[0] = <<>>
              /\ \A i \in 1..Len(ss) : f[i] = f[i - 1] \o ss[i]
<1> DEFINE n == Len(ss)
           step == [i \in 1..n |-> [q \in Seq(S) |-> q \o ss[i]]]
           Def(h) == [i \in 1..n |-> IF i = 1 THEN ss[i] ELSE h[i - 1] \o ss[i]]
           g == CHOOSE h : h = Def(h)
<1>1. n \in Nat /\ <<>> \in Seq(S) /\ \A i \in 1..n : ss[i] \in Seq(S)
  OBVIOUS
<1>2. step \in [1..n -> [Seq(S) -> Seq(S)]]
  BY <1>1
<1>3. PICK f \in [0..n -> Seq(S)] : Recurs(f, n, <<>>, step)
  <2> HIDE DEF step, n
  <2> QED BY <1>1, <1>2, StepsDefine
<1>4. ASSUME NEW i \in 1..n
      PROVE  f[i] = f[i - 1] \o ss[i] /\ i - 1 \in 0..n /\ f[i] \in Seq(S)
  <2>1. i - 1 \in 0..n /\ i \in 0..n
    BY <1>1
  <2>2. f[i] = step[i][f[i - 1]] /\ f[i - 1] \in Seq(S)
    <3> HIDE DEF step
    <3> QED BY <1>3, <2>1 DEF Recurs
  <2> QED BY <2>1, <2>2
<1>5. f[0] = <<>>
  BY <1>3 DEF Recurs
<1>a. n # 0 => f[1] = ss[1]
  <2> SUFFICES ASSUME n # 0 PROVE f[1] = ss[1]
    OBVIOUS
  <2>1. 1 \in 1..n /\ 1 - 1 = 0
    BY <1>1
  <2>2. f[1] = f[0] \o ss[1] /\ ss[1] \in Seq(S)
    BY <1>1, <1>4, <2>1
  <2> HIDE DEF n
  <2>3. f[1] = <<>> \o ss[1]
    BY <1>5, <2>2
  <2> QED BY <2>2, <2>3
<1> DEFINE rest == [i \in 1..n |-> f[i]]
<1>6. rest = Def(rest)
  <2>1. ASSUME NEW i \in 1..n PROVE rest[i] = Def(rest)[i]
    <3>1. CASE i = 1
      <4>1. n # 0
        BY <1>1, <3>1
      <4> QED BY <1>a, <3>1, <4>1
    <3>2. CASE i # 1
      <4>1. i - 1 \in 1..n
        BY <1>1, <3>2
      <4> QED BY <1>4, <3>2, <4>1
    <3> QED BY <3>1, <3>2
  <2> QED BY <2>1
<1>7. g = Def(g)
  <2> HIDE DEF Def, rest
  <2> QED BY <1>6
<1>8. \A i \in 1..n : g[i] = IF i = 1 THEN ss[i] ELSE g[i - 1] \o ss[i]
  <2> HIDE DEF g
  <2> QED BY <1>7
<1>9. \A k \in 0..n : k = 0 \/ g[k] = f[k]
  <2> DEFINE T == {k \in 0..n : k = 0 \/ g[k] = f[k]}
  <2> HIDE DEF g
  <2>1. 0 \in T
    BY <1>1
  <2>2. ASSUME NEW k \in 0..(n - 1), k \in T PROVE k + 1 \in T
    <3>1. k + 1 \in 1..n /\ k + 1 \in 0..n /\ (k + 1) - 1 = k
      BY <1>1
    <3>2. CASE k = 0
      <4>1. 1 \in 1..n /\ n # 0
        BY <1>1, <3>1, <3>2
      <4>2. g[1] = ss[1] /\ f[1] = ss[1]
        BY <1>8, <1>a, <4>1
      <4> QED BY <3>1, <3>2, <4>2
    <3>3. CASE k # 0
      <4>1. g[k + 1] = g[k] \o ss[k + 1]
        <5>1. k + 1 # 1
          BY <1>1, <3>3
        <5>2. g[k + 1] = g[(k + 1) - 1] \o ss[k + 1]
          BY <1>8, <3>1, <5>1
        <5> QED BY <3>1, <5>2
      <4>2. f[k + 1] = f[k] \o ss[k + 1]
        BY <1>4, <3>1
      <4> QED BY <2>2, <3>1, <3>3, <4>1, <4>2
    <3> QED BY <3>2, <3>3
  <2>3. \A k \in 0..n : k \in T
    <3> HIDE DEF T, n
    <3> QED BY <1>1, <2>1, <2>2, UpTo
  <2> QED BY <2>3
<1>10. FlattenSeq(ss) = f[n]
  <2>1. CASE n = 0
    BY <1>5, <2>1 DEF FlattenSeq
  <2>2. CASE n # 0
    <3>1. FlattenSeq(ss) = g[n]
      BY <2>2 DEF FlattenSeq
    <3>2. g[n] = f[n]
      <4> HIDE DEF g
      <4> QED BY <1>1, <1>9, <2>2
    <3> QED BY <3>1, <3>2
  <2> QED BY <2>1, <2>2
<1> QED BY <1>4, <1>5, <1>10


(* Places of a sequence: a least and a greatest one exist.                  *)
LEMMA MinOf ==
    ASSUME NEW T, T \subseteq Nat, T # {}
    PROVE  Min(T) \in T /\ \A m \in T : Min(T) <= m
<1>1. \E n \in T : \A m \in T : n <= m
  BY LeastNumber
<1> QED BY <1>1 DEF Min

(* The greatest of nothing but 0 is 0.                                      *)
LEMMA MaxOfNone ==
    Max({0}) = 0
  BY DEF Max

(* A list of numbers, with 0 added, has a greatest.                         *)
LEMMA GreatestOf ==
    ASSUME NEW n \in Nat, NEW f, \A i \in 1..n : f[i] \in Nat
    PROVE  \E m \in {0} \cup {f[i] : i \in 1..n} : \A x \in {0} \cup {f[i] : i \in 1..n} : m >= x
<1> DEFINE Of(k) == {0} \cup {f[i] : i \in 1..k}
           T == {k \in 0..n : \E m \in Of(k) : \A x \in Of(k) : m >= x}
<1>1. 0 \in T
  <2>1. Of(0) = {0}
    OBVIOUS
  <2> QED BY <2>1
<1>2. ASSUME NEW k \in 0..(n - 1), k \in T PROVE k + 1 \in T
  <2>1. PICK m \in Of(k) : \A x \in Of(k) : m >= x
    BY <1>2
  <2>2. k \in Nat /\ k + 1 \in 1..n /\ f[k + 1] \in Nat /\ m \in Nat
    OBVIOUS
  <2>3. Of(k + 1) = Of(k) \cup {f[k + 1]}
    <3>1. 1..(k + 1) = (1..k) \cup {k + 1}
      BY <2>2
    <3> QED BY <3>1
  <2>4. Of(k) \subseteq Nat
    BY <2>2
  <2> HIDE DEF Of
  <2>5. CASE f[k + 1] <= m
    BY <2>1, <2>2, <2>3, <2>4, <2>5
  <2>6. CASE ~(f[k + 1] <= m)
    <3>1. \A x \in Of(k + 1) : f[k + 1] >= x
      BY <2>1, <2>2, <2>3, <2>4, <2>6
    <3>2. f[k + 1] \in Of(k + 1)
      BY <2>3
    <3> QED BY <2>2, <3>1, <3>2
  <2> QED BY <2>5, <2>6
<1>3. \A k \in 0..n : k \in T
  <2> HIDE DEF T
  <2> QED BY <1>1, <1>2, UpTo
<1>4. n \in T
  <2> HIDE DEF T
  <2> QED BY <1>3
<1> QED BY <1>4

(* A set of places has a greatest one.                                      *)
LEMMA MaxOf ==
    ASSUME NEW n \in Nat, NEW P \in SUBSET (1..n), P # {}
    PROVE  Max(P) \in P /\ \A m \in P : Max(P) >= m
<1> DEFINE T == {m \in 0..n : n - m \in P}
<1>1. PICK p \in P : p \in 1..n
  OBVIOUS
<1>2. n - p \in 0..n /\ n - (n - p) = p
  BY <1>1
<1>3. T \subseteq Nat /\ T # {}
  <2>1. n - (n - p) \in P
    BY <1>1, <1>2
  <2>2. n - p \in T
    BY <1>2, <2>1
  <2>3. T \subseteq Nat
    OBVIOUS
  <2> HIDE DEF T
  <2> QED BY <2>2, <2>3
<1>4. PICK l \in T : \A m \in T : l <= m
  <2> HIDE DEF T
  <2> QED BY <1>3, LeastNumber
<1>5. ASSUME NEW m \in P PROVE n - l >= m
  <2>1. n - m \in 0..n /\ n - (n - m) = m /\ m \in Nat
    OBVIOUS
  <2>2. n - m \in T
    BY <2>1
  <2>3. l <= n - m
    BY <1>4, <2>2
  <2> QED BY <2>1, <2>3
<1>6. n - l \in P
  OBVIOUS
<1> QED BY <1>5, <1>6 DEF Max

(* The first places of a sequence, one by one.                              *)
LEMMA FirstPlaces ==
    ASSUME NEW n \in Nat, NEW k \in 0..(n - 1)
    PROVE  /\ k + 1 \in 1..n /\ k + 1 \in 0..n /\ k \in 0..n /\ (k + 1) - 1 = k
           /\ 1..(k + 1) \in SUBSET (1..n) /\ 1..k \in SUBSET (1..n)
           /\ 1..(k + 1) # {} /\ Max(1..(k + 1)) = k + 1 /\ (1..(k + 1)) \ {k + 1} = 1..k
<1>1. k + 1 \in 1..n /\ k + 1 \in 0..n /\ k \in 0..n /\ (k + 1) - 1 = k
  OBVIOUS
<1>2. 1..(k + 1) \in SUBSET (1..n) /\ 1..k \in SUBSET (1..n)
  OBVIOUS
<1>3. k + 1 \in 1..(k + 1) /\ k + 1 \in Nat
  OBVIOUS
<1>4. (1..(k + 1)) \ {k + 1} = 1..k
  OBVIOUS
<1>5. Max(1..(k + 1)) = k + 1
  BY <1>3, GreatestPlace
<1> QED BY <1>1, <1>2, <1>3, <1>4, <1>5

(* The head of a concatenation is the head of its first part.               *)
LEMMA HeadTail ==
    ASSUME NEW S, NEW s \in Seq(S), NEW p \in Seq(S), s # <<>>
    PROVE  /\ s \o p \in Seq(S) /\ s \o p # <<>>
           /\ Head(s \o p) = Head(s) /\ Tail(s \o p) = Tail(s) \o p
<1>a. s \o p \in Seq(S)
  OBVIOUS
<1>b. Tail(s) \in Seq(S)
  OBVIOUS
<1>1. PICK q \in Seq(S) : q = s \o p
  BY <1>a
<1>2. PICK t \in Seq(S) : t = Tail(s)
  BY <1>b
<1>3. PICK l \in Nat : l = Len(s)
  OBVIOUS
<1>4. /\ l > 0 /\ Len(t) = l - 1 /\ \A i \in 1..(l - 1) : t[i] = s[i + 1]
  BY <1>2, <1>3
<1>5. /\ Len(q) = l + Len(p) /\ \A i \in 1..l : q[i] = s[i]
      /\ \A i \in 1..Len(p) : q[l + i] = p[i]
  BY <1>1, <1>3
<1>6. q # <<>> /\ Head(q) = Head(s)
  BY <1>1, <1>3, <1>4, <1>5
<1>c. Tail(q) \in Seq(S)
  BY <1>6
<1>7. PICK u \in Seq(S) : u = Tail(q)
  BY <1>c
<1>8. Len(u) = l - 1 + Len(p) /\ \A i \in 1..Len(u) : u[i] = q[i + 1]
  BY <1>4, <1>5, <1>6, <1>7
<1>d. t \o p \in Seq(S)
  OBVIOUS
<1>9. PICK r \in Seq(S) : r = t \o p
  BY <1>d
<1>10. /\ Len(r) = l - 1 + Len(p) /\ \A i \in 1..(l - 1) : r[i] = t[i]
       /\ \A i \in 1..Len(p) : r[l - 1 + i] = p[i]
  <2>1. Len(r) = l - 1 + Len(p)
    <3>1. Len(r) = Len(t) + Len(p)
      BY <1>9, ConcatProperties
    <3> QED BY <1>4, <3>1
  <2>2. ASSUME NEW i \in 1..(l - 1) PROVE r[i] = t[i]
    <3>1. i \in 1..Len(t) + Len(p) /\ i <= Len(t)
      BY <1>4
    <3> QED BY <1>9, <3>1, ConcatProperties
  <2>3. ASSUME NEW i \in 1..Len(p) PROVE r[l - 1 + i] = p[i]
    <3>1. PICK j \in 1..Len(t) + Len(p) : j = l - 1 + i /\ ~(j <= Len(t)) /\ j - Len(t) = i
      BY <1>4
    <3>2. r[j] = p[j - Len(t)]
      BY <1>9, <3>1, ConcatProperties
    <3> QED BY <3>1, <3>2
  <2> QED BY <2>1, <2>2, <2>3
<1>11. ASSUME NEW i \in 1..Len(u) PROVE u[i] = r[i]
  <2>1. CASE i <= l - 1
    <3>1. i \in 1..(l - 1) /\ i + 1 \in 1..l
      BY <1>4, <2>1
    <3> QED BY <1>4, <1>5, <1>8, <1>10, <3>1
  <2>2. CASE i > l - 1
    <3>1. PICK j \in 1..Len(p) : i = l - 1 + j
      <4>1. i - (l - 1) \in 1..Len(p) /\ i = l - 1 + (i - (l - 1))
        BY <1>4, <1>8, <2>2
      <4> QED BY <4>1
    <3>2. i + 1 = l + j
      BY <3>1
    <3> QED BY <1>5, <1>8, <1>10, <3>1, <3>2
  <2> QED BY <2>1, <2>2
<1>12. Len(u) = Len(r)
  BY <1>8, <1>10
<1>13. u = r
  BY <1>11, <1>12, SeqEqual
<1> QED BY <1>1, <1>2, <1>6, <1>7, <1>9, <1>13

(* A prefix, place by place.                                                *)
LEMMA PrefixIs ==
    ASSUME NEW S, NEW s \in Seq(S), NEW t \in Seq(S), Len(s) <= Len(t), \A i \in 1..Len(s) : s[i] = t[i]
    PROVE  IsPrefix(s, t)
<1>1. PICK l \in Nat : l = Len(s)
  OBVIOUS
<1>2. \A i \in 1..l : s[i] \in S /\ t[i] \in S
  BY <1>1
<1>3. PICK p, q : p = SubSeq(s, 1, l) /\ q = SubSeq(t, 1, l)
  OBVIOUS
<1>4. /\ p \in Seq(S) /\ Len(p) = (IF 1 <= l THEN l - 1 + 1 ELSE 0)
      /\ \A i \in 1..(l - 1 + 1) : p[i] = s[1 + i - 1]
  BY <1>2, <1>3, SubSeqProperties
<1>5. /\ q \in Seq(S) /\ Len(q) = (IF 1 <= l THEN l - 1 + 1 ELSE 0)
      /\ \A i \in 1..(l - 1 + 1) : q[i] = t[1 + i - 1]
  BY <1>2, <1>3, SubSeqProperties
<1>6. Len(p) = l /\ Len(q) = l
  BY <1>4, <1>5
<1>7. \A i \in 1..Len(p) : p[i] = q[i]
  <2> TAKE i \in 1..Len(p)
  <2>1. i \in 1..l /\ i \in 1..(l - 1 + 1) /\ 1 + i - 1 = i
    BY <1>6
  <2> QED BY <1>1, <1>4, <1>5, <2>1
<1>8. p = q
  BY <1>4, <1>5, <1>6, <1>7, SeqEqual
<1> QED BY <1>1, <1>3, <1>8 DEF IsPrefix

(* The filter, step by step.                                                *)
KeptBy(f, s, places) ==
    /\ Kept(s, places) = f[Len(s)]
    /\ f[0] = <<>>
    /\ \A i \in 1..Len(s) : f[i] = IF i \in places THEN Append(f[i - 1], s[i]) ELSE f[i - 1]

(* Kept is the last of its own walk.                                        *)
LEMMA KeptHasSteps ==
    ASSUME NEW S, NEW s \in Seq(S), NEW places
    PROVE  \E f \in [0..Len(s) -> Seq(S)] : KeptBy(f, s, places)
BY KeptSteps DEF KeptBy

(* What is kept of a sequence with one element more.                        *)
LEMMA KeptAppend ==
    ASSUME NEW S, NEW s \in Seq(S), NEW x \in S, NEW places
    PROVE  Kept(Append(s, x), places)
             = IF Len(s) + 1 \in places THEN Append(Kept(s, places), x) ELSE Kept(s, places)
<1>0. PICK n \in Nat, r \in Seq(S) : n = Len(s) /\ r = Append(s, x)
  <2>1. Len(s) \in Nat /\ Append(s, x) \in Seq(S)
    OBVIOUS
  <2> QED BY <2>1
<1>1. Len(r) = n + 1 /\ r[n + 1] = x /\ \A i \in 1..n : r[i] = s[i]
  BY <1>0
<1>2. PICK f \in [0..Len(s) -> Seq(S)] : KeptBy(f, s, places)
  BY KeptHasSteps
<1>3. PICK g \in [0..Len(r) -> Seq(S)] : KeptBy(g, r, places)
  BY KeptHasSteps
<1>4. \A k \in 0..n : f[k] = g[k]
  <2> DEFINE T == {k \in 0..n : f[k] = g[k]}
  <2>1. 0 \in T
    BY <1>0, <1>2, <1>3 DEF KeptBy
  <2>2. ASSUME NEW k \in 0..(n - 1), k \in T PROVE k + 1 \in T
    <3>1. k + 1 \in 1..n /\ k + 1 \in 1..(n + 1) /\ k + 1 \in 0..n /\ (k + 1) - 1 = k
      OBVIOUS
    <3>2. f[k + 1] = IF k + 1 \in places THEN Append(f[k], s[k + 1]) ELSE f[k]
      BY <1>0, <1>2, <3>1 DEF KeptBy
    <3>3. g[k + 1] = IF k + 1 \in places THEN Append(g[k], r[k + 1]) ELSE g[k]
      BY <1>1, <1>3, <3>1 DEF KeptBy
    <3> QED BY <1>1, <2>2, <3>1, <3>2, <3>3
  <2> HIDE DEF T
  <2>3. \A k \in 0..n : k \in T
    BY <2>1, <2>2, UpTo
  <2> QED BY <2>3 DEF T
<1>5. n + 1 \in 1..(n + 1) /\ (n + 1) - 1 = n /\ n \in 0..n
  OBVIOUS
<1>6. Kept(r, places) = IF n + 1 \in places THEN Append(f[n], x) ELSE f[n]
  BY <1>1, <1>3, <1>4, <1>5 DEF KeptBy
<1> QED BY <1>0, <1>2, <1>6 DEF KeptBy

(* What is kept depends on the places of the sequence only.                 *)
LEMMA KeptSame ==
    ASSUME NEW S, NEW s \in Seq(S), NEW places, NEW others,
           \A i \in 1..Len(s) : i \in places <=> i \in others
    PROVE  Kept(s, places) = Kept(s, others)
<1> DEFINE n == Len(s)
<1>1. n \in Nat
  OBVIOUS
<1>2. PICK f \in [0..n -> Seq(S)] :
        /\ Kept(s, places) = f[n]
        /\ f[0] = <<>>
        /\ \A i \in 1..n : f[i] = IF i \in places THEN Append(f[i - 1], s[i]) ELSE f[i - 1]
  BY KeptSteps, ZenonT(30)
<1>3. PICK g \in [0..n -> Seq(S)] :
        /\ Kept(s, others) = g[n]
        /\ g[0] = <<>>
        /\ \A i \in 1..n : g[i] = IF i \in others THEN Append(g[i - 1], s[i]) ELSE g[i - 1]
  BY KeptSteps
<1> HIDE DEF n
<1>4. \A k \in 0..n : f[k] = g[k]
  <2> DEFINE T == {k \in 0..n : f[k] = g[k]}
  <2>1. 0 \in T
    BY <1>1, <1>2, <1>3
  <2>2. ASSUME NEW k \in 0..(n - 1), k \in T PROVE k + 1 \in T
    <3>1. k + 1 \in 1..n /\ k + 1 \in 0..n /\ (k + 1) - 1 = k
      BY <1>1
    <3>2. k + 1 \in places <=> k + 1 \in others
      BY <3>1 DEF n
    <3>3. f[k + 1] = IF k + 1 \in places THEN Append(f[k], s[k + 1]) ELSE f[k]
      BY <1>2, <3>1
    <3>4. g[k + 1] = IF k + 1 \in others THEN Append(g[k], s[k + 1]) ELSE g[k]
      BY <1>3, <3>1
    <3> QED BY <2>2, <3>1, <3>2, <3>3, <3>4
  <2> HIDE DEF T
  <2>3. \A k \in 0..n : k \in T
    BY <1>1, <2>1, <2>2, UpTo
  <2> QED BY <2>3 DEF T
<1>5. n \in 0..n
  BY <1>1
<1> QED BY <1>2, <1>3, <1>4, <1>5

(* The first n numbers, and those of them at some places.                   *)
Upto(n) == [i \in 1..n |-> i]

(* The places of a sequence, and one more.                                  *)
LEMMA UptoStep ==
    ASSUME NEW n \in Nat
    PROVE  /\ Upto(n) \in Seq(Nat) /\ Len(Upto(n)) = n
           /\ Upto(n + 1) = Append(Upto(n), n + 1)
<1>1. /\ Upto(n) \in Seq(Nat) /\ Len(Upto(n)) = n /\ \A i \in 1..n : Upto(n)[i] = i
      /\ Upto(n + 1) \in Seq(Nat) /\ Len(Upto(n + 1)) = n + 1 /\ \A i \in 1..(n + 1) : Upto(n + 1)[i] = i
  BY DEF Upto
<1>2. PICK r, u : r = Append(Upto(n), n + 1) /\ u = Upto(n + 1)
  OBVIOUS
<1>3. r \in Seq(Nat) /\ Len(r) = n + 1 /\ \A i \in 1..(n + 1) : r[i] = i
  BY <1>1, <1>2
<1>4. u \in Seq(Nat) /\ Len(u) = Len(r) /\ \A i \in 1..Len(u) : u[i] = r[i]
  BY <1>1, <1>2, <1>3
<1>5. u = r
  BY <1>3, <1>4, SeqEqual
<1> QED BY <1>1, <1>2, <1>5

(* The kept places of a sequence, and one more.                             *)
LEMMA KeptUptoStep ==
    ASSUME NEW n \in Nat, NEW places
    PROVE  /\ Kept(Upto(n), places) \in Seq(Nat)
           /\ Kept(Upto(n + 1), places)
                = IF n + 1 \in places THEN Append(Kept(Upto(n), places), n + 1)
                  ELSE Kept(Upto(n), places)
<1>1. Upto(n) \in Seq(Nat) /\ Len(Upto(n)) = n /\ Upto(n + 1) = Append(Upto(n), n + 1)
  BY UptoStep
<1>2. PICK s \in Seq(Nat) : s = Upto(n)
  BY <1>1
<1>3. Kept(s, places) \in Seq(Nat)
  BY KeptLists
<1>4. PICK x \in Nat : x = n + 1
  OBVIOUS
<1>5. Kept(Append(s, x), places)
        = IF Len(s) + 1 \in places THEN Append(Kept(s, places), x) ELSE Kept(s, places)
  BY KeptAppend
<1> QED BY <1>1, <1>2, <1>3, <1>4, <1>5

(* Numbers at no place of interest add nothing.                             *)
LEMMA KeptUptoSkip ==
    ASSUME NEW m \in Nat, NEW n \in Nat, m <= n, NEW places, \A i \in (m + 1)..n : i \notin places
    PROVE  Kept(Upto(n), places) = Kept(Upto(m), places)
<1> DEFINE T == {k \in 0..(n - m) : Kept(Upto(m + k), places) = Kept(Upto(m), places)}
<1>1. n - m \in Nat
  OBVIOUS
<1>2. 0 \in T
  <2>1. m + 0 = m
    OBVIOUS
  <2> QED BY <1>1, <2>1
<1>3. ASSUME NEW k \in 0..((n - m) - 1), k \in T PROVE k + 1 \in T
  <2>1. m + k \in Nat /\ m + (k + 1) = (m + k) + 1 /\ (m + k) + 1 \in (m + 1)..n /\ k + 1 \in 0..(n - m)
    BY <1>1
  <2>2. PICK l \in Nat : l = m + k
    BY <2>1
  <2>3. Kept(Upto(l + 1), places) = Kept(Upto(l), places)
    BY <2>1, <2>2, KeptUptoStep
  <2> QED BY <1>3, <2>1, <2>2, <2>3
<1> HIDE DEF T
<1>4. \A k \in 0..(n - m) : k \in T
  BY <1>1, <1>2, <1>3, UpTo
<1>5. n - m \in T /\ m + (n - m) = n
  BY <1>1, <1>4
<1> QED BY <1>5 DEF T

(* What is kept of fewer numbers is a prefix.                               *)
LEMMA KeptUptoPrefix ==
    ASSUME NEW m \in Nat, NEW n \in Nat, m <= n, NEW places
    PROVE  IsPrefix(Kept(Upto(m), places), Kept(Upto(n), places))
<1> DEFINE Begins(s, t) == Len(s) <= Len(t) /\ \A i \in 1..Len(s) : s[i] = t[i]
           of(k) == Kept(Upto(k), places)
           T == {k \in 0..(n - m) : Begins(of(m), of(m + k))}
<1>1. n - m \in Nat /\ \A k \in Nat : of(k) \in Seq(Nat)
  <2>1. \A k \in Nat : of(k) \in Seq(Nat)
    BY KeptUptoStep
  <2> QED BY <2>1
<1>2. 0 \in T
  <2>1. m + 0 = m /\ of(m) \in Seq(Nat)
    BY <1>1
  <2> HIDE DEF of
  <2>2. Begins(of(m), of(m))
    BY <2>1
  <2> QED BY <1>1, <2>1, <2>2
<1>3. ASSUME NEW k \in 0..((n - m) - 1), k \in T PROVE k + 1 \in T
  <2>1. m + k \in Nat /\ m + (k + 1) = (m + k) + 1 /\ k + 1 \in 0..(n - m)
    BY <1>1
  <2>2. PICK l \in Nat : l = m + k
    BY <2>1
  <2>3. PICK s \in Seq(Nat), t \in Seq(Nat), u \in Seq(Nat) : s = of(m) /\ t = of(l) /\ u = of(l + 1)
    <3>1. of(m) \in Seq(Nat) /\ of(l) \in Seq(Nat) /\ of(l + 1) \in Seq(Nat)
      BY <1>1
    <3> HIDE DEF of
    <3> QED BY <3>1
  <2>4. u = IF l + 1 \in places THEN Append(t, l + 1) ELSE t
    BY <2>3, KeptUptoStep
  <2>5. Begins(s, t)
    BY <1>3, <2>2, <2>3
  <2>6. Begins(s, u)
    BY <2>4, <2>5
  <2> HIDE DEF of, Begins
  <2> QED BY <2>1, <2>2, <2>3, <2>6
<1> HIDE DEF T
<1>4. \A k \in 0..(n - m) : k \in T
  BY <1>1, <1>2, <1>3, UpTo
<1>5. n - m \in T /\ m + (n - m) = n
  BY <1>1, <1>4
<1>6. Begins(of(m), of(n))
  BY <1>5 DEF T
<1> QED BY <1>1, <1>6, PrefixIs

(* Induction over the length of a sequence, stated with sets.               *)
LEMMA GrowsTo ==
    ASSUME NEW S, NEW T, <<>> \in T, \A s \in Seq(S) : \A x \in S : s \in T => Append(s, x) \in T
    PROVE  \A s \in Seq(S) : s \in T
<1> TAKE s \in Seq(S)
<1>1. PICK n \in Nat : n = Len(s) /\ \A i \in 1..n : s[i] \in S
  OBVIOUS
<1> DEFINE P(k) == [i \in 1..k |-> s[i]]
           R == {k \in 0..n : P(k) \in T}
<1>2. 0 \in R
  <2>1. P(0) = <<>>
    OBVIOUS
  <2> QED BY <1>1, <2>1
<1>3. ASSUME NEW k \in 0..(n - 1), k \in R PROVE k + 1 \in R
  <2>1. k + 1 \in 1..n /\ k + 1 \in 0..n /\ k \in Nat
    BY <1>1
  <2>2. PICK p, q : p = P(k) /\ q = P(k + 1)
    OBVIOUS
  <2>3. /\ p \in Seq(S) /\ Len(p) = k /\ \A i \in 1..k : p[i] = s[i]
        /\ q \in Seq(S) /\ Len(q) = k + 1 /\ \A i \in 1..(k + 1) : q[i] = s[i]
    BY <1>1, <2>1, <2>2
  <2>4. PICK x \in S : x = s[k + 1]
    BY <1>1, <2>1
  <2>5. PICK r \in Seq(S) : r = Append(p, x) /\ Len(r) = k + 1 /\ r[k + 1] = x /\ \A i \in 1..k : r[i] = p[i]
    <3>1. /\ Append(p, x) \in Seq(S) /\ Len(Append(p, x)) = Len(p) + 1 /\ Append(p, x)[Len(p) + 1] = x
          /\ \A i \in 1..Len(p) : Append(p, x)[i] = p[i]
      BY <2>3, AppendProperties
    <3> QED BY <2>3, <3>1
  <2>6. \A i \in 1..Len(q) : q[i] = r[i]
    BY <2>3, <2>4, <2>5
  <2>7. q = r
    BY <2>3, <2>5, <2>6, SeqEqual
  <2>8. p \in T
    BY <1>3, <2>2
  <2>9. q \in T
    BY <2>3, <2>5, <2>7, <2>8
  <2> HIDE DEF P
  <2> QED BY <2>1, <2>2, <2>9
<1>4. n \in R
  <2> HIDE DEF R
  <2> QED BY <1>1, <1>2, <1>3, UpTo, SMTT(30)
<1>5. P(n) = s
  BY <1>1
<1> QED BY <1>4, <1>5

(* A filter on the elements: what is appended stays if it is one of them.   *)
Those(s, V) == Kept(s, {i \in DOMAIN s : s[i] \in V})

(* Those of a sequence with one more element.                               *)
LEMMA ThoseAppend ==
    ASSUME NEW S, NEW s \in Seq(S), NEW x \in S, NEW V
    PROVE  Those(Append(s, x), V) = IF x \in V THEN Append(Those(s, V), x) ELSE Those(s, V)
<1>1. PICK r \in Seq(S), n \in Nat :
        /\ r = Append(s, x) /\ n = Len(s) /\ DOMAIN s = 1..n
        /\ DOMAIN r = 1..(n + 1) /\ r[n + 1] = x /\ \A i \in 1..n : r[i] = s[i]
  <2>1. /\ Append(s, x) \in Seq(S) /\ Len(s) \in Nat /\ DOMAIN s = 1..Len(s)
        /\ DOMAIN Append(s, x) = 1..(Len(s) + 1) /\ Append(s, x)[Len(s) + 1] = x
        /\ \A i \in 1..Len(s) : Append(s, x)[i] = s[i]
    BY AppendProperties
  <2> QED BY <2>1
<1>2. PICK P, Q : P = {i \in DOMAIN r : r[i] \in V} /\ Q = {i \in DOMAIN s : s[i] \in V}
  OBVIOUS
<1>3. \A i \in 1..Len(s) : i \in P <=> i \in Q
  BY <1>1, <1>2
<1>4. Kept(s, P) = Kept(s, Q)
  BY <1>3, KeptSame
<1>5. Kept(Append(s, x), P) = IF Len(s) + 1 \in P THEN Append(Kept(s, P), x) ELSE Kept(s, P)
  BY KeptAppend
<1>6. Len(s) + 1 \in P <=> x \in V
  BY <1>1, <1>2
<1> QED BY <1>1, <1>2, <1>4, <1>5, <1>6 DEF Those

(* Those lists the elements of V, in order.                                 *)
LEMMA ThoseIs ==
    ASSUME NEW S, NEW s \in Seq(S), NEW V
    PROVE  Those(s, V) \in Seq(S) /\ Lists(Those(s, V), s, Len(s), {i \in DOMAIN s : s[i] \in V})
BY KeptLists DEF Those

(* There are none in the empty sequence.                                    *)
LEMMA ThoseNone ==
    ASSUME NEW V
    PROVE  Those(<<>>, V) = <<>>
<1>1. PICK S : S = {V}
  OBVIOUS
<1>2. PICK s \in Seq(S) : s = <<>>
  <2>1. <<>> \in Seq(S)
    OBVIOUS
  <2> QED BY <2>1
<1>3. PICK P : P = {i \in DOMAIN s : s[i] \in V}
  OBVIOUS
<1>4. PICK f \in [0..Len(s) -> Seq(S)] : KeptBy(f, s, P)
  BY KeptHasSteps
<1> QED BY <1>2, <1>3, <1>4 DEF KeptBy, Those

(* A filter goes through the parts of a sequence.                           *)
LEMMA ThoseOfParts ==
    ASSUME NEW S, NEW s \in Seq(S), NEW t \in Seq(S), NEW V
    PROVE  Those(s \o t, V) = Those(s, V) \o Those(t, V)
<1> DEFINE T == {u \in Seq(S) : Those(s \o u, V) = Those(s, V) \o Those(u, V)}
<1>1. <<>> \in T
  <2>1. PICK k \in Seq(S) : k = Those(s, V)
    BY ThoseIs
  <2>2. s \o <<>> = s /\ k \o <<>> = k /\ <<>> \in Seq(S)
    BY ConcatEmptySeq
  <2> QED BY <2>1, <2>2, ThoseNone
<1>2. ASSUME NEW u \in Seq(S), NEW x \in S, u \in T PROVE Append(u, x) \in T
  <2>1. PICK r \in Seq(S), w \in Seq(S) : r = s \o u /\ w = Append(u, x)
    <3>1. s \o u \in Seq(S) /\ Append(u, x) \in Seq(S)
      OBVIOUS
    <3> QED BY <3>1
  <2>2. s \o w = Append(r, x)
    BY <2>1
  <2>3. PICK k \in Seq(S), l \in Seq(S) : k = Those(s, V) /\ l = Those(u, V)
    <3>1. Those(s, V) \in Seq(S) /\ Those(u, V) \in Seq(S)
      BY ThoseIs
    <3> QED BY <3>1
  <2>4. Those(r, V) = k \o l
    BY <1>2, <2>1, <2>3
  <2>5. k \o Append(l, x) = Append(k \o l, x)
    OBVIOUS
  <2>a. \A v \in Seq(S) : Those(Append(v, x), V) = IF x \in V THEN Append(Those(v, V), x) ELSE Those(v, V)
    BY ThoseAppend
  <2>6. /\ Those(Append(r, x), V) = IF x \in V THEN Append(Those(r, V), x) ELSE Those(r, V)
        /\ Those(w, V) = IF x \in V THEN Append(l, x) ELSE l
    BY <2>1, <2>3, <2>a
  <2>7. Those(s \o w, V) = k \o Those(w, V)
    BY <2>2, <2>4, <2>5, <2>6
  <2> QED BY <2>1, <2>3, <2>7
<1>3. \A u \in Seq(S) : u \in T
  <2> HIDE DEF T
  <2> QED BY <1>1, <1>2, GrowsTo
<1> QED BY <1>3

(* A filter that every element passes, or none.                             *)
LEMMA ThoseAll ==
    ASSUME NEW S, NEW s \in Seq(S), NEW V, \A i \in 1..Len(s) : s[i] \in V
    PROVE  Those(s, V) = s
<1> DEFINE T == {u \in Seq(S) : (\A i \in 1..Len(u) : u[i] \in V) => Those(u, V) = u}
<1>1. <<>> \in T
  BY ThoseNone
<1>2. ASSUME NEW u \in Seq(S), NEW x \in S, u \in T PROVE Append(u, x) \in T
  <2>1. PICK w \in Seq(S), n \in Nat : /\ w = Append(u, x) /\ n = Len(u) /\ Len(w) = n + 1 /\ w[n + 1] = x
                                       /\ \A i \in 1..n : w[i] = u[i]
    <3>1. /\ Append(u, x) \in Seq(S) /\ Len(u) \in Nat
          /\ Len(Append(u, x)) = Len(u) + 1 /\ Append(u, x)[Len(u) + 1] = x
          /\ \A i \in 1..Len(u) : Append(u, x)[i] = u[i]
      BY AppendProperties
    <3> QED BY <3>1
  <2>2. ASSUME \A i \in 1..Len(w) : w[i] \in V PROVE Those(w, V) = w
    <3>1. x \in V /\ \A i \in 1..Len(u) : u[i] \in V
      BY <2>1, <2>2
    <3>2. Those(u, V) = u
      BY <1>2, <3>1
    <3> QED BY <2>1, <3>1, <3>2, ThoseAppend
  <2> QED BY <2>1, <2>2
<1>3. \A u \in Seq(S) : u \in T
  <2> HIDE DEF T
  <2> QED BY <1>1, <1>2, GrowsTo
<1> QED BY <1>3

(* There are none where no element is one.                                  *)
LEMMA ThoseNowhere ==
    ASSUME NEW S, NEW s \in Seq(S), NEW V, \A i \in 1..Len(s) : s[i] \notin V
    PROVE  Those(s, V) = <<>>
<1> DEFINE T == {u \in Seq(S) : (\A i \in 1..Len(u) : u[i] \notin V) => Those(u, V) = <<>>}
<1>1. <<>> \in T
  BY ThoseNone
<1>2. ASSUME NEW u \in Seq(S), NEW x \in S, u \in T PROVE Append(u, x) \in T
  <2>1. PICK w \in Seq(S), n \in Nat : /\ w = Append(u, x) /\ n = Len(u) /\ Len(w) = n + 1 /\ w[n + 1] = x
                                       /\ \A i \in 1..n : w[i] = u[i]
    <3>1. /\ Append(u, x) \in Seq(S) /\ Len(u) \in Nat
          /\ Len(Append(u, x)) = Len(u) + 1 /\ Append(u, x)[Len(u) + 1] = x
          /\ \A i \in 1..Len(u) : Append(u, x)[i] = u[i]
      BY AppendProperties
    <3> QED BY <3>1
  <2>2. ASSUME \A i \in 1..Len(w) : w[i] \notin V PROVE Those(w, V) = <<>>
    <3>1. x \notin V /\ \A i \in 1..Len(u) : u[i] \notin V
      BY <2>1, <2>2
    <3>2. Those(u, V) = <<>>
      BY <1>2, <3>1
    <3> QED BY <2>1, <3>1, <3>2, ThoseAppend
  <2> QED BY <2>1, <2>2
<1>3. \A u \in Seq(S) : u \in T
  <2> HIDE DEF T
  <2> QED BY <1>1, <1>2, GrowsTo
<1> QED BY <1>3
=============================================================================
