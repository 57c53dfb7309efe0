---------------------------- MODULE ArraysProofs ----------------------------
(***************************************************************************)
(* What moving entries of an array together keeps, and what it rests on:   *)
(* induction over the numbers up to a bound (UpTo), from the least element *)
(* of a set of numbers, and the existence of a function that is defined    *)
(* step by step (Recursion).  With these, what a table or batch built      *)
(* entry by entry contains is proved for every length.                     *)
(***************************************************************************)
EXTENDS Arrays, SequenceTheorems, WellFoundedInduction, TLAPS

\* The least of a set of numbers.
LEMMA LeastExists ==
  ASSUME NEW S, S \subseteq Nat, S # {}
  PROVE  \E i \in S : \A j \in S : i <= j
<1>1. PICK i \in S : \A j \in S : ~ (<<j, i>> \in OpToRel(<, Nat))
  BY NatLessThanWellFounded, WFMin
<1>2. \A j \in S : ~ (j < i)
  BY <1>1 DEF OpToRel
<1> QED
  BY <1>2

\* Induction up to a bound, on a set.
LEMMA UpTo ==
  ASSUME NEW n \in Nat, NEW A, 0 \in A,
         \A i \in 1..n : i - 1 \in A => i \in A
  PROVE  \A i \in 0..n : i \in A
<1> DEFINE B == {i \in 0..n : i \notin A}
<1> SUFFICES ASSUME B # {} PROVE FALSE
  OBVIOUS
<1>1. PICK i \in B : \A j \in B : i <= j
  <2>1. B \subseteq Nat
    OBVIOUS
  <2> HIDE DEF B
  <2> QED
    BY <2>1, LeastExists
<1>2. i \in 1..n /\ i - 1 \in 0..n
  OBVIOUS
<1>3. i - 1 \in A
  <2>1. i - 1 \notin B
    BY <1>1, <1>2
  <2> QED
    BY <1>2, <2>1
<1> QED
  BY <1>2, <1>3

\* A function is defined step by step up to a bound.
Defines(f, n, base, step) ==
  \A i \in 0..n : f[i] = IF i = 0 THEN base ELSE step[<<i, f[i - 1]>>]

\* There is such a function.
LEMMA Recursion ==
  ASSUME NEW n \in Nat, NEW R, NEW base \in R,
         NEW step \in [(1..n) \X R -> R]
  PROVE  \E f \in [0..n -> R] : Defines(f, n, base, step)
<1> DEFINE Steps(f, m) == Defines(f, m, base, step)
           HasSteps(m) == \E f \in [0..n -> R] : Steps(f, m)
           A == {m \in 0..n : HasSteps(m)}
<1> USE DEF Defines
<1>1. HasSteps(0)
  <2>1. /\ [i \in 0..n |-> base] \in [0..n -> R]
        /\ Steps([i \in 0..n |-> base], 0)
    OBVIOUS
  <2> HIDE DEF Steps
  <2> QED
    BY <2>1
<1>2. ASSUME NEW m \in 1..n, HasSteps(m - 1) PROVE HasSteps(m)
  <2>1. PICK f \in [0..n -> R] : Steps(f, m - 1)
    BY <1>2
  <2>2. f[m - 1] \in R
    OBVIOUS
  <2> DEFINE g == [f EXCEPT ![m] = step[<<m, f[m - 1]>>]]
  <2>3. g \in [0..n -> R]
    BY <2>2
  <2>4. /\ g[m] = step[<<m, f[m - 1]>>]
        /\ \A i \in 0..(m - 1) : g[i] = f[i]
    OBVIOUS
  <2> HIDE DEF g
  <2>5. Steps(g, m)
    <3> SUFFICES ASSUME NEW i \in 0..m
                 PROVE  g[i] = IF i = 0 THEN base ELSE step[<<i, g[i - 1]>>]
      OBVIOUS
    <3>1. CASE i = m
      BY <2>4, <3>1
    <3>2. CASE i # m /\ i = 0
      <4>1. 0 \in 0..(m - 1)
        OBVIOUS
      <4> QED
        BY <2>1, <2>4, <3>2, <4>1
    <3>3. CASE i # m /\ i # 0
      <4>1. i \in 0..(m - 1) /\ i - 1 \in 0..(m - 1)
        BY <3>3
      <4>2. f[i] = step[<<i, f[i - 1]>>]
        BY <2>1, <3>3, <4>1
      <4> QED
        BY <2>4, <3>3, <4>1, <4>2
    <3> QED
      BY <3>1, <3>2, <3>3
  <2> HIDE DEF Steps
  <2> QED
    BY <2>3, <2>5
<1> HIDE DEF HasSteps
<1>3. 0 \in A /\ \A m \in 1..n : m - 1 \in A => m \in A
  BY <1>1, <1>2
<1> HIDE DEF A
<1>4. n \in A
  BY <1>3, UpTo
<1>5. HasSteps(n)
  BY <1>4 DEF A
<1> QED
  BY <1>5 DEF HasSteps

\* Compacted() goes through the array entry by entry.
Compacts(u, t, S) ==
  /\ u[0] = <<>>
  /\ \A n \in 1..Len(t) :
       u[n] = IF n \in S THEN Append(u[n - 1], t[n]) ELSE u[n - 1]
  /\ Compacted(t, S) = u[Len(t)]

\* There are the arrays that it goes through.
LEMMA CompactedSteps ==
  ASSUME NEW T, NEW t \in Seq(T), NEW S
  PROVE  \E u \in [0..Len(t) -> Seq(T)] : Compacts(u, t, S)
<1> DEFINE N == Len(t)
           Body(f) == [n \in 0..N |->
                         IF n = 0 THEN <<>>
                         ELSE IF n \in S THEN Append(f[n - 1], t[n])
                         ELSE f[n - 1]]
           upTo == CHOOSE f : f = Body(f)
<1>1. N \in Nat /\ \A i \in 1..N : t[i] \in T
  OBVIOUS
<1>2. Compacted(t, S) = upTo[N]
  BY DEF Compacted
<1> HIDE DEF N
<1>3. \E f : f = Body(f)
  <2> DEFINE step == [x \in (1..N) \X Seq(T) |->
                        IF x[1] \in S THEN Append(x[2], t[x[1]]) ELSE x[2]]
  <2>1. step \in [(1..N) \X Seq(T) -> Seq(T)]
    BY <1>1, AppendProperties
  <2>2. <<>> \in Seq(T)
    OBVIOUS
  <2>3. \A i \in 1..N : \A x \in Seq(T) :
          step[<<i, x>>] = IF i \in S THEN Append(x, t[i]) ELSE x
    OBVIOUS
  <2> HIDE DEF step
  <2>4. PICK f \in [0..N -> Seq(T)] : Defines(f, N, <<>>, step)
    <3> HIDE DEF Body, upTo
    <3>1. N \in Nat
      BY <1>1
    <3>2. \A b \in Seq(T) : \A s \in [(1..N) \X Seq(T) -> Seq(T)] :
            \E f \in [0..N -> Seq(T)] : Defines(f, N, b, s)
      BY ONLY <3>1, Recursion
    <3> QED
      BY ONLY <2>1, <2>2, <3>2
  <2>5. ASSUME NEW i \in 0..N PROVE f[i] = Body(f)[i]
    <3>1. CASE i = 0
      BY <2>4, <3>1 DEF Defines
    <3>2. CASE i # 0
      <4>1. i \in 1..N /\ f[i - 1] \in Seq(T)
        BY <1>1, <3>2
      <4> QED
        BY <2>3, <2>4, <3>2, <4>1 DEF Defines
    <3> QED
      BY <3>1, <3>2
  <2>6. f = Body(f)
    BY <2>5
  <2> QED
    BY <2>6
<1>4. upTo = Body(upTo)
  BY <1>3
<1> HIDE DEF upTo
<1>5. ASSUME NEW n \in 0..N
      PROVE  upTo[n] = IF n = 0 THEN <<>>
                       ELSE IF n \in S THEN Append(upTo[n - 1], t[n])
                       ELSE upTo[n - 1]
  <2>1. upTo[n] = Body(upTo)[n]
    BY <1>4
  <2> QED
    BY <2>1
<1>6. upTo = [n \in 0..N |-> upTo[n]]
  BY <1>4
<1> HIDE DEF Body
<1> DEFINE A == {n \in 0..N : upTo[n] \in Seq(T)}
<1>7. 0 \in A
  <2>1. upTo[0] = <<>> /\ 0 \in 0..N /\ <<>> \in Seq(T)
    BY <1>1, <1>5
  <2>2. upTo[0] \in Seq(T)
    BY <2>1
  <2> QED
    BY <2>1, <2>2
<1>8. \A n \in 1..N : n - 1 \in A => n \in A
  <2> SUFFICES ASSUME NEW n \in 1..N, n - 1 \in A PROVE n \in A
    OBVIOUS
  <2>1. upTo[n - 1] \in Seq(T) /\ t[n] \in T /\ n \in 0..N /\ n # 0
    BY <1>1
  <2>2. upTo[n] = IF n \in S THEN Append(upTo[n - 1], t[n])
                ELSE upTo[n - 1]
    BY <1>5, <2>1
  <2>3. Append(upTo[n - 1], t[n]) \in Seq(T)
    BY <2>1, AppendProperties
  <2> QED
    BY <2>1, <2>2, <2>3
<1> HIDE DEF A
<1>9. \A n \in 0..N : n \in A
  <2>1. N \in Nat
    BY <1>1
  <2> QED
    BY ONLY <1>7, <1>8, <2>1, UpTo
<1>10. upTo \in [0..N -> Seq(T)]
  BY <1>6, <1>9 DEF A
<1>11. /\ upTo[0] = <<>>
       /\ \A n \in 1..N :
            upTo[n] = IF n \in S THEN Append(upTo[n - 1], t[n])
                      ELSE upTo[n - 1]
  BY <1>1, <1>5
<1> QED
  BY <1>2, <1>10, <1>11 DEF N, Compacts

\* Compacted() keeps the chosen entries, in their order.
LEMMA CompactedKeeps ==
  ASSUME NEW T, NEW t \in Seq(T), NEW S
  PROVE  LET u == Compacted(t, S)
         IN /\ u \in Seq(T) /\ Len(u) <= Len(t)
            /\ \E p \in [1..Len(u) -> S \cap (1..Len(t))] :
                 /\ \A i \in 1..Len(u) : u[i] = t[p[i]]
                 /\ \A i, j \in 1..Len(u) : i < j => p[i] < p[j]
<1> DEFINE N == Len(t)
           Places(u, n, p) ==
             /\ p \in [1..Len(u) -> S \cap (1..n)]
             /\ \A i \in 1..Len(u) : u[i] = t[p[i]]
             /\ \A i, j \in 1..Len(u) : i < j => p[i] < p[j]
           Chosen(u, n) == /\ u \in Seq(T) /\ Len(u) <= n
                           /\ \E p : Places(u, n, p)
<1>1. N \in Nat /\ \A i \in 1..N : t[i] \in T
  OBVIOUS
<1> HIDE DEF Places, Chosen
<1>2. PICK upTo \in [0..N -> Seq(T)] :
        /\ upTo[0] = <<>>
        /\ \A n \in 1..N :
             upTo[n] = IF n \in S THEN Append(upTo[n - 1], t[n])
                       ELSE upTo[n - 1]
        /\ Compacted(t, S) = upTo[N]
  <2>1. PICK u \in [0..Len(t) -> Seq(T)] : Compacts(u, t, S)
    BY CompactedSteps
  <2> QED
    BY <2>1, Zenon DEF Compacts
<1> HIDE DEF N
<1> USE DEF Places, Chosen
<1>6. Chosen(<<>>, 0)
  <2>1. Places(<<>>, 0, [i \in 1..0 |-> i])
    OBVIOUS
  <2> HIDE DEF Places
  <2> QED
    BY <2>1
<1>7. ASSUME NEW u, NEW n \in 1..N, Chosen(u, n - 1), n \in S
      PROVE  Chosen(Append(u, t[n]), n)
  <2>1. PICK p : Places(u, n - 1, p)
    BY <1>7
  <2>2. /\ u \in Seq(T) /\ Len(u) \in Nat /\ Len(u) <= n - 1
        /\ \A i \in 1..Len(u) : p[i] \in 1..(n - 1) /\ p[i] \in S
        /\ \A i \in 1..Len(u) : u[i] = t[p[i]]
        /\ \A i, j \in 1..Len(u) : i < j => p[i] < p[j]
    BY <1>7, <2>1
  <2> DEFINE v == Append(u, t[n])
             q == [i \in 1..Len(v) |-> IF i <= Len(u) THEN p[i] ELSE n]
  <2>3. /\ v \in Seq(T) /\ Len(v) = Len(u) + 1
        /\ \A i \in 1..Len(u) : v[i] = u[i]
        /\ v[Len(u) + 1] = t[n]
    BY <1>1, <2>2, AppendProperties
  <2> HIDE DEF v
  <2>4. ASSUME NEW i \in 1..Len(v)
        PROVE  \/ i \in 1..Len(u) /\ q[i] = p[i] /\ v[i] = u[i]
               \/ i = Len(u) + 1 /\ q[i] = n /\ v[i] = t[n]
    BY <2>2, <2>3
  <2>5. q \in [1..Len(v) -> S \cap (1..n)]
    <3>1. n \in Nat /\ n \in S \cap (1..n)
      BY <1>1, <1>7
    <3>2. \A i \in 1..Len(u) : p[i] \in S \cap (1..n)
      BY <2>2, <3>1
    <3>3. ASSUME NEW i \in 1..Len(v) PROVE q[i] \in S \cap (1..n)
      BY <2>4, <3>1, <3>2
    <3> QED
      BY <3>3
  <2> HIDE DEF q
  <2>6. \A i \in 1..Len(v) : v[i] = t[q[i]]
    BY <2>2, <2>4
  <2>7. ASSUME NEW i \in 1..Len(v), NEW j \in 1..Len(v), i < j
        PROVE  q[i] < q[j]
    <3>1. i \in 1..Len(u) /\ q[i] = p[i]
      BY <2>2, <2>3, <2>4, <2>7
    <3>2. p[i] \in 1..(n - 1)
      BY <2>2, <3>1
    <3>3. CASE j \in 1..Len(u) /\ q[j] = p[j]
      BY <2>2, <2>7, <3>1, <3>3
    <3>4. CASE q[j] = n
      BY <1>1, <3>1, <3>2, <3>4
    <3> QED
      BY <2>4, <3>3, <3>4
  <2>8. Places(v, n, q)
    BY <2>5, <2>6, <2>7
  <2> HIDE DEF Places
  <2>9. Chosen(v, n)
    BY <1>1, <2>2, <2>3, <2>8
  <2> QED
    BY <2>9 DEF v
<1>8. ASSUME NEW u, NEW n \in 1..N, Chosen(u, n - 1) PROVE Chosen(u, n)
  <2>1. PICK p : Places(u, n - 1, p)
    BY <1>8
  <2>2. p \in [1..Len(u) -> S \cap (1..n)]
    BY <1>1, <2>1
  <2>3. Places(u, n, p)
    BY <2>1, <2>2
  <2> HIDE DEF Places
  <2> QED
    BY <1>1, <1>8, <2>3
<1> HIDE DEF Chosen
<1> DEFINE A == {n \in 0..N : Chosen(upTo[n], n)}
<1>9. 0 \in A
  BY <1>1, <1>2, <1>6
<1>10. \A n \in 1..N : n - 1 \in A => n \in A
  <2> SUFFICES ASSUME NEW n \in 1..N, n - 1 \in A PROVE n \in A
    OBVIOUS
  <2>1. Chosen(upTo[n - 1], n - 1)
    OBVIOUS
  <2>2. Chosen(upTo[n], n)
    BY <1>2, <1>7, <1>8, <2>1
  <2> QED
    BY <2>2
<1> HIDE DEF A
<1>11. N \in A
  <2>1. N \in Nat
    BY <1>1
  <2>2. \A i \in 0..N : i \in A
    BY ONLY <1>9, <1>10, <2>1, UpTo
  <2> QED
    BY <2>1, <2>2
<1>12. Chosen(upTo[N], N)
  BY <1>11 DEF A
<1> QED
  BY <1>2, <1>12 DEF Chosen, N

\* Compacted() has every chosen entry.
LEMMA CompactedTakes ==
  ASSUME NEW T, NEW t \in Seq(T), NEW S, NEW i \in S \cap (1..Len(t))
  PROVE  \E j \in 1..Len(Compacted(t, S)) : Compacted(t, S)[j] = t[i]
<1> DEFINE N == Len(t)
           Took(u, n) == \A k \in S \cap (1..n) :
                           \E j \in 1..Len(u) : u[j] = t[k]
<1>1. N \in Nat /\ \A k \in 1..N : t[k] \in T
  OBVIOUS
<1> HIDE DEF Took
<1>2. PICK upTo \in [0..N -> Seq(T)] :
        /\ upTo[0] = <<>>
        /\ \A n \in 1..N :
             upTo[n] = IF n \in S THEN Append(upTo[n - 1], t[n])
                       ELSE upTo[n - 1]
        /\ Compacted(t, S) = upTo[N]
  <2>1. PICK u \in [0..Len(t) -> Seq(T)] : Compacts(u, t, S)
    BY CompactedSteps
  <2> QED
    BY <2>1, Zenon DEF Compacts
<1>3. i \in S /\ i \in 1..N
  OBVIOUS
<1> HIDE DEF N
<1> DEFINE A == {n \in 0..N : Took(upTo[n], n)}
<1>4. 0 \in A
  BY <1>1 DEF Took
<1>5. \A n \in 1..N : n - 1 \in A => n \in A
  <2> SUFFICES ASSUME NEW n \in 1..N, n - 1 \in A PROVE n \in A
    OBVIOUS
  <2>1. /\ Took(upTo[n - 1], n - 1) /\ n - 1 \in 0..N /\ t[n] \in T
        /\ upTo[n - 1] \in Seq(T) /\ n \in Nat /\ n \in 0..N
    BY <1>1
  <2> DEFINE u == upTo[n - 1]
  <2>2. upTo[n] = IF n \in S THEN Append(u, t[n]) ELSE u
    BY <1>2
  <2> HIDE DEF u
  <2>3. /\ u \in Seq(T) /\ Len(u) \in Nat
        /\ Len(Append(u, t[n])) = Len(u) + 1
        /\ \A j \in 1..Len(u) : Append(u, t[n])[j] = u[j]
        /\ Append(u, t[n])[Len(u) + 1] = t[n]
    BY <2>1, AppendProperties DEF u
  <2>4. ASSUME NEW k \in S \cap (1..n)
        PROVE  \E j \in 1..Len(upTo[n]) : upTo[n][j] = t[k]
    <3>1. CASE k = n
      <4>1. upTo[n] = Append(u, t[n])
        BY <2>2, <3>1
      <4>2. Len(u) + 1 \in 1..Len(Append(u, t[n]))
        BY <2>3
      <4> QED
        BY <2>3, <3>1, <4>1, <4>2
    <3>2. CASE k # n
      <4>1. k \in S \cap (1..(n - 1))
        BY <2>1, <3>2
      <4>2. PICK j \in 1..Len(u) : u[j] = t[k]
        BY <2>1, <4>1 DEF Took, u
      <4>3. CASE n \in S
        <5>1. /\ upTo[n] = Append(u, t[n])
              /\ j \in 1..Len(Append(u, t[n]))
          BY <2>2, <2>3, <4>3
        <5> QED
          BY <2>3, <4>2, <5>1
      <4>4. CASE n \notin S
        BY <2>2, <4>2, <4>4
      <4> QED
        BY <4>3, <4>4
    <3> QED
      BY <3>1, <3>2
  <2>5. Took(upTo[n], n)
    BY <2>4 DEF Took
  <2> QED
    BY <2>1, <2>5
<1> HIDE DEF A
<1>6. N \in A
  <2>1. \A k \in 0..N : k \in A
    BY ONLY <1>1, <1>4, <1>5, UpTo
  <2> QED
    BY <1>1, <2>1
<1>7. Took(Compacted(t, S), N)
  BY <1>2, <1>6 DEF A
<1> QED
  BY <1>3, <1>7 DEF Took

\* One entry of an array changes.
LEMMA ChangedAt ==
  ASSUME NEW T, NEW t \in Seq(T), NEW i \in 1..Len(t), NEW e \in T
  PROVE  LET u == [t EXCEPT ![i] = e]
         IN /\ u \in Seq(T) /\ Len(u) = Len(t)
            /\ \A j \in 1..Len(t) : u[j] = IF j = i THEN e ELSE t[j]
OBVIOUS

\* An entry of an array goes, and leaves the others in their order.
LEMMA WithoutOne ==
  ASSUME NEW S, NEW t \in Seq(S), NEW i \in 1..Len(t), NEW u,
         u = Without(t, i)
  PROVE  /\ u \in Seq(S) /\ Len(u) = Len(t) - 1
         /\ \A j \in 1..Len(u) : u[j] = IF j < i THEN t[j] ELSE t[j + 1]
<1> DEFINE a == SubSeq(t, 1, i - 1)
           b == SubSeq(t, i + 1, Len(t))
<1>1. Len(t) \in Nat /\ \A j \in 1..Len(t) : t[j] \in S
  OBVIOUS
<1>2. /\ a \in Seq(S) /\ Len(a) = i - 1
      /\ \A j \in 1..(i - 1) : a[j] = t[j]
  BY <1>1, SubSeqProperties
<1>3. /\ b \in Seq(S) /\ Len(b) = Len(t) - i
      /\ \A j \in 1..(Len(t) - i) : b[j] = t[i + j]
  BY <1>1, SubSeqProperties
<1>4. /\ u \in Seq(S) /\ Len(u) = Len(a) + Len(b)
      /\ \A j \in 1..(Len(a) + Len(b)) :
           u[j] = IF j <= Len(a) THEN a[j] ELSE b[j - Len(a)]
  BY <1>2, <1>3, ConcatProperties DEF Without
<1> HIDE DEF a, b
<1>5. /\ Len(a) = i - 1 /\ Len(b) = Len(t) - i /\ Len(u) = Len(t) - 1
      /\ i \in Int /\ Len(t) \in Int
  <2>1. i \in Int /\ Len(t) \in Int
    BY <1>1
  <2>2. Len(a) = i - 1 /\ Len(b) = Len(t) - i /\ Len(u) = Len(a) + Len(b)
    BY <1>2, <1>3, <1>4
  <2>3. \A x, y \in Int : (x - 1) + (y - x) = y - 1
    OBVIOUS
  <2>4. (i - 1) + (Len(t) - i) = Len(t) - 1
    BY <2>1, <2>3
  <2> QED
    BY <2>1, <2>2, <2>4
<1>6. ASSUME NEW j \in 1..Len(u)
      PROVE  u[j] = IF j < i THEN t[j] ELSE t[j + 1]
  <2>1. CASE j < i
    BY <1>2, <1>3, <1>4, <1>6, <2>1
  <2>2. CASE ~ (j < i)
    <3>1. u[j] = b[j - (i - 1)] /\ j - (i - 1) \in 1..(Len(t) - i)
      <4>1. /\ j \in 1..(Len(a) + Len(b)) /\ ~ (j <= Len(a))
            /\ j - (i - 1) \in 1..(Len(t) - i)
        <5>1. \A x, y, z \in Int : z \in 1..(y - 1) /\ ~ (z < x) =>
                /\ z \in 1..((x - 1) + (y - x)) /\ ~ (z <= x - 1)
                /\ z - (x - 1) \in 1..(y - x)
          OBVIOUS
        <5>2. j \in Int /\ j \in 1..(Len(t) - 1)
          <6>1. Len(u) = Len(t) - 1 /\ j \in 1..Len(u)
            BY <1>5
          <6>2. j \in 1..(Len(t) - 1)
            BY <6>1, Zenon
          <6> QED
            BY <6>2
        <5> QED
          BY <1>5, <2>2, <5>1, <5>2
      <4> QED
        BY <1>4, <1>5, <4>1
    <3>2. i + (j - (i - 1)) = j + 1
      BY <1>1, <1>6
    <3> QED
      BY <1>3, <2>2, <3>1, <3>2
  <2> QED
    BY <2>1, <2>2
<1> QED
  BY <1>4, <1>5, <1>6
=============================================================================
