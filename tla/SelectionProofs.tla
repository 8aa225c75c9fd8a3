--------------------------- MODULE SelectionProofs ---------------------------
(***************************************************************************)
(* Facts other proofs cite: induction over the naturals stated for a set   *)
(* instead of a predicate, and what Kept leaves of a sequence: positions   *)
(* in their order, all of those that qualify, and prefix by prefix.        *)
(***************************************************************************)
EXTENDS Selection, SequenceTheorems, WellFoundedInduction, TLAPS

\* Induction: a set of naturals with 0 and the successor of each of its
\* elements is all of Nat; its complement has no least element.
LEMMA SetInduction ==
  ASSUME NEW T, T \subseteq Nat, 0 \in T, \A n \in T : n + 1 \in T
  PROVE  T = Nat
<1> DEFINE U == Nat \ T
<1>1. SUFFICES ASSUME U # {} PROVE FALSE
  OBVIOUS
<1> HIDE DEF U
<1>2. PICK R : R = OpToRel(<, Nat)
  OBVIOUS
<1>3. IsWellFoundedOn(R, Nat)
  BY <1>2, NatLessThanWellFounded
<1>4. \A x, y \in Nat : x < y => <<x, y>> \in R
  BY <1>2 DEF OpToRel
<1>5. U \subseteq Nat
  BY DEF U
<1>6. PICK x \in U : \A y \in U : ~(<<y, x>> \in R)
  BY <1>1, <1>3, <1>5, WFMin
<1>7. x # 0 /\ x \in Nat
  BY <1>6, <1>5 DEF U
<1>8. x - 1 \in Nat /\ <<x - 1, x>> \in R
  BY <1>7, <1>4
<1>9. x - 1 \in T
  BY <1>6, <1>8 DEF U
<1>10. (x - 1) + 1 = x
  BY <1>7
<1>11. x \in T
  BY <1>9, <1>10
<1> QED
  BY <1>11 DEF U

-----------------------------------------------------------------------------
(* Kept *)

\* One step of the selection.
Taken(s, S, kept, i) == IF s[i] \in S THEN Append(kept, s[i]) ELSE kept

\* The table of the selections of the prefixes of s up to the n-th.
IsTable(s, S, n, g) ==
  g[0] = <<>> /\ \A i \in 1..n : g[i] = Taken(s, S, g[i - 1], i)

\* The table exists.
LEMMA KeptTable ==
  ASSUME NEW D, NEW s \in Seq(D), NEW S, NEW n \in 0..Len(s)
  PROVE  \E g \in [0..n -> Seq(D)] : IsTable(s, S, n, g)
<1> DEFINE T == {k \in Nat : k <= Len(s) => \E g \in [0..k -> Seq(D)] : IsTable(s, S, k, g)}
<1>1. 0 \in T
  <2>1. PICK g : g = [i \in 0..0 |-> <<>>]
    OBVIOUS
  <2>2. g \in [0..0 -> Seq(D)] /\ g[0] = <<>>
    BY <2>1
  <2>3. IsTable(s, S, 0, g)
    BY <2>2 DEF IsTable
  <2> QED
    BY <2>2, <2>3
<1>2. ASSUME NEW k \in T PROVE k + 1 \in T
  <2>1. SUFFICES ASSUME k + 1 <= Len(s) PROVE \E g \in [0..(k + 1) -> Seq(D)] : IsTable(s, S, k + 1, g)
    OBVIOUS
  <2>2. PICK g \in [0..k -> Seq(D)] : IsTable(s, S, k, g)
    BY <2>1
  <2>3. s[k + 1] \in D /\ g[k] \in Seq(D)
    BY <2>1, <2>2
  <2>4. PICK new \in Seq(D) : new = Taken(s, S, g[k], k + 1)
    BY <2>3, AppendProperties DEF Taken
  <2>5. PICK h : h = [i \in 0..(k + 1) |-> IF i = k + 1 THEN new ELSE g[i]]
    OBVIOUS
  <2>6. h \in [0..(k + 1) -> Seq(D)]
    BY <2>4, <2>5
  <2>7. h[0] = <<>> /\ \A i \in 1..k : h[i] = g[i] /\ h[i - 1] = g[i - 1]
    BY <2>2, <2>5, SMTT(30) DEF IsTable
  <2>8. h[k + 1] = new /\ h[k] = g[k]
    BY <2>5
  <2>9. \A i \in 1..(k + 1) : h[i] = Taken(s, S, h[i - 1], i)
    <3> TAKE i \in 1..(k + 1)
    <3>1. CASE i = k + 1
      BY <3>1, <2>8, <2>4
    <3>2. CASE i \in 1..k
      BY <3>2, <2>7, <2>2 DEF IsTable
    <3> QED
      BY <3>1, <3>2
  <2>10. IsTable(s, S, k + 1, h)
    BY <2>7, <2>9 DEF IsTable
  <2> QED
    BY <2>6, <2>10
<1>3. T = Nat
  BY <1>1, <1>2, SetInduction
<1> QED
  BY <1>3

\* Two such tables agree as far as both go.
LEMMA KeptUnique ==
  ASSUME NEW s, NEW S, NEW n \in Nat, NEW f, NEW g,
         IsTable(s, S, n, f), IsTable(s, S, n, g)
  PROVE  \A i \in 0..n : f[i] = g[i]
<1> DEFINE T == {k \in Nat : k <= n => f[k] = g[k]}
<1>1. 0 \in T
  BY DEF IsTable
<1>2. ASSUME NEW k \in T PROVE k + 1 \in T
  <2>1. SUFFICES ASSUME k + 1 <= n PROVE f[k + 1] = g[k + 1]
    OBVIOUS
  <2>2. f[k] = g[k] /\ k + 1 \in 1..n /\ (k + 1) - 1 = k
    BY <2>1
  <2> QED
    BY <2>2 DEF IsTable
<1>3. T = Nat
  BY <1>1, <1>2, SetInduction
<1> QED
  BY <1>3

\* What the function inside Kept is: the table, which ends with Kept, and
\* every prefix of s has its own entry.
LEMMA KeptIs ==
  ASSUME NEW D, NEW s \in Seq(D), NEW S
  PROVE  \E g \in [0..Len(s) -> Seq(D)] :
           IsTable(s, S, Len(s), g) /\ Kept(s, S) = g[Len(s)]
<1> DEFINE F == CHOOSE F : F = [i \in 0..Len(s) |->
                   IF i = 0 THEN <<>>
                   ELSE IF s[i] \in S THEN Append(F[i - 1], s[i]) ELSE F[i - 1]]
<1>1. Len(s) \in Nat /\ Len(s) \in 0..Len(s)
  OBVIOUS
<1> HIDE DEF F
<1>2. PICK g \in [0..Len(s) -> Seq(D)] : IsTable(s, S, Len(s), g)
  BY <1>1, KeptTable
<1>3. ASSUME NEW i \in 0..Len(s)
      PROVE  g[i] = IF i = 0 THEN <<>>
                    ELSE IF s[i] \in S THEN Append(g[i - 1], s[i]) ELSE g[i - 1]
  <2>1. CASE i = 0
    BY <2>1, <1>2 DEF IsTable
  <2>2. CASE i \in 1..Len(s)
    BY <2>2, <1>2 DEF Taken, IsTable
  <2> QED
    BY <1>1, <2>1, <2>2
<1>4. g = [i \in 0..Len(s) |->
             IF i = 0 THEN <<>>
             ELSE IF s[i] \in S THEN Append(g[i - 1], s[i]) ELSE g[i - 1]]
  BY <1>2, <1>3
<1>5. F = [i \in 0..Len(s) |->
             IF i = 0 THEN <<>>
             ELSE IF s[i] \in S THEN Append(F[i - 1], s[i]) ELSE F[i - 1]]
  BY <1>4 DEF F
<1>6. Kept(s, S) = F[Len(s)]
  BY DEF Kept, F
<1>7. \A i \in 0..Len(s) : F[i] = IF i = 0 THEN <<>>
                                  ELSE IF s[i] \in S THEN Append(F[i - 1], s[i]) ELSE F[i - 1]
  BY <1>5, Zenon
<1>8. IsTable(s, S, Len(s), F)
  BY <1>7, <1>1 DEF Taken, IsTable
<1>9. \A i \in 0..Len(s) : F[i] = g[i]
  BY <1>1, <1>2, <1>8, KeptUnique
<1> QED
  BY <1>1, <1>2, <1>6, <1>9

\* r has the elements of the first n of s that are in S: they are at the
\* increasing positions `at`, and none is left out.
Picks(s, S, n, r, at) ==
  /\ \A j, k \in 1..Len(r) : j < k => at[j] < at[k]
  /\ \A k \in 1..Len(r) : r[k] = s[at[k]] /\ s[at[k]] \in S
  /\ \A i \in 1..n : s[i] \in S => \E k \in 1..Len(r) : at[k] = i

\* Kept is a sequence of the elements in S, at increasing positions of s, and
\* leaves none of them out.
LEMMA KeptPositions ==
  ASSUME NEW D, NEW s \in Seq(D), NEW S
  PROVE  /\ Kept(s, S) \in Seq(D)
         /\ \E at \in [1..Len(Kept(s, S)) -> 1..Len(s)] : Picks(s, S, Len(s), Kept(s, S), at)
<1>1. PICK g \in [0..Len(s) -> Seq(D)] :
        IsTable(s, S, Len(s), g) /\ Kept(s, S) = g[Len(s)]
  BY KeptIs
<1> DEFINE T == {n \in Nat : n <= Len(s) => \E at \in [1..Len(g[n]) -> 1..n] : Picks(s, S, n, g[n], at)}
<1>2. 0 \in T
  <2>1. Len(g[0]) = 0
    BY <1>1 DEF IsTable
  <2>2. PICK at : at = [i \in 1..0 |-> 1]
    OBVIOUS
  <2>3. at \in [1..Len(g[0]) -> 1..0]
    BY <2>1, <2>2
  <2>4. Picks(s, S, 0, g[0], at)
    BY <2>1 DEF Picks
  <2> QED
    BY <2>3, <2>4
<1>3. ASSUME NEW n \in T PROVE n + 1 \in T
  <2> HIDE DEF Picks
  <2>1. SUFFICES ASSUME n + 1 <= Len(s)
                 PROVE  \E at \in [1..Len(g[n + 1]) -> 1..(n + 1)] : Picks(s, S, n + 1, g[n + 1], at)
    OBVIOUS
  <2>2. PICK at \in [1..Len(g[n]) -> 1..n] : Picks(s, S, n, g[n], at)
    BY <2>1
  <2>3. PICK r \in Seq(D) : r = g[n]
    BY <1>1, <2>1
  <2>4. n + 1 \in 1..Len(s) /\ (n + 1) - 1 = n /\ s[n + 1] \in D /\ n \in Nat
    BY <2>1
  <2>5. g[n + 1] = Taken(s, S, r, n + 1)
    BY <1>1, <2>3, <2>4 DEF IsTable
  <2>6. CASE s[n + 1] \notin S
    <3>1. g[n + 1] = r
      BY <2>5, <2>6 DEF Taken
    <3>2. at \in [1..Len(r) -> 1..(n + 1)]
      BY <2>2, <2>3, <2>4
    <3>3. \A i \in 1..(n + 1) : s[i] \in S => i \in 1..n
      BY <2>6, <2>4
    <3>4. Picks(s, S, n + 1, r, at)
      BY <2>2, <2>3, <3>3 DEF Picks
    <3> QED
      BY <3>1, <3>2, <3>4
  <2>7. CASE s[n + 1] \in S
    <3>1. PICK q \in Seq(D) : q = Append(r, s[n + 1])
      BY <2>4, AppendProperties
    <3>2. g[n + 1] = q
      BY <2>5, <2>7, <3>1 DEF Taken
    <3>3. /\ Len(q) = Len(r) + 1 /\ Len(r) \in Nat
          /\ \A k \in 1..Len(r) : q[k] = r[k]
          /\ q[Len(r) + 1] = s[n + 1]
      BY <3>1, <2>4, AppendProperties
    <3>4. PICK to : to = [k \in 1..(Len(r) + 1) |-> IF k = Len(r) + 1 THEN n + 1 ELSE at[k]]
      OBVIOUS
    <3>5. to[Len(r) + 1] = n + 1 /\ \A k \in 1..Len(r) : to[k] = at[k] /\ at[k] \in 1..n
      BY <3>3, <3>4, <2>2, <2>3
    <3>6. to \in [1..Len(q) -> 1..(n + 1)]
      <4>1. Len(q) \in Nat /\ \A k \in 1..Len(q) : to[k] \in 1..(n + 1)
        BY <3>3, <3>5, <2>4
      <4>2. to = [k \in 1..Len(q) |-> to[k]]
        BY <3>3, <3>4
      <4> QED
        BY <4>1, <4>2
    <3>7. ASSUME NEW j \in 1..Len(q), NEW k \in 1..Len(q), j < k PROVE to[j] < to[k]
      <4>1. j \in 1..Len(r)
        BY <3>3, <3>7
      <4>2. CASE k = Len(r) + 1
        BY <4>1, <4>2, <3>5, <2>4
      <4>3. CASE k \in 1..Len(r)
        BY <4>1, <4>3, <3>5, <3>7, <2>2, <2>3 DEF Picks
      <4> QED
        BY <3>3, <4>2, <4>3
    <3>8. ASSUME NEW k \in 1..Len(q) PROVE q[k] = s[to[k]] /\ s[to[k]] \in S
      <4>1. CASE k = Len(r) + 1
        BY <4>1, <3>3, <3>5, <2>7
      <4>2. CASE k \in 1..Len(r)
        BY <4>2, <3>3, <3>5, <2>2, <2>3 DEF Picks
      <4> QED
        BY <3>3, <4>1, <4>2
    <3>9. ASSUME NEW i \in 1..(n + 1), s[i] \in S PROVE \E k \in 1..Len(q) : to[k] = i
      <4>1. CASE i = n + 1
        BY <4>1, <3>3, <3>5
      <4>2. CASE i \in 1..n
        <5>1. PICK k \in 1..Len(r) : at[k] = i
          BY <4>2, <3>9, <2>2, <2>3 DEF Picks
        <5>2. to[k] = i
          BY <5>1, <3>5
        <5>3. k \in 1..Len(q)
          BY <3>3
        <5> QED
          BY <5>2, <5>3
      <4> QED
        BY <2>4, <4>1, <4>2
    <3>10. Picks(s, S, n + 1, q, to)
      BY <3>7, <3>8, <3>9 DEF Picks
    <3> QED
      BY <3>2, <3>6, <3>10
  <2> QED
    BY <2>6, <2>7
<1> HIDE DEF Picks
<1>4. T = Nat
  BY <1>2, <1>3, SetInduction
<1>5. PICK at \in [1..Len(g[Len(s)]) -> 1..Len(s)] : Picks(s, S, Len(s), g[Len(s)], at)
  BY <1>4
<1> QED
  BY <1>1, <1>5

\* What Kept leaves of a prefix is a prefix of what it leaves, and loses no
\* more than it does on the whole.
LEMMA KeptPrefix ==
  ASSUME NEW D, NEW s \in Seq(D), NEW S, NEW n \in 0..Len(s)
  PROVE  LET part == Kept(SubSeq(s, 1, n), S)
             all  == Kept(s, S)
         IN /\ part \in Seq(D) /\ all \in Seq(D)
            /\ Len(part) <= Len(all)
            /\ \A k \in 1..Len(part) : part[k] = all[k]
            /\ n - Len(part) <= Len(s) - Len(all)
<1>1. PICK g \in [0..Len(s) -> Seq(D)] :
        IsTable(s, S, Len(s), g) /\ Kept(s, S) = g[Len(s)]
  BY KeptIs
<1>2. PICK t : t = SubSeq(s, 1, n)
  OBVIOUS
<1>3. t \in Seq(D) /\ Len(t) = n /\ \A i \in 1..n : t[i] = s[i]
  BY <1>2, SubSeqProperties
<1>4. PICK f \in [0..Len(t) -> Seq(D)] :
        IsTable(t, S, Len(t), f) /\ Kept(t, S) = f[Len(t)]
  BY <1>3, KeptIs
<1>5. IsTable(s, S, n, f)
  BY <1>3, <1>4 DEF Taken, IsTable
<1>6. IsTable(s, S, n, g)
  BY <1>1 DEF IsTable
<1>7. n \in Nat /\ \A i \in 0..n : f[i] = g[i]
  <2>1. n \in Nat
    OBVIOUS
  <2> QED
    BY <2>1, <1>5, <1>6, KeptUnique
<1>8. Kept(t, S) = g[n]
  BY <1>3, <1>4, <1>7
<1> DEFINE Grown(k) == /\ Len(g[n]) <= Len(g[k])
                       /\ \A i \in 1..Len(g[n]) : g[n][i] = g[k][i]
                       /\ n - Len(g[n]) <= k - Len(g[k])
           T == {m \in Nat : n + m <= Len(s) => Grown(n + m)}
<1>9. 0 \in T
  BY <1>1
<1>10. ASSUME NEW m \in T PROVE m + 1 \in T
  <2>1. SUFFICES ASSUME n + m + 1 <= Len(s) PROVE Grown(n + m + 1)
    OBVIOUS
  <2>2. PICK k \in 0..Len(s) : k = n + m
    BY <2>1
  <2>3. PICK r \in Seq(D) : r = g[k]
    BY <1>1
  <2>4. k + 1 \in 1..Len(s) /\ (k + 1) - 1 = k /\ s[k + 1] \in D
    BY <2>1, <2>2
  <2>5. g[k + 1] = Taken(s, S, r, k + 1)
    BY <1>1, <2>3, <2>4 DEF IsTable
  <2>6. PICK q \in Seq(D) : q = g[k + 1]
    BY <1>1, <2>4, SMTT(30)
  <2>7. /\ Len(r) <= Len(q) /\ Len(q) <= Len(r) + 1
        /\ \A i \in 1..Len(r) : q[i] = r[i]
    BY <2>3, <2>4, <2>5, <2>6, AppendProperties DEF Taken
  <2>8. PICK b \in Seq(D) : b = g[n]
    BY <1>1
  <2>9. /\ Len(b) <= Len(r)
        /\ \A i \in 1..Len(b) : b[i] = r[i]
        /\ n - Len(b) <= k - Len(r)
    BY <2>1, <2>2, <2>3, <2>8
  <2>10. Len(b) \in Nat /\ Len(r) \in Nat /\ Len(q) \in Nat /\ n \in Nat /\ k \in Nat
    OBVIOUS
  <2>11. Len(b) <= Len(q) /\ n - Len(b) <= k + 1 - Len(q)
    BY <2>7, <2>9, <2>10
  <2>12. \A i \in 1..Len(b) : b[i] = q[i]
    BY <2>7, <2>9, <2>10
  <2> QED
    BY <2>2, <2>6, <2>8, <2>11, <2>12
<1> HIDE DEF Grown
<1>11. T = Nat
  BY <1>9, <1>10, SetInduction
<1>12. Grown(Len(s))
  <2>1. Len(s) - n \in Nat /\ n + (Len(s) - n) = Len(s)
    OBVIOUS
  <2>2. Len(s) - n \in T
    BY <1>11, <2>1
  <2> QED
    BY <2>1, <2>2
<1>13. g[n] \in Seq(D) /\ g[Len(s)] \in Seq(D)
  BY <1>1
<1> QED
  BY <1>1, <1>2, <1>8, <1>12, <1>13 DEF Grown

=============================================================================
