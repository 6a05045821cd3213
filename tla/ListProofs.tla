------------------------------ MODULE ListProofs ------------------------------
(***************************************************************************)
(* What the walks over a table return: filtering, taking and skipping an   *)
(* ascending list of places gives the ascending list of a set of places,   *)
(* and in such a list each place stands behind those below it.             *)
(*                                                                         *)
(* Induction is by the least natural number a claim fails for.             *)
(***************************************************************************)
EXTENDS Lists, FiniteSetTheorems, SequenceTheorems, TLAPS

\* A set of natural numbers has a least one.
LEMMA LeastNatural ==
    ASSUME NEW S, S \subseteq Nat, S # {}
    PROVE  \E n \in S : \A m \in S : n <= m
<1>1. PICK n \in S : \A m \in S : <<m, n>> \notin OpToRel(<, Nat)
  BY WFMin, NatLessThanWellFounded, Zenon
<1>2. \A m \in S : ~(m < n)
  BY <1>1 DEF OpToRel
<1> QED  BY <1>2

\* Induction over the naturals, for a set.
LEMMA NaturalInduction ==
    ASSUME NEW S, 0 \in S, \A n \in Nat : n \in S => n + 1 \in S
    PROVE  Nat \subseteq S
<1> SUFFICES ASSUME Nat \ S # {} PROVE FALSE
  OBVIOUS
<1>1. PICK n \in Nat \ S : \A m \in Nat \ S : n <= m
  BY LeastNatural
<1>2. n # 0 /\ n - 1 \in Nat
  BY <1>1
<1>3. n - 1 \in S
  BY <1>1, <1>2
<1> QED  BY <1>1, <1>2, <1>3

------------------------------------------------------------------------------
(* Lists.                                                                  *)

\* An element of a list is of the type of its elements.
LEMMA ElementTyped ==
    ASSUME NEW S, NEW s \in Seq(S), NEW i \in DOMAIN s
    PROVE  s[i] \in S
  OBVIOUS

\* Two lists behind each other.
LEMMA Concatenated ==
    ASSUME NEW S, NEW a \in Seq(S), NEW b \in Seq(S), NEW all, all = a \o b
    PROVE  /\ all \in Seq(S)
           /\ Len(all) = Len(a) + Len(b) /\ Len(a) \in Nat /\ Len(b) \in Nat
           /\ DOMAIN all = 1..Len(all) /\ DOMAIN a = 1..Len(a) /\ DOMAIN b = 1..Len(b)
           /\ \A k \in DOMAIN a : k \in DOMAIN all /\ all[k] = a[k]
           /\ \A k \in DOMAIN b : Len(a) + k \in DOMAIN all /\ all[Len(a) + k] = b[k]
OBVIOUS

\* The recursion of filter has a solution, and filter is its last value.
LEMMA FilterUnfolds ==
    ASSUME NEW s, Len(s) \in Nat, NEW T
    PROVE  \E kept :
              /\ kept[0] = <<>>
              /\ \A i \in 1..Len(s) :
                    kept[i] = IF s[i] \in T THEN Append(kept[i - 1], s[i]) ELSE kept[i - 1]
              /\ Filter(s, T) = kept[Len(s)]
<1> DEFINE Step(f, i) == IF i = 0 THEN <<>>
                         ELSE IF s[i] \in T THEN Append(f[i - 1], s[i]) ELSE f[i - 1]
           Good == {n \in Nat : \E f : f = [i \in 0..n |-> Step(f, i)]}
<1>1. 0 \in Good
  <2> DEFINE f == [i \in 0..0 |-> <<>>]
  <2>1. f = [i \in 0..0 |-> Step(f, i)]
    OBVIOUS
  <2> QED  BY <2>1
<1>2. ASSUME NEW n \in Nat, n \in Good
      PROVE  n + 1 \in Good
  <2>1. PICK f : f = [i \in 0..n |-> Step(f, i)]
    BY <1>2
  <2> DEFINE g == [i \in 0..(n + 1) |-> IF i = n + 1 THEN Step(f, n + 1) ELSE f[i]]
  <2>2. ASSUME NEW i \in 0..(n + 1)
        PROVE  g[i] = Step(g, i)
    <3>1. CASE i = n + 1
      BY <3>1
    <3>2. CASE i \in 0..n
      <4>1. f[i] = Step(f, i) /\ g[i] = f[i]
        BY <2>1, <3>2
      <4>2. i # 0 => i - 1 \in 0..n /\ g[i - 1] = f[i - 1]
        BY <3>2
      <4> QED  BY <4>1, <4>2
    <3> QED  BY <3>1, <3>2
  <2>3. g = [i \in 0..(n + 1) |-> Step(g, i)]
    BY <2>2
  <2> HIDE DEF g
  <2> QED  BY <2>3
<1>3. Len(s) \in Good
  <2> HIDE DEF Good
  <2> QED  BY <1>1, <1>2, NaturalInduction
<1>4. PICK f : f = [i \in 0..Len(s) |-> Step(f, i)]
  BY <1>3
<1> DEFINE solution == CHOOSE k : k = [i \in 0..Len(s) |->
                                     IF i = 0        THEN <<>>
                                     ELSE IF s[i] \in T THEN Append(k[i - 1], s[i])
                                     ELSE k[i - 1]]
<1>5. solution = [i \in 0..Len(s) |-> Step(solution, i)]
  BY <1>4
<1>6. Filter(s, T) = solution[Len(s)]
  BY DEF Filter
<1> HIDE DEF solution
<1>7. PICK k : k = [i \in 0..Len(s) |-> Step(k, i)] /\ Filter(s, T) = k[Len(s)]
  BY <1>5, <1>6
<1>8. k[0] = <<>>
  BY <1>7
<1>9. ASSUME NEW i \in 1..Len(s)
      PROVE  k[i] = IF s[i] \in T THEN Append(k[i - 1], s[i]) ELSE k[i - 1]
  <2>1. i \in 0..Len(s) /\ i # 0
    OBVIOUS
  <2>2. k[i] = Step(k, i)
    BY <1>7, <2>1
  <2> QED  BY <2>1, <2>2
<1> QED  BY <1>7, <1>8, <1>9

------------------------------------------------------------------------------
(* Places below a place.                                                   *)

\* How many come before is a number, and those before it are fewer than all
\* up to it.
LEMMA BelowTyped ==
    ASSUME NEW S, IsFiniteSet(S), S \subseteq Nat, NEW r
    PROVE  /\ Below(S, r) \in Nat
           /\ IsFiniteSet({q \in S : q < r})
BY FS_Subset, FS_CardinalityType DEF Below

\* More come before a later element.
LEMMA BelowGrows ==
    ASSUME NEW S, IsFiniteSet(S), S \subseteq Nat, NEW q \in S, NEW r \in S, q < r
    PROVE  Below(S, q) < Below(S, r)
<1> DEFINE before(x) == {y \in S : y < x}
<1>0. IsFiniteSet(before(r))
  BY FS_Subset
<1>1. before(q) \subseteq before(r) /\ q \in before(r) /\ q \notin before(q)
  <2>1. q \in Nat /\ r \in Nat /\ \A y \in S : y \in Nat
    OBVIOUS
  <2>2. \A y \in S : y < q => y < r
    BY <2>1
  <2>3. ~(q < q)
    BY <2>1
  <2> QED  BY <2>2, <2>3
<1>2. /\ IsFiniteSet(before(q))
      /\ Cardinality(before(q)) \in Nat /\ Cardinality(before(r)) \in Nat
      /\ Cardinality(before(q)) <= Cardinality(before(r))
      /\ Cardinality(before(q)) # Cardinality(before(r))
  <2> HIDE DEF before
  <2> QED  BY <1>0, <1>1, FS_Subset, FS_CardinalityType
<1> QED  BY <1>2 DEF Below

------------------------------------------------------------------------------
(* Ascending lists.                                                        *)

\* An element behind all others keeps the list ascending.
LEMMA EnumeratesAppend ==
    ASSUME NEW s, NEW S, Enumerates(s, S), NEW x \in Nat, \A y \in S : y < x
    PROVE  Enumerates(Append(s, x), S \cup {x})
<1> DEFINE t == Append(s, x)
<1>1. /\ s \in Seq(Nat) /\ t \in Seq(Nat)
      /\ Len(s) \in Nat /\ Len(t) = Len(s) + 1
      /\ DOMAIN s = 1..Len(s) /\ DOMAIN t = 1..Len(t)
      /\ t[Len(t)] = x /\ \A i \in DOMAIN s : t[i] = s[i]
  BY DEF Enumerates
<1> HIDE DEF t
<1>2. Members(t) = S \cup {x}
  <2>1. Members(s) = S
    BY DEF Enumerates
  <2>2. \A i \in DOMAIN t : t[i] \in S \cup {x}
    BY <1>1, <2>1 DEF Members
  <2>3. \A y \in S \cup {x} : \E i \in DOMAIN t : t[i] = y
    BY <1>1, <2>1 DEF Members
  <2> QED  BY <2>2, <2>3 DEF Members
<1>3. ASSUME NEW i \in DOMAIN t, NEW j \in DOMAIN t, i < j
      PROVE  t[i] < t[j]
  <2>1. i \in DOMAIN s /\ t[i] = s[i] /\ s[i] \in S
    BY <1>1, <1>3 DEF Enumerates, Members
  <2>2. CASE j = Len(t)
    BY <1>1, <2>1, <2>2
  <2>3. CASE j # Len(t)
    BY <1>1, <1>3, <2>1, <2>3 DEF Enumerates
  <2> QED  BY <2>2, <2>3
<1> QED  BY <1>1, <1>2, <1>3 DEF Enumerates, t

\* The empty list.
LEMMA EnumeratesEmpty == Enumerates(<<>>, {})
BY DEF Enumerates, Members

\* The places of a list are listed in order.
LEMMA PlacesEnumerate ==
    ASSUME NEW s, Len(s) \in Nat, DOMAIN s = 1..Len(s)
    PROVE  Enumerates(Places(s), DOMAIN s)
BY DEF Enumerates, Places, Members

\* Filtering an ascending list keeps it ascending.
LEMMA FilterEnumerates ==
    ASSUME NEW s, NEW S, Enumerates(s, S), NEW T
    PROVE  Enumerates(Filter(s, T), S \cap T)
<1>1. s \in Seq(Nat) /\ Len(s) \in Nat /\ DOMAIN s = 1..Len(s) /\ Members(s) = S
  BY DEF Enumerates
<1>2. PICK kept :
         /\ kept[0] = <<>>
         /\ \A i \in 1..Len(s) :
               kept[i] = IF s[i] \in T THEN Append(kept[i - 1], s[i]) ELSE kept[i - 1]
         /\ Filter(s, T) = kept[Len(s)]
  BY <1>1, FilterUnfolds
<1> DEFINE First(n) == {s[i] : i \in 1..n} \cap T
           Good == {n \in Nat : n <= Len(s) => Enumerates(kept[n], First(n))}
<1>3. 0 \in Good
  <2>1. First(0) = {}
    OBVIOUS
  <2> QED  BY <1>2, <2>1, EnumeratesEmpty
<1>4. ASSUME NEW n \in Nat, n \in Good
      PROVE  n + 1 \in Good
  <2> SUFFICES ASSUME n + 1 <= Len(s)
               PROVE  Enumerates(kept[n + 1], First(n + 1))
    OBVIOUS
  <2>1. n + 1 \in DOMAIN s /\ (n + 1) - 1 = n /\ s[n + 1] \in Nat
    BY <1>1
  <2>2. Enumerates(kept[n], First(n))
    BY <1>4, <1>1
  <2>3. \A y \in First(n) : y < s[n + 1]
    BY <1>1, <2>1 DEF Enumerates
  <2>4. kept[n + 1] = IF s[n + 1] \in T THEN Append(kept[n], s[n + 1]) ELSE kept[n]
    BY <1>1, <1>2, <2>1
  <2>5. First(n + 1) = IF s[n + 1] \in T THEN First(n) \cup {s[n + 1]} ELSE First(n)
    <3>1. 1..(n + 1) = (1..n) \cup {n + 1}
      OBVIOUS
    <3> QED  BY <3>1
  <2> HIDE DEF First
  <2> QED  BY <2>1, <2>2, <2>3, <2>4, <2>5, EnumeratesAppend
<1>5. Len(s) \in Good
  <2> HIDE DEF Good
  <2> QED  BY <1>1, <1>3, <1>4, NaturalInduction
<1>6. First(Len(s)) = S \cap T
  BY <1>1 DEF Members
<1>7. Enumerates(kept[Len(s)], First(Len(s)))
  <2> HIDE DEF First
  <2> QED  BY <1>1, <1>5
<1> HIDE DEF First
<1> QED  BY <1>2, <1>6, <1>7

\* In an ascending list each element stands behind those below it.
LEMMA EnumeratedPlaces ==
    ASSUME NEW s, NEW S, Enumerates(s, S)
    PROVE  /\ IsFiniteSet(S) /\ S \subseteq Nat
           /\ Len(s) = Cardinality(S) /\ DOMAIN s = 1..Len(s)
           /\ \A k \in DOMAIN s : s[k] \in S /\ Below(S, s[k]) = k - 1
           /\ \A r \in S : Below(S, r) + 1 \in DOMAIN s /\ s[Below(S, r) + 1] = r
<1>1. /\ s \in Seq(Nat) /\ Len(s) \in Nat /\ DOMAIN s = 1..Len(s) /\ S \subseteq Nat
      /\ \A k \in DOMAIN s : s[k] \in S
      /\ \A r \in S : \E k \in DOMAIN s : s[k] = r
      /\ \A i, j \in DOMAIN s : i < j => s[i] < s[j]
      /\ \A i \in DOMAIN s : i \in Nat /\ s[i] \in Nat
  BY DEF Enumerates, Members
<1>2. ASSUME NEW n \in 0..Len(s)
      PROVE  /\ IsFiniteSet({s[i] : i \in 1..n})
             /\ Cardinality({s[i] : i \in 1..n}) = n
  <2> DEFINE image == {s[i] : i \in 1..n}
             f == [i \in 1..n |-> s[i]]
  <2>1. f \in Bijection(1..n, image)
    <3>1. \A i \in 1..n : i \in DOMAIN s
      BY <1>1, <1>2
    <3>2. \A i, j \in 1..n : f[i] = f[j] => i = j
      BY <1>1, <3>1
    <3>3. f \in [1..n -> image] /\ \A y \in image : \E i \in 1..n : f[i] = y
      OBVIOUS
    <3> HIDE DEF f, image
    <3> QED  BY <3>2, <3>3 DEF Bijection, Injection, IsInjective, Surjection
  <2>2. IsFiniteSet(1..n) /\ Cardinality(1..n) = n
    BY FS_Interval
  <2> HIDE DEF image, f
  <2>3. IsFiniteSet(image) /\ Cardinality(image) = Cardinality(1..n)
    BY <2>1, <2>2, FS_Bijection DEF ExistsBijection
  <2> QED  BY <2>2, <2>3 DEF image
<1>3. S = {s[i] : i \in 1..Len(s)}
  BY <1>1
<1>4. IsFiniteSet(S) /\ Cardinality(S) = Len(s)
  <2>1. Len(s) \in 0..Len(s)
    BY <1>1
  <2> QED  BY <1>2, <1>3, <2>1
<1>5. ASSUME NEW k \in DOMAIN s
      PROVE  Below(S, s[k]) = k - 1
  <2>1. {q \in S : q < s[k]} = {s[i] : i \in 1..(k - 1)}
    <3>1. ASSUME NEW i \in DOMAIN s
          PROVE  s[i] < s[k] <=> i < k
      BY <1>1
    <3>2. ASSUME NEW q \in S, q < s[k]
          PROVE  \E i \in 1..(k - 1) : s[i] = q
      <4>1. PICK i \in DOMAIN s : s[i] = q
        BY <1>1
      <4>2. i < k
        BY <3>1, <3>2, <4>1
      <4> QED  BY <1>1, <4>1, <4>2
    <3>3. ASSUME NEW i \in 1..(k - 1)
          PROVE  s[i] \in S /\ s[i] < s[k]
      BY <1>1, <3>1
    <3> QED  BY <3>2, <3>3
  <2>2. k - 1 \in 0..Len(s)
    BY <1>1
  <2> QED  BY <1>2, <2>1, <2>2 DEF Below
<1>6. ASSUME NEW r \in S
      PROVE  Below(S, r) + 1 \in DOMAIN s /\ s[Below(S, r) + 1] = r
  <2>1. PICK k \in DOMAIN s : s[k] = r
    BY <1>1
  <2>2. Below(S, r) + 1 = k
    BY <1>1, <1>5, <2>1
  <2> QED  BY <2>1, <2>2
<1> QED  BY <1>1, <1>4, <1>5, <1>6

\* The first n of an ascending list are those with fewer than n below them.
LEMMA TakeEnumerates ==
    ASSUME NEW s, NEW S, Enumerates(s, S), NEW n \in Nat
    PROVE  Enumerates(Take(s, n), {r \in S : Below(S, r) < n})
<1> DEFINE m == IF n < Len(s) THEN n ELSE Len(s)
           t == Take(s, n)
<1>1. /\ s \in Seq(Nat) /\ Len(s) \in Nat /\ DOMAIN s = 1..Len(s)
      /\ \A k \in DOMAIN s : s[k] \in S /\ Below(S, s[k]) = k - 1
      /\ \A r \in S : Below(S, r) + 1 \in DOMAIN s /\ s[Below(S, r) + 1] = r
      /\ \A i, j \in DOMAIN s : i < j => s[i] < s[j]
  BY EnumeratedPlaces DEF Enumerates
<1>2. /\ t \in Seq(Nat) /\ Len(t) = m /\ DOMAIN t = 1..m
      /\ \A k \in 1..m : t[k] = s[k]
  BY <1>1 DEF Take
<1>3. \A k \in 1..m : k \in DOMAIN s /\ k - 1 < n
  BY <1>1
<1>4. ASSUME NEW r \in S, Below(S, r) < n
      PROVE  Below(S, r) + 1 \in 1..m
  BY <1>1, <1>4
<1> HIDE DEF m, t
<1>5. Members(t) = {r \in S : Below(S, r) < n}
  <2>1. \A k \in DOMAIN t : t[k] \in S /\ Below(S, t[k]) < n
    BY <1>1, <1>2, <1>3
  <2>2. ASSUME NEW r \in S, Below(S, r) < n
        PROVE  \E k \in DOMAIN t : t[k] = r
    <3>1. Below(S, r) + 1 \in DOMAIN t /\ t[Below(S, r) + 1] = s[Below(S, r) + 1]
      BY <1>2, <1>4, <2>2
    <3> QED  BY <1>1, <3>1
  <2> QED  BY <2>1, <2>2 DEF Members
<1>6. \A i, j \in DOMAIN t : i < j => t[i] < t[j]
  BY <1>1, <1>2, <1>3
<1> QED  BY <1>2, <1>5, <1>6 DEF Enumerates, t

\* The others are left when the first n are skipped.
LEMMA SkipEnumerates ==
    ASSUME NEW s, NEW S, Enumerates(s, S), NEW n \in Nat
    PROVE  Enumerates(Skip(s, n), {r \in S : Below(S, r) >= n})
<1> DEFINE m == IF n < Len(s) THEN Len(s) - n ELSE 0
           t == Skip(s, n)
<1>1. /\ s \in Seq(Nat) /\ Len(s) \in Nat /\ DOMAIN s = 1..Len(s)
      /\ \A k \in DOMAIN s : s[k] \in S /\ Below(S, s[k]) = k - 1
      /\ \A r \in S : Below(S, r) + 1 \in DOMAIN s /\ s[Below(S, r) + 1] = r
      /\ \A i, j \in DOMAIN s : i < j => s[i] < s[j]
  BY EnumeratedPlaces DEF Enumerates
<1>2. /\ t \in Seq(Nat) /\ Len(t) = m /\ DOMAIN t = 1..m
      /\ \A k \in 1..m : t[k] = s[k + n]
  <2>1. \A k \in (n + 1)..Len(s) : s[k] \in Nat
    BY <1>1
  <2>2. /\ t \in Seq(Nat)
        /\ Len(t) = IF n + 1 <= Len(s) THEN Len(s) - (n + 1) + 1 ELSE 0
        /\ \A k \in 1..(Len(s) - (n + 1) + 1) : t[k] = s[(n + 1) + k - 1]
    BY <1>1, <2>1, SubSeqProperties DEF Skip
  <2> HIDE DEF t
  <2>3. Len(t) = m
    <3>1. Len(s) \in Nat /\ Len(t) = IF n + 1 <= Len(s) THEN Len(s) - (n + 1) + 1 ELSE 0
      BY <1>1, <2>2
    <3>2. ASSUME NEW l \in Nat
          PROVE  (IF n + 1 <= l THEN l - (n + 1) + 1 ELSE 0) = IF n < l THEN l - n ELSE 0
      OBVIOUS
    <3> QED  BY <3>1, <3>2
  <2>4. ASSUME NEW k \in 1..m
        PROVE  t[k] = s[k + n]
    <3>1. k \in 1..(Len(s) - (n + 1) + 1) /\ (n + 1) + k - 1 = k + n
      BY <1>1
    <3> QED  BY <2>2, <3>1
  <2> HIDE DEF m
  <2> QED  BY <2>2, <2>3, <2>4
<1>3. \A k \in 1..m : k + n \in DOMAIN s /\ (k + n) - 1 >= n
  BY <1>1
<1>4. ASSUME NEW r \in S, Below(S, r) >= n
      PROVE  (Below(S, r) + 1) - n \in 1..m
  BY <1>1, <1>4
<1> HIDE DEF m, t
<1>5. Members(t) = {r \in S : Below(S, r) >= n}
  <2>1. \A k \in DOMAIN t : t[k] \in S /\ Below(S, t[k]) >= n
    BY <1>1, <1>2, <1>3
  <2>2. ASSUME NEW r \in S, Below(S, r) >= n
        PROVE  \E k \in DOMAIN t : t[k] = r
    <3>1. Below(S, r) + 1 \in Int
      BY <1>1
    <3>2. /\ (Below(S, r) + 1) - n \in DOMAIN t
          /\ t[(Below(S, r) + 1) - n] = s[((Below(S, r) + 1) - n) + n]
      BY <1>2, <1>4, <2>2
    <3>3. ((Below(S, r) + 1) - n) + n = Below(S, r) + 1
      BY <3>1
    <3> QED  BY <1>1, <3>2, <3>3
  <2> QED  BY <2>1, <2>2 DEF Members
<1>6. ASSUME NEW i \in DOMAIN t, NEW j \in DOMAIN t, i < j
      PROVE  t[i] < t[j]
  <2>1. i + n < j + n /\ i + n \in DOMAIN s /\ j + n \in DOMAIN s
    BY <1>2, <1>3, <1>6
  <2>2. t[i] = s[i + n] /\ t[j] = s[j + n]
    BY <1>2
  <2> QED  BY <1>1, <2>1, <2>2
<1> QED  BY <1>2, <1>5, <1>6 DEF Enumerates, t

\* There is one ascending list of a set.
LEMMA EnumeratesUnique ==
    ASSUME NEW S, NEW s, Enumerates(s, S), NEW t, Enumerates(t, S)
    PROVE  s = t
<1>1. s \in Seq(Nat) /\ t \in Seq(Nat) /\ Len(s) = Len(t)
  BY EnumeratedPlaces DEF Enumerates
<1>2. ASSUME NEW k \in DOMAIN s
      PROVE  s[k] = t[k]
  <2>1. s[k] \in S /\ Below(S, s[k]) = k - 1 /\ k \in Int
    BY EnumeratedPlaces, <1>1
  <2>2. Below(S, s[k]) + 1 = k
    BY <2>1
  <2>3. t[Below(S, s[k]) + 1] = s[k]
    BY EnumeratedPlaces, <2>1
  <2> QED  BY <2>2, <2>3
<1> QED  BY <1>1, <1>2

------------------------------------------------------------------------------
(* Sums.                                                                   *)

\* The recursion of sum has a solution, and sum is its last value.
LEMMA TotalUnfolds ==
    ASSUME NEW s, Len(s) \in Nat
    PROVE  \E upto :
              /\ upto[0] = 0
              /\ \A i \in 1..Len(s) : upto[i] = upto[i - 1] + s[i]
              /\ Total(s) = upto[Len(s)]
<1> DEFINE Step(f, i) == IF i = 0 THEN 0 ELSE f[i - 1] + s[i]
           Good == {n \in Nat : \E f : f = [i \in 0..n |-> Step(f, i)]}
<1>1. 0 \in Good
  <2> DEFINE f == [i \in 0..0 |-> 0]
  <2>1. f = [i \in 0..0 |-> Step(f, i)]
    OBVIOUS
  <2> QED  BY <2>1
<1>2. ASSUME NEW n \in Nat, n \in Good
      PROVE  n + 1 \in Good
  <2>1. PICK f : f = [i \in 0..n |-> Step(f, i)]
    BY <1>2
  <2> DEFINE g == [i \in 0..(n + 1) |-> IF i = n + 1 THEN Step(f, n + 1) ELSE f[i]]
  <2>2. ASSUME NEW i \in 0..(n + 1)
        PROVE  g[i] = Step(g, i)
    <3>1. CASE i = n + 1
      BY <3>1
    <3>2. CASE i \in 0..n
      <4>1. f[i] = Step(f, i) /\ g[i] = f[i]
        BY <2>1, <3>2
      <4>2. i # 0 => i - 1 \in 0..n /\ g[i - 1] = f[i - 1]
        BY <3>2
      <4> QED  BY <4>1, <4>2
    <3> QED  BY <3>1, <3>2
  <2>3. g = [i \in 0..(n + 1) |-> Step(g, i)]
    BY <2>2
  <2> HIDE DEF g
  <2> QED  BY <2>3
<1>3. Len(s) \in Good
  <2> HIDE DEF Good
  <2> QED  BY <1>1, <1>2, NaturalInduction
<1>4. PICK f : f = [i \in 0..Len(s) |-> Step(f, i)]
  BY <1>3
<1> DEFINE solution == CHOOSE u : u = [i \in 0..Len(s) |-> IF i = 0 THEN 0 ELSE u[i - 1] + s[i]]
<1>5. solution = [i \in 0..Len(s) |-> Step(solution, i)]
  BY <1>4
<1>6. Total(s) = solution[Len(s)]
  BY DEF Total
<1> HIDE DEF solution
<1>7. PICK u : u = [i \in 0..Len(s) |-> Step(u, i)] /\ Total(s) = u[Len(s)]
  BY <1>5, <1>6
<1>8. u[0] = 0
  BY <1>7
<1>9. ASSUME NEW i \in 1..Len(s)
      PROVE  u[i] = u[i - 1] + s[i]
  <2>1. i \in 0..Len(s) /\ i # 0
    OBVIOUS
  <2>2. u[i] = Step(u, i)
    BY <1>7, <2>1
  <2> QED  BY <2>1, <2>2
<1> QED  BY <1>7, <1>8, <1>9

\* One number more.
LEMMA TotalAppend ==
    ASSUME NEW s \in Seq(Nat), NEW n \in Nat
    PROVE  /\ Total(s) \in Nat
           /\ Total(Append(s, n)) = Total(s) + n
<1> DEFINE t == Append(s, n)
<1>1. /\ Len(s) \in Nat /\ Len(t) \in Nat /\ Len(t) = Len(s) + 1
      /\ \A i \in 1..Len(s) : i \in 1..Len(t) /\ t[i] = s[i] /\ s[i] \in Nat
      /\ t[Len(t)] = n
  OBVIOUS
<1> HIDE DEF t
<1>2. PICK u : u[0] = 0 /\ (\A i \in 1..Len(s) : u[i] = u[i - 1] + s[i]) /\ Total(s) = u[Len(s)]
  BY <1>1, TotalUnfolds
<1>3. PICK v : v[0] = 0 /\ (\A i \in 1..Len(t) : v[i] = v[i - 1] + t[i]) /\ Total(t) = v[Len(t)]
  BY <1>1, TotalUnfolds
<1> DEFINE Good == {i \in Nat : i <= Len(s) => u[i] = v[i] /\ u[i] \in Nat}
<1>4. ASSUME NEW i \in Nat, i \in Good
      PROVE  i + 1 \in Good
  <2> SUFFICES ASSUME i + 1 <= Len(s) PROVE u[i + 1] = v[i + 1] /\ u[i + 1] \in Nat
    OBVIOUS
  <2>1. i + 1 \in 1..Len(s) /\ i + 1 \in 1..Len(t) /\ (i + 1) - 1 = i /\ i <= Len(s)
    BY <1>1
  <2>2. u[i + 1] = u[i] + s[i + 1] /\ v[i + 1] = v[i] + t[i + 1]
    BY <1>2, <1>3, <2>1
  <2>3. u[i] = v[i] /\ u[i] \in Nat
    BY <1>4, <2>1
  <2> QED  BY <1>1, <2>1, <2>2, <2>3
<1>5. 0 \in Good
  BY <1>2, <1>3
<1>6. u[Len(s)] = v[Len(s)] /\ u[Len(s)] \in Nat
  <2>1. Len(s) \in Good
    <3> HIDE DEF Good
    <3> QED  BY <1>1, <1>4, <1>5, NaturalInduction
  <2> QED  BY <1>1, <2>1
<1>7. v[Len(t)] = v[Len(s)] + n
  <2>1. Len(t) \in 1..Len(t) /\ Len(t) - 1 = Len(s)
    BY <1>1
  <2> QED  BY <1>1, <1>3, <2>1
<1> QED  BY <1>2, <1>3, <1>6, <1>7 DEF t

\* No number at all.
LEMMA TotalEmpty == Total(<<>>) = 0
<1>1. Len(<<>>) = 0
  OBVIOUS
<1>2. PICK u : u[0] = 0 /\ Total(<<>>) = u[Len(<<>>)]
  BY <1>1, TotalUnfolds
<1> QED  BY <1>1, <1>2

\* Two lists behind each other.
LEMMA TotalConcat ==
    ASSUME NEW a \in Seq(Nat), NEW b \in Seq(Nat)
    PROVE  /\ Total(a) \in Nat /\ Total(b) \in Nat
           /\ Total(a \o b) = Total(a) + Total(b)
<1> DEFINE Front(n) == SubSeq(b, 1, n)
           Good == {n \in Nat : n <= Len(b) => Total(a \o Front(n)) = Total(a) + Total(Front(n))}
<1>1. Total(a) \in Nat /\ Total(b) \in Nat
  BY TotalAppend
<1>2. 0 \in Good
  <2>1. Front(0) = <<>> /\ a \o <<>> = a
    OBVIOUS
  <2>2. Total(a \o <<>>) = Total(a) + Total(<<>>)
    BY <1>1, <2>1, TotalEmpty
  <2> QED  BY <2>1, <2>2
<1>3. ASSUME NEW n \in Nat, n \in Good
      PROVE  n + 1 \in Good
  <2> SUFFICES ASSUME n + 1 <= Len(b)
               PROVE  Total(a \o Front(n + 1)) = Total(a) + Total(Front(n + 1))
    OBVIOUS
  <2>1. /\ Len(b) \in Nat /\ b[n + 1] \in Nat
        /\ Front(n) \in Seq(Nat) /\ a \o Front(n) \in Seq(Nat)
    OBVIOUS
  <2>2. Front(n + 1) = Append(Front(n), b[n + 1])
    OBVIOUS
  <2>3. a \o Append(Front(n), b[n + 1]) = Append(a \o Front(n), b[n + 1])
    BY <2>1
  <2>4. Total(a \o Front(n)) = Total(a) + Total(Front(n))
    BY <1>3, <2>1
  <2>5. /\ Total(Front(n)) \in Nat
        /\ Total(Append(Front(n), b[n + 1])) = Total(Front(n)) + b[n + 1]
        /\ Total(Append(a \o Front(n), b[n + 1])) = Total(a \o Front(n)) + b[n + 1]
    <3> HIDE DEF Front
    <3> QED  BY <2>1, TotalAppend
  <2>6. a \o Front(n + 1) = Append(a \o Front(n), b[n + 1])
    BY <2>2, <2>3
  <2> HIDE DEF Front
  <2>7. Total(a \o Front(n + 1)) = Total(a) + Total(Front(n)) + b[n + 1]
    BY <1>1, <2>1, <2>4, <2>5, <2>6
  <2>8. Total(Front(n + 1)) = Total(Front(n)) + b[n + 1]
    BY <2>2, <2>5
  <2> QED  BY <1>1, <2>1, <2>5, <2>7, <2>8
<1>4. Len(b) \in Good /\ Len(b) \in Nat /\ Front(Len(b)) = b
  <2>1. Len(b) \in Nat /\ Front(Len(b)) = b
    OBVIOUS
  <2> HIDE DEF Good
  <2> QED  BY <1>2, <1>3, <2>1, NaturalInduction
<1>5. Total(a \o Front(Len(b))) = Total(a) + Total(Front(Len(b)))
  <2> HIDE DEF Front
  <2> QED  BY <1>4
<1> HIDE DEF Front, Good
<1> QED  BY <1>1, <1>4, <1>5

\* A list around one of its elements.
LEMMA SplitAround ==
    ASSUME NEW S, NEW s \in Seq(S), NEW c \in DOMAIN s
    PROVE  /\ SubSeq(s, 1, c - 1) \in Seq(S) /\ SubSeq(s, c + 1, Len(s)) \in Seq(S) /\ s[c] \in S
           /\ Append(SubSeq(s, 1, c - 1), s[c]) \in Seq(S)
           /\ s = Append(SubSeq(s, 1, c - 1), s[c]) \o SubSeq(s, c + 1, Len(s))
<1> DEFINE a == SubSeq(s, 1, c - 1)
           b == SubSeq(s, c + 1, Len(s))
<1>1. c \in 1..Len(s) /\ Len(s) \in Nat /\ DOMAIN s = 1..Len(s) /\ s[c] \in S
  OBVIOUS
<1>2. a \in Seq(S) /\ Len(a) = c - 1 /\ \A k \in 1..(c - 1) : a[k] = s[k]
  BY <1>1
<1>3. b \in Seq(S) /\ Len(b) = Len(s) - c /\ \A k \in 1..(Len(s) - c) : b[k] = s[c + k]
  BY <1>1
<1> HIDE DEF a, b
<1> DEFINE d == Append(a, s[c])
<1>4. d \in Seq(S) /\ Len(d) = c /\ d[c] = s[c] /\ \A k \in 1..(c - 1) : d[k] = s[k]
  BY <1>1, <1>2
<1> HIDE DEF d
<1>0. PICK t : t = d \o b
  OBVIOUS
<1>5. /\ t \in Seq(S) /\ Len(t) = Len(s)
      /\ \A k \in 1..c : t[k] = d[k]
      /\ \A k \in (c + 1)..Len(s) : t[k] = b[k - c]
  <2>1. /\ t \in Seq(S) /\ Len(t) = Len(d) + Len(b)
        /\ DOMAIN d = 1..Len(d) /\ DOMAIN b = 1..Len(b)
        /\ \A k \in DOMAIN d : t[k] = d[k]
        /\ \A k \in DOMAIN b : t[Len(d) + k] = b[k]
    <3>1. d \in Seq(S) /\ b \in Seq(S)
      BY <1>3, <1>4
    <3> QED  BY ONLY <1>0, <3>1
  <2>2. \A k \in (c + 1)..Len(s) : k - c \in DOMAIN b /\ Len(d) + (k - c) = k
    BY <1>1, <1>3, <1>4, <2>1
  <2>3. Len(t) = Len(s)
    BY <1>1, <1>3, <1>4, <2>1
  <2>4. \A k \in 1..c : t[k] = d[k]
    BY <1>4, <2>1
  <2>5. ASSUME NEW k \in (c + 1)..Len(s) PROVE t[k] = b[k - c]
    BY <2>1, <2>2
  <2> QED  BY <2>1, <2>3, <2>4, <2>5
<1>6. ASSUME NEW k \in 1..Len(s)
      PROVE  t[k] = s[k]
  <2>1. CASE k \in 1..c
    BY <1>1, <1>4, <1>5, <2>1
  <2>2. CASE k \in (c + 1)..Len(s)
    <3>1. k - c \in 1..(Len(s) - c) /\ c + (k - c) = k
      BY <1>1, <2>2
    <3> QED  BY <1>3, <1>5, <2>2, <3>1
  <2> QED  BY <1>1, <2>1, <2>2
<1>7. t = s
  BY <1>1, <1>5, <1>6
<1> QED  BY <1>0, <1>1, <1>2, <1>3, <1>4, <1>7 DEF a, b, d

\* The sum around one of the numbers.
LEMMA TotalAround ==
    ASSUME NEW s \in Seq(Nat), NEW c \in DOMAIN s
    PROVE  /\ Total(SubSeq(s, 1, c - 1)) \in Nat
           /\ Total(SubSeq(s, c + 1, Len(s))) \in Nat
           /\ Total(s) = Total(SubSeq(s, 1, c - 1)) + s[c] + Total(SubSeq(s, c + 1, Len(s)))
<1> DEFINE a == SubSeq(s, 1, c - 1)
           b == SubSeq(s, c + 1, Len(s))
<1>1. /\ a \in Seq(Nat) /\ b \in Seq(Nat) /\ s[c] \in Nat /\ Append(a, s[c]) \in Seq(Nat)
      /\ s = Append(a, s[c]) \o b
  BY SplitAround
<1> HIDE DEF a, b
<1>2. /\ Total(a) \in Nat /\ Total(b) \in Nat
      /\ Total(Append(a, s[c])) = Total(a) + s[c]
      /\ Total(Append(a, s[c]) \o b) = Total(Append(a, s[c])) + Total(b)
  BY <1>1, TotalAppend, TotalConcat
<1> QED  BY <1>1, <1>2 DEF a, b

\* Nothing but zeros adds up to zero.
LEMMA TotalZero ==
    ASSUME NEW s \in Seq(Nat), Total(s) = 0
    PROVE  \A c \in DOMAIN s : s[c] = 0
<1> SUFFICES ASSUME NEW c \in DOMAIN s PROVE s[c] = 0
  OBVIOUS
<1>1. s[c] \in Nat
  OBVIOUS
<1> QED  BY <1>1, TotalAround

\* What is filtered out of a list may be left out of its sum if it is zero.
LEMMA TotalFilter ==
    ASSUME NEW s \in Seq(Nat), NEW T, \A c \in DOMAIN s : c \notin T => s[c] = 0,
           NEW kept, kept = Filter(Places(s), T)
    PROVE  Total([n \in DOMAIN kept |-> s[kept[n]]]) = Total(s)
<1> DEFINE places == Places(s)
           At(k) == [n \in DOMAIN k |-> s[k[n]]]
<1>1. Len(s) \in Nat /\ DOMAIN s = 1..Len(s) /\ Len(places) = Len(s) /\ \A i \in 1..Len(s) : places[i] = i
  BY DEF Places
<1> HIDE DEF places
<1>2. PICK k :
         /\ k[0] = <<>>
         /\ \A i \in 1..Len(s) :
               k[i] = IF i \in T THEN Append(k[i - 1], i) ELSE k[i - 1]
         /\ kept = k[Len(s)]
  <2>1. Len(places) \in Nat
    BY <1>1
  <2>2. PICK k :
         /\ k[0] = <<>>
         /\ \A i \in 1..Len(places) :
               k[i] = IF places[i] \in T THEN Append(k[i - 1], places[i]) ELSE k[i - 1]
         /\ Filter(places, T) = k[Len(places)]
    BY <2>1, FilterUnfolds
  <2>3. kept = Filter(places, T)
    BY DEF places
  <2> QED  BY <1>1, <2>2, <2>3
<1> DEFINE Good == {i \in Nat : i <= Len(s) =>
                        /\ k[i] \in Seq(DOMAIN s)
                        /\ Total(At(k[i])) = Total(SubSeq(s, 1, i))}
<1>3. 0 \in Good
  <2>1. k[0] = <<>> /\ <<>> \in Seq(DOMAIN s) /\ At(<<>>) = <<>> /\ SubSeq(s, 1, 0) = <<>>
    BY <1>2
  <2> QED  BY <2>1
<1>4. ASSUME NEW i \in Nat, i \in Good
      PROVE  i + 1 \in Good
  <2> SUFFICES ASSUME i + 1 <= Len(s)
               PROVE  /\ k[i + 1] \in Seq(DOMAIN s)
                      /\ Total(At(k[i + 1])) = Total(SubSeq(s, 1, i + 1))
    OBVIOUS
  <2>1. /\ i + 1 \in 1..Len(s) /\ i + 1 \in DOMAIN s /\ (i + 1) - 1 = i /\ s[i + 1] \in Nat
        /\ SubSeq(s, 1, i) \in Seq(Nat)
        /\ SubSeq(s, 1, i + 1) = Append(SubSeq(s, 1, i), s[i + 1])
    BY <1>1
  <2>2. k[i] \in Seq(DOMAIN s) /\ Total(At(k[i])) = Total(SubSeq(s, 1, i))
    BY <1>4, <2>1
  <2>3. k[i + 1] = IF i + 1 \in T THEN Append(k[i], i + 1) ELSE k[i]
    BY <1>2, <2>1
  <2>4. /\ Total(SubSeq(s, 1, i)) \in Nat
        /\ Total(SubSeq(s, 1, i + 1)) = Total(SubSeq(s, 1, i)) + s[i + 1]
    BY <2>1, TotalAppend
  <2>5. CASE i + 1 \notin T
    <3>1. s[i + 1] = 0 /\ k[i + 1] = k[i]
      BY <2>1, <2>3, <2>5
    <3> QED  BY <2>2, <2>4, <3>1
  <2>6. CASE i + 1 \in T
    <3>1. k[i + 1] = Append(k[i], i + 1) /\ k[i + 1] \in Seq(DOMAIN s)
      BY <2>1, <2>2, <2>3, <2>6
    <3>2. At(k[i]) \in Seq(Nat)
      <4>1. /\ Len(k[i]) \in Nat /\ DOMAIN k[i] = 1..Len(k[i])
            /\ \A n \in DOMAIN k[i] : k[i][n] \in DOMAIN s
        BY <2>2
      <4>2. \A n \in DOMAIN k[i] : s[k[i][n]] \in Nat
        BY <4>1
      <4> QED  BY <4>1, <4>2
    <3>3. At(Append(k[i], i + 1)) = Append(At(k[i]), s[i + 1])
      BY <2>1, <2>2
    <3>4. Total(Append(At(k[i]), s[i + 1])) = Total(At(k[i])) + s[i + 1]
      <4> HIDE DEF At
      <4> QED  BY <2>1, <3>2, TotalAppend
    <3> HIDE DEF At
    <3> QED  BY <2>2, <2>4, <3>1, <3>3, <3>4
  <2> QED  BY <2>5, <2>6
<1>5. Len(s) \in Good
  <2> HIDE DEF Good
  <2> QED  BY <1>1, <1>3, <1>4, NaturalInduction
<1>6. SubSeq(s, 1, Len(s)) = s
  OBVIOUS
<1>7. Total(At(k[Len(s)])) = Total(SubSeq(s, 1, Len(s)))
  <2> HIDE DEF At
  <2> QED  BY <1>1, <1>5
<1>8. At(k[Len(s)]) = [n \in DOMAIN kept |-> s[kept[n]]]
  BY <1>2
<1> HIDE DEF At, Good
<1> QED  BY <1>6, <1>7, <1>8

\* Lists of the same elements are the same.
LEMMA ListsEqual ==
    ASSUME NEW S, NEW a \in Seq(S), NEW b \in Seq(S), Len(a) = Len(b),
           \A k \in 1..Len(a) : a[k] = b[k]
    PROVE  a = b
<1>1. a = [k \in 1..Len(a) |-> a[k]]
  OBVIOUS
<1>2. b = [k \in 1..Len(b) |-> b[k]]
  OBVIOUS
<1>3. [k \in 1..Len(a) |-> a[k]] = [k \in 1..Len(b) |-> b[k]]
  OBVIOUS
<1> QED  BY <1>1, <1>2, <1>3

\* The front and the rest of a list.
LEMMA FrontAndRest ==
    ASSUME NEW S, NEW s \in Seq(S), NEW n \in 0..Len(s)
    PROVE  /\ SubSeq(s, 1, n) \in Seq(S) /\ Len(SubSeq(s, 1, n)) = n
           /\ \A k \in 1..n : SubSeq(s, 1, n)[k] = s[k]
           /\ SubSeq(s, n + 1, Len(s)) \in Seq(S) /\ Len(SubSeq(s, n + 1, Len(s))) = Len(s) - n
           /\ \A k \in 1..(Len(s) - n) : SubSeq(s, n + 1, Len(s))[k] = s[n + k]
<1>1. Len(s) \in Nat /\ n \in Nat /\ n <= Len(s)
  OBVIOUS
<1> QED  BY <1>1

\* A list is its front and the rest.
LEMMA TotalParts ==
    ASSUME NEW s \in Seq(Nat), NEW n \in 0..Len(s)
    PROVE  /\ Total(SubSeq(s, 1, n)) \in Nat /\ Total(SubSeq(s, n + 1, Len(s))) \in Nat
           /\ Total(s) = Total(SubSeq(s, 1, n)) + Total(SubSeq(s, n + 1, Len(s)))
<1> DEFINE a == SubSeq(s, 1, n)
           b == SubSeq(s, n + 1, Len(s))
<1>1. Len(s) \in Nat /\ n \in Nat /\ n <= Len(s)
  OBVIOUS
<1>2. /\ a \in Seq(Nat) /\ Len(a) = n /\ \A k \in 1..n : a[k] = s[k]
  BY <1>1
<1>3. /\ b \in Seq(Nat) /\ Len(b) = Len(s) - n /\ \A k \in 1..(Len(s) - n) : b[k] = s[n + k]
  BY <1>1
<1> HIDE DEF a, b
<1>4. PICK all : all = a \o b
  OBVIOUS
<1>5. /\ all \in Seq(Nat) /\ Len(all) = Len(a) + Len(b) /\ DOMAIN all = 1..Len(all)
      /\ DOMAIN a = 1..Len(a) /\ DOMAIN b = 1..Len(b)
      /\ \A k \in DOMAIN a : all[k] = a[k]
      /\ \A k \in DOMAIN b : all[Len(a) + k] = b[k]
  <2>1. a \in Seq(Nat) /\ b \in Seq(Nat)
    BY <1>2, <1>3
  <2> QED  BY ONLY <1>4, <2>1
<1>6. ASSUME NEW k \in 1..Len(s)
      PROVE  all[k] = s[k]
  <2>1. CASE k <= n
    <3>1. k \in DOMAIN a /\ k \in 1..n
      BY <1>1, <1>2, <1>5, <2>1
    <3> QED  BY <1>2, <1>5, <3>1
  <2>2. CASE ~(k <= n)
    <3>1. PICK l \in Int : l = k - n
      BY <1>1
    <3>2. l \in 1..(Len(s) - n) /\ n + l = k
      BY <1>1, <2>2, <3>1
    <3>3. l \in DOMAIN b /\ Len(a) + l = k
      BY <1>2, <1>3, <1>5, <3>2
    <3> QED  BY <1>3, <1>5, <3>2, <3>3
  <2> QED  BY <2>1, <2>2
<1>7. Len(all) = Len(s)
  BY <1>1, <1>2, <1>3, <1>5
<1>8. all = s
  <2>1. Len(all) = Len(s) /\ \A k \in 1..Len(all) : all[k] = s[k]
    BY <1>6, <1>7
  <2> QED  BY <1>5, <2>1, ListsEqual
<1>9. /\ Total(a) \in Nat /\ Total(b) \in Nat
      /\ Total(a \o b) = Total(a) + Total(b)
  BY <1>2, <1>3, TotalConcat
<1> QED  BY <1>4, <1>8, <1>9 DEF a, b

\* If the front makes the whole sum the rest is zero, and conversely.
LEMMA RestZero ==
    ASSUME NEW s \in Seq(Nat), NEW n \in 0..Len(s)
    PROVE  /\ Total(SubSeq(s, 1, n)) = Total(s) => \A c \in (n + 1)..Len(s) : s[c] = 0
           /\ Total(SubSeq(s, n + 1, Len(s))) = Total(s) => \A c \in 1..n : s[c] = 0
<1> DEFINE a == SubSeq(s, 1, n)
           b == SubSeq(s, n + 1, Len(s))
<1>1. Len(s) \in Nat /\ n \in Nat /\ n <= Len(s)
  OBVIOUS
<1>2. /\ a \in Seq(Nat) /\ Len(a) = n /\ \A k \in 1..n : a[k] = s[k]
  BY <1>1
<1>3. /\ b \in Seq(Nat) /\ Len(b) = Len(s) - n /\ \A k \in 1..(Len(s) - n) : b[k] = s[n + k]
  BY <1>1
<1>4. Total(a) \in Nat /\ Total(b) \in Nat /\ Total(s) = Total(a) + Total(b)
  BY TotalParts
<1> HIDE DEF a, b
<1>5. ASSUME Total(a) = Total(s), NEW c \in (n + 1)..Len(s)
      PROVE  s[c] = 0
  <2>1. Total(b) = 0
    BY <1>4, <1>5
  <2>2. PICK k \in Int : k = c - n
    BY <1>1
  <2>3. k \in 1..(Len(s) - n) /\ n + k = c
    BY <1>1, <2>2
  <2>4. k \in DOMAIN b
    BY <1>3, <2>3
  <2>5. b[k] = 0
    BY <1>3, <2>1, <2>4, TotalZero
  <2> QED  BY <1>3, <2>3, <2>5
<1>6. ASSUME Total(b) = Total(s), NEW c \in 1..n
      PROVE  s[c] = 0
  <2>1. Total(a) = 0
    BY <1>4, <1>6
  <2>2. c \in DOMAIN a
    BY <1>2
  <2>3. a[c] = 0
    BY <1>2, <2>1, <2>2, TotalZero
  <2> QED  BY <1>2, <2>3
<1> QED  BY <1>5, <1>6 DEF a, b

\* One number replaced by another.
LEMMA TotalReplaced ==
    ASSUME NEW s \in Seq(Nat), NEW c \in DOMAIN s, NEW t \in Seq(Nat), DOMAIN t = DOMAIN s,
           \A k \in DOMAIN s : k # c => t[k] = s[k]
    PROVE  Total(t) + s[c] = Total(s) + t[c] /\ Total(s) \in Nat /\ Total(t) \in Nat
<1>1. /\ Len(s) \in Nat /\ Len(t) = Len(s) /\ DOMAIN s = 1..Len(s) /\ c \in 1..Len(s) /\ c \in DOMAIN t
      /\ s[c] \in Nat /\ t[c] \in Nat
  OBVIOUS
<1>2. SubSeq(t, 1, c - 1) = SubSeq(s, 1, c - 1)
  <2> DEFINE a == SubSeq(t, 1, c - 1)
             b == SubSeq(s, 1, c - 1)
  <2>1. a \in Seq(Nat) /\ Len(a) = c - 1 /\ \A k \in 1..(c - 1) : a[k] = t[k]
    BY <1>1
  <2>2. b \in Seq(Nat) /\ Len(b) = c - 1 /\ \A k \in 1..(c - 1) : b[k] = s[k]
    BY <1>1
  <2> HIDE DEF a, b
  <2>3. \A k \in 1..(c - 1) : k \in DOMAIN s /\ k # c
    BY <1>1
  <2>4. Len(a) = Len(b) /\ \A k \in 1..Len(a) : a[k] = b[k]
    BY <2>1, <2>2, <2>3
  <2>5. a = b
    BY <2>1, <2>2, <2>4, ListsEqual
  <2> QED  BY <2>5 DEF a, b
<1>3. SubSeq(t, c + 1, Len(t)) = SubSeq(s, c + 1, Len(s))
  <2> DEFINE a == SubSeq(t, c + 1, Len(t))
             b == SubSeq(s, c + 1, Len(s))
  <2>0. c \in 0..Len(s) /\ c \in 0..Len(t)
    BY <1>1
  <2>1. a \in Seq(Nat) /\ Len(a) = Len(s) - c /\ \A k \in 1..(Len(s) - c) : a[k] = t[c + k]
    BY <1>1, <2>0, FrontAndRest
  <2>2. b \in Seq(Nat) /\ Len(b) = Len(s) - c /\ \A k \in 1..(Len(s) - c) : b[k] = s[c + k]
    BY <2>0, FrontAndRest
  <2> HIDE DEF a, b
  <2>3. \A k \in 1..(Len(s) - c) : c + k \in DOMAIN s /\ c + k # c
    BY <1>1
  <2>4. Len(a) = Len(b) /\ \A k \in 1..Len(a) : a[k] = b[k]
    BY <2>1, <2>2, <2>3
  <2>5. a = b
    BY <2>1, <2>2, <2>4, ListsEqual
  <2> QED  BY <2>5 DEF a, b
<1>4. /\ Total(SubSeq(s, 1, c - 1)) \in Nat /\ Total(SubSeq(s, c + 1, Len(s))) \in Nat
      /\ Total(s) = Total(SubSeq(s, 1, c - 1)) + s[c] + Total(SubSeq(s, c + 1, Len(s)))
  BY TotalAround
<1>5. Total(t) = Total(SubSeq(t, 1, c - 1)) + t[c] + Total(SubSeq(t, c + 1, Len(t)))
  BY <1>1, TotalAround
<1>6. PICK x \in Nat : x = Total(SubSeq(s, 1, c - 1))
  BY <1>4
<1>7. PICK y \in Nat : y = Total(SubSeq(s, c + 1, Len(s)))
  BY <1>4
<1>8. Total(s) = x + s[c] + y /\ Total(t) = x + t[c] + y
  BY <1>2, <1>3, <1>4, <1>5, <1>6, <1>7
<1>9. PICK u \in Nat : u = s[c]
  BY <1>1
<1>10. PICK v \in Nat : v = t[c]
  BY <1>1
<1>11. Total(s) = x + u + y /\ Total(t) = x + v + y
  BY <1>8, <1>9, <1>10
<1>12. Total(t) + u = Total(s) + v /\ Total(s) \in Nat /\ Total(t) \in Nat
  BY ONLY <1>11
<1> QED  BY <1>9, <1>10, <1>12
=============================================================================
