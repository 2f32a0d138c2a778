----------------------------- MODULE FcycProof ------------------------------
(***************************************************************************)
(* Theorems about fcyc.c, for every setting of its parameters and whatever *)
(* the counter says.  How many of the samples are at most x, for every x,  *)
(* is the tally the insertion sort keeps: it says more than ValuesAreBest, *)
(* and a sample more changes it by one.                                    *)
(***************************************************************************)
EXTENDS Fcyc, SequenceTheorems, FiniteSetTheorems, WellFoundedInduction, TLAPS

(* A measurement is under way.                                             *)
Sampling == pc \in {"clear", "measure", "test"}

(* The places of the array that hold samples.                              *)
Filled == IF samplecount < kbest THEN samplecount ELSE kbest

InOrder(v, n) == \A i, j \in 1 .. n : i <= j => v[i] <= v[j]

(* How many of the first n numbers are at most x.                          *)
AtMost(s, n, x) == Cardinality({k \in 1 .. n : s[k] <= x})

(* The inductive invariant: the count is that of the samples and below the *)
(* limit, the buffer has the size it was asked for or is yet to be had,    *)
(* and the array is in order as far as it is filled.  Of the samples that  *)
(* are at most x it has all, or is full of them.                           *)
Counted ==
  /\ Sampling => Len(taken) = samplecount
  /\ pc \in {"clear", "measure"} => samplecount = 0 \/ samplecount < maxsamples
  /\ pc = "test" => samplecount = 1 \/ samplecount \in 1 .. maxsamples
  /\ pc = "returned" => Len(taken) = 1 \/ Len(taken) <= maxsamples

Buffered ==
  /\ cache_buf \in {NoBuffer, cache_bytes}
  /\ pc = "measure" /\ clear_cache => cache_buf = cache_bytes

Ordered == Sampling => InOrder(values, Filled)

Tallied ==
  Sampling => \A x \in Int :
    AtMost(values, Filled, x) = IF AtMost(taken, samplecount, x) < kbest
                                THEN AtMost(taken, samplecount, x) ELSE kbest

(* What fcyc has answered.                                                 *)
Returned == pc = "returned" => IsSmallest(result, 1, taken) /\ StopsWhenConverged

IInv == TypeOK /\ Counted /\ Buffered /\ Ordered /\ Tallied /\ Returned

-----------------------------------------------------------------------------
(* The parameters stay within what is admitted.                            *)
LEMMA Parameters ==
  ASSUME FcycAssumption, TypeOK
  PROVE  /\ kbest \in Nat \ {0} /\ maxsamples \in Nat /\ epsilon \in Nat
         /\ cache_bytes \in Nat /\ cache_block \in Nat
  BY DEF FcycAssumption, TypeOK

(* The sort keeps the array's length and its numbers.                      *)
LEMMA SunkType ==
  ASSUME NEW S, NEW v \in Seq(S), NEW pos \in 1 .. Len(v), S \subseteq Int
  PROVE  Sunk(v, pos) \in Seq(S) /\ Len(Sunk(v, pos)) = Len(v)
  <1> DEFINE greater == {k \in 1 .. pos - 1 : v[k] > v[pos]}
             to == pos - Cardinality(greater)
  <1>1. Cardinality(greater) \in 0 .. pos - 1
    <2>1. IsFiniteSet(1 .. pos - 1) /\ Cardinality(1 .. pos - 1) = pos - 1
      BY FS_Interval
    <2>2. IsFiniteSet(greater) /\ Cardinality(greater) <= pos - 1
      BY <2>1, FS_Subset
    <2> QED
      BY <2>2, FS_CardinalityType
  <1>2. to \in 1 .. pos
    BY <1>1
  <1>3. Sunk(v, pos) = [k \in DOMAIN v |-> IF k = to THEN v[pos]
                        ELSE IF to < k /\ k <= pos THEN v[k - 1] ELSE v[k]]
    BY DEF Sunk
  <1> HIDE DEF to
  <1>4. Sunk(v, pos) \in [1 .. Len(v) -> S]
    <2>1. DOMAIN v = 1 .. Len(v) /\ \A k \in 1 .. Len(v) : v[k] \in S
      OBVIOUS
    <2>2. \A k \in 1 .. Len(v) : to < k /\ k <= pos => k - 1 \in 1 .. Len(v)
      BY <1>2
    <2> QED
      BY <1>3, <2>1, <2>2
  <1> QED
    BY <1>4

(* The order of the numbers is well-founded: each set of them has a least.  *)
LEMMA Least ==
  ASSUME NEW T \in SUBSET Nat, T # {}
  PROVE  \E x \in T : \A y \in T : x <= y
  <1> DEFINE R == OpToRel(<, Nat)
  <1>1. IsWellFoundedOn(R, Nat)
    BY NatLessThanWellFounded
  <1>2. \A x, y \in Nat : x < y => <<x, y>> \in R
    BY DEF OpToRel
  <1> HIDE DEF R
  <1>3. PICK x \in T : \A y \in T : ~(<<y, x>> \in R)
    BY <1>1, WFMin
  <1>4. \A y \in T : ~(y < x)
    BY <1>2, <1>3
  <1> QED
    BY <1>3, <1>4

(* A number at the end of an array in order sinks to its place.            *)
LEMMA SunkOrders ==
  ASSUME NEW S, NEW v \in Seq(S), NEW pos \in 1 .. Len(v), S \subseteq Int,
         InOrder(v, pos - 1)
  PROVE  /\ InOrder(Sunk(v, pos), pos)
         /\ \A x \in Int : AtMost(Sunk(v, pos), pos, x) = AtMost(v, pos, x)
  <1> DEFINE greater == {k \in 1 .. pos - 1 : v[k] > v[pos]}
             to == pos - Cardinality(greater)
  <1>1. \A k \in 1 .. Len(v) : v[k] \in Int
    <2>1. \A k \in 1 .. Len(v) : v[k] \in S
      OBVIOUS
    <2> QED
      BY <2>1
  <1>2. PICK t \in 1 .. pos : greater = t .. pos - 1
    <2>1. CASE greater = {}
      BY <2>1
    <2>2. CASE greater # {}
      <3>1. greater \in SUBSET Nat
        OBVIOUS
      <3>2. PICK t \in greater : \A k \in greater : t <= k
        BY <2>2, <3>1, Least
      <3>3. ASSUME NEW k \in t .. pos - 1 PROVE k \in greater
        BY <1>1, <3>2 DEF InOrder
      <3> QED
        BY <3>2, <3>3
    <2> QED
      BY <2>1, <2>2
  <1>3. to = t
    <2>1. t \in Int /\ pos - 1 \in Int /\ t <= pos
      OBVIOUS
    <2>2. Cardinality(t .. pos - 1) = IF t > pos - 1 THEN 0 ELSE pos - 1 - t + 1
      BY <2>1, FS_Interval
    <2> HIDE DEF greater
    <2>3. Cardinality(greater) = Cardinality(t .. pos - 1)
      BY <1>2
    <2> QED
      BY <2>1, <2>2, <2>3
  <1>4. \A k \in 1 .. pos - 1 : k >= t <=> v[k] > v[pos]
    BY <1>2
  <1> HIDE DEF to, greater
  <1>5. Sunk(v, pos) = [k \in DOMAIN v |-> IF k = t THEN v[pos]
                        ELSE IF t < k /\ k <= pos THEN v[k - 1] ELSE v[k]]
    BY <1>3 DEF Sunk, to, greater
  <1> DEFINE w == Sunk(v, pos)
  <1>6. /\ w[t] = v[pos]
        /\ \A k \in 1 .. pos : k < t => w[k] = v[k]
        /\ \A k \in 1 .. pos : k > t => w[k] = v[k - 1]
    BY <1>5
  <1> HIDE DEF w
  <1>7. ASSUME NEW i \in 1 .. pos, NEW j \in 1 .. pos, i <= j
        PROVE  w[i] <= w[j]
    <2>1. \A k, l \in 1 .. pos - 1 : k <= l => v[k] <= v[l]
      BY DEF InOrder
    <2>2. \A k \in 1 .. pos : v[k] \in Int
      BY <1>1
    <2>3. CASE j < t
      <3>1. w[i] = v[i] /\ w[j] = v[j] /\ i \in 1 .. pos - 1 /\ j \in 1 .. pos - 1
        BY <1>6, <1>7, <2>3
      <3> QED
        BY <1>7, <2>1, <3>1
    <2>4. CASE i < t /\ j = t
      <3>1. w[i] = v[i] /\ w[j] = v[pos] /\ ~(v[i] > v[pos])
        BY <1>4, <1>6, <2>4
      <3> QED
        BY <2>2, <3>1
    <2>5. CASE i < t /\ j > t
      <3>1. w[i] = v[i] /\ w[j] = v[j - 1] /\ i <= j - 1
            /\ i \in 1 .. pos - 1 /\ j - 1 \in 1 .. pos - 1
        BY <1>6, <2>5
      <3> QED
        BY <2>1, <3>1
    <2>6. CASE i = t /\ j = t
      BY <1>6, <2>2, <2>6
    <2>7. CASE i = t /\ j > t
      <3>1. w[i] = v[pos] /\ w[j] = v[j - 1] /\ v[j - 1] > v[pos]
            /\ j - 1 \in 1 .. pos
        BY <1>4, <1>6, <2>7
      <3> QED
        BY <2>2, <3>1
    <2>8. CASE i > t
      <3>1. w[i] = v[i - 1] /\ w[j] = v[j - 1] /\ i - 1 <= j - 1
            /\ i - 1 \in 1 .. pos - 1 /\ j - 1 \in 1 .. pos - 1
        BY <1>6, <1>7, <2>8
      <3>2. v[i - 1] <= v[j - 1]
        BY <2>1, <3>1
      <3> QED
        BY <3>1, <3>2
    <2> QED
      BY <1>7, <2>3, <2>4, <2>5, <2>6, <2>7, <2>8
  <1> DEFINE from == [k \in 1 .. pos |->
                        IF k = t THEN pos ELSE IF k > t THEN k - 1 ELSE k]
  <1>8. /\ from \in [1 .. pos -> 1 .. pos]
        /\ \A k \in 1 .. pos : w[k] = v[from[k]]
        /\ \A k, l \in 1 .. pos : from[k] = from[l] => k = l
        /\ \A l \in 1 .. pos : \E k \in 1 .. pos : from[k] = l
    <2>1. from \in [1 .. pos -> 1 .. pos]
      OBVIOUS
    <2>2. \A k \in 1 .. pos : w[k] = v[from[k]]
      BY <1>6
    <2>3. \A k, l \in 1 .. pos : from[k] = from[l] => k = l
      OBVIOUS
    <2>4. ASSUME NEW l \in 1 .. pos PROVE \E k \in 1 .. pos : from[k] = l
      <3>1. CASE l < t
        <4>1. from[l] = l
          BY <3>1
        <4> QED
          BY <4>1
      <3>2. CASE l >= t /\ l < pos
        <4>1. l + 1 \in 1 .. pos /\ from[l + 1] = l
          BY <3>2
        <4> QED
          BY <4>1
      <3>3. CASE l = pos
        <4>1. from[t] = l
          BY <3>3
        <4> QED
          BY <4>1
      <3> QED
        BY <3>1, <3>2, <3>3
    <2> QED
      BY <2>1, <2>2, <2>3, <2>4
  <1> HIDE DEF from
  <1>9. ASSUME NEW x \in Int PROVE AtMost(w, pos, x) = AtMost(v, pos, x)
    <2> DEFINE S1 == {k \in 1 .. pos : w[k] <= x}
               T1 == {k \in 1 .. pos : v[k] <= x}
               g == [k \in S1 |-> from[k]]
    <2>1. g \in [S1 -> T1] /\ (\A k, l \in S1 : g[k] = g[l] => k = l)
          /\ \A l \in T1 : \E k \in S1 : g[k] = l
      <3>1. \A k \in S1 : from[k] \in T1
        BY <1>8
      <3>2. \A k, l \in S1 : from[k] = from[l] => k = l
        BY <1>8
      <3>3. ASSUME NEW l \in T1 PROVE \E k \in S1 : from[k] = l
        <4>1. PICK k \in 1 .. pos : from[k] = l
          BY <1>8
        <4>2. k \in S1
          BY <1>8, <4>1
        <4> QED
          BY <4>1, <4>2
      <3> HIDE DEF S1, T1
      <3> QED
        BY <3>1, <3>2, <3>3
    <2>2. IsFiniteSet(S1)
      <3>1. S1 \in SUBSET (1 .. pos)
        OBVIOUS
      <3>2. IsFiniteSet(1 .. pos)
        BY FS_Interval
      <3> HIDE DEF S1
      <3> QED
        BY <3>1, <3>2, FS_Subset
    <2> HIDE DEF S1, T1, g
    <2>3. g \in Injection(S1, T1) /\ g \in Surjection(S1, T1)
      BY <2>1 DEF Injection, IsInjective, Surjection
    <2>4. ExistsBijection(S1, T1)
      BY <2>3 DEF ExistsBijection, Bijection
    <2>5. Cardinality(T1) = Cardinality(S1)
      BY <2>2, <2>4, FS_Bijection
    <2> QED
      BY <2>5 DEF AtMost, S1, T1
  <1> QED
    BY <1>7, <1>9 DEF InOrder, w

(* The count of the first n numbers.                                       *)
LEMMA AtMostType ==
  ASSUME NEW s, NEW n \in Nat, NEW x
  PROVE  /\ AtMost(s, n, x) \in 0 .. n
         /\ (\A k \in 1 .. n : s[k] <= x) => AtMost(s, n, x) = n
  <1>1. PICK T : T = {k \in 1 .. n : s[k] <= x}
    OBVIOUS
  <1>2. IsFiniteSet(1 .. n) /\ Cardinality(1 .. n) = n /\ T \in SUBSET (1 .. n)
    BY <1>1, FS_Interval
  <1>3. IsFiniteSet(T) /\ Cardinality(T) <= n /\ Cardinality(T) \in Nat
    BY <1>2, FS_Subset, FS_CardinalityType
  <1>4. (\A k \in 1 .. n : s[k] <= x) => T = 1 .. n
    BY <1>1
  <1>5. AtMost(s, n, x) = Cardinality(T)
    BY <1>1 DEF AtMost
  <1>6. PICK c : c = Cardinality(T)
    OBVIOUS
  <1>7. c \in 0 .. n
    BY <1>2, <1>3, <1>6
  <1> QED
    BY <1>2, <1>4, <1>5, <1>6, <1>7

(* One number more.                                                        *)
LEMMA AtMostNext ==
  ASSUME NEW s, NEW n \in Nat, NEW x, NEW t, \A k \in 1 .. n : t[k] = s[k]
  PROVE  /\ t[n + 1] <= x => AtMost(t, n + 1, x) = AtMost(s, n, x) + 1
         /\ ~(t[n + 1] <= x) => AtMost(t, n + 1, x) = AtMost(s, n, x)
  <1>1. PICK T, U : T = {k \in 1 .. n : s[k] <= x} /\ U = {k \in 1 .. n + 1 : t[k] <= x}
    OBVIOUS
  <1>2. IsFiniteSet(T) /\ n + 1 \notin T
    <2>1. IsFiniteSet(1 .. n) /\ T \in SUBSET (1 .. n)
      BY <1>1, FS_Interval
    <2>2. n + 1 \notin 1 .. n
      OBVIOUS
    <2>3. IsFiniteSet(T)
      BY <2>1, FS_Subset
    <2> QED
      BY <2>1, <2>2, <2>3
  <1>3. t[n + 1] <= x => U = T \cup {n + 1}
    BY <1>1
  <1>4. ~(t[n + 1] <= x) => U = T
    BY <1>1
  <1>5. Cardinality(T \cup {n + 1}) = Cardinality(T) + 1
    BY <1>2, FS_AddElement
  <1> QED
    BY <1>1, <1>3, <1>4, <1>5 DEF AtMost

(* What the array may hold, and how far it is filled after a sample more.  *)
Numbers == Samples \cup {0}

FilledNext == IF samplecount + 1 < kbest THEN samplecount + 1 ELSE kbest

(* A sample is put at a place of the array and sinks from there: it is     *)
(* counted with those before it.                                           *)
LEMMA PutAndSunk ==
  ASSUME Numbers \subseteq Int, values \in Seq(Numbers), NEW pos \in 1 .. Len(values),
         NEW val \in Numbers, InOrder(values, pos - 1),
         NEW w, w = Sunk([values EXCEPT ![pos] = val], pos)
  PROVE  /\ w \in Seq(Numbers) /\ Len(w) = Len(values) /\ InOrder(w, pos)
         /\ \A x \in Int :
              /\ val <= x => AtMost(w, pos, x) = AtMost(values, pos - 1, x) + 1
              /\ ~(val <= x) => AtMost(w, pos, x) = AtMost(values, pos - 1, x)
  <1>1. PICK u : u = [values EXCEPT ![pos] = val]
    OBVIOUS
  <1>2. /\ u \in Seq(Numbers) /\ Len(u) = Len(values) /\ u[pos] = val
        /\ \A k \in 1 .. pos - 1 : u[k] = values[k]
    BY <1>1
  <1>3. pos \in 1 .. Len(u) /\ InOrder(u, pos - 1)
    BY <1>2 DEF InOrder
  <1>4. Sunk(u, pos) \in Seq(Numbers) /\ Len(Sunk(u, pos)) = Len(u)
    BY <1>2, <1>3, SunkType
  <1>5. /\ InOrder(Sunk(u, pos), pos)
        /\ \A x \in Int : AtMost(Sunk(u, pos), pos, x) = AtMost(u, pos, x)
    BY <1>2, <1>3, SunkOrders
  <1>6. ASSUME NEW x \in Int
        PROVE  /\ val <= x => AtMost(u, pos, x) = AtMost(values, pos - 1, x) + 1
               /\ ~(val <= x) => AtMost(u, pos, x) = AtMost(values, pos - 1, x)
    <2>1. PICK n \in Nat : n = pos - 1 /\ n + 1 = pos
      OBVIOUS
    <2>2. \A k \in 1 .. n : u[k] = values[k]
      BY <1>2, <2>1
    <2>3. /\ u[n + 1] <= x => AtMost(u, n + 1, x) = AtMost(values, n, x) + 1
          /\ ~(u[n + 1] <= x) => AtMost(u, n + 1, x) = AtMost(values, n, x)
      BY <2>2, AtMostNext
    <2> QED
      BY <1>2, <2>1, <2>3
  <1>7. w = Sunk(u, pos)
    BY <1>1
  <1> QED
    BY <1>2, <1>4, <1>5, <1>6, <1>7

(* The smaller one of the tally of the samples and of the places.          *)
UpTo(n) == IF n < kbest THEN n ELSE kbest

(* add_sample keeps the array in order, and its tally.                     *)
LEMMA KeptTallies ==
  ASSUME Numbers \subseteq Int, values \in Seq(Numbers), kbest \in Nat \ {0},
         Len(values) = kbest, samplecount \in Nat, NEW val \in Numbers,
         InOrder(values, Filled),
         NEW w, w = Kept(values, samplecount, val)
  PROVE  /\ w \in Seq(Numbers) /\ Len(w) = kbest /\ InOrder(w, FilledNext)
         /\ \A x \in Int, old \in 0 .. samplecount, new \in 0 .. samplecount + 1 :
              /\ AtMost(values, Filled, x) = UpTo(old)
              /\ val <= x => new = old + 1
              /\ ~(val <= x) => new = old
              => AtMost(w, FilledNext, x) = UpTo(new)
  <1>1. (\A k \in 1 .. kbest : values[k] \in Int) /\ val \in Int
    <2>1. \A k \in 1 .. kbest : values[k] \in Numbers
      OBVIOUS
    <2> QED
      BY <2>1
  <1>2. CASE samplecount < kbest
    <2>1. PICK pos \in 1 .. kbest : pos = samplecount + 1 /\ pos - 1 = samplecount
      BY <1>2
    <2>2. w = Sunk([values EXCEPT ![pos] = val], pos)
      BY <1>2, <2>1 DEF Kept
    <2>3. FilledNext = pos /\ Filled = pos - 1
      BY <1>2, <2>1 DEF FilledNext, Filled
    <2>4. InOrder(values, pos - 1) /\ pos \in 1 .. Len(values)
      BY <2>3
    <2>5. /\ w \in Seq(Numbers) /\ Len(w) = Len(values) /\ InOrder(w, pos)
          /\ \A x \in Int :
               /\ val <= x => AtMost(w, pos, x) = AtMost(values, pos - 1, x) + 1
               /\ ~(val <= x) => AtMost(w, pos, x) = AtMost(values, pos - 1, x)
      BY <2>2, <2>4, PutAndSunk
    <2>6. ASSUME NEW x \in Int, NEW old \in 0 .. samplecount,
                 NEW new \in 0 .. samplecount + 1,
                 AtMost(values, Filled, x) = UpTo(old),
                 val <= x => new = old + 1, ~(val <= x) => new = old
          PROVE  AtMost(w, pos, x) = UpTo(new)
      <3>1. UpTo(old) = old /\ UpTo(new) = new
        BY <1>2 DEF UpTo
      <3>2. AtMost(values, pos - 1, x) = old
        BY <2>3, <2>6, <3>1
      <3> QED
        BY <2>5, <2>6, <3>1, <3>2
    <2> QED
      BY <2>3, <2>5, <2>6
  <1>3. ASSUME ~(samplecount < kbest)
        PROVE  /\ FilledNext = kbest /\ Filled = kbest /\ InOrder(values, kbest)
               /\ \A x \in Int : values[kbest] <= x => AtMost(values, kbest, x) = kbest
    <2>1. FilledNext = kbest /\ Filled = kbest /\ InOrder(values, kbest)
      BY <1>3 DEF FilledNext, Filled
    <2>2. ASSUME NEW x \in Int, values[kbest] <= x PROVE AtMost(values, kbest, x) = kbest
      <3>1. ASSUME NEW k \in 1 .. kbest PROVE values[k] <= x
        <4>1. values[k] <= values[kbest]
          BY <2>1 DEF InOrder
        <4> QED
          BY <1>1, <2>2, <4>1
      <3> QED
        BY <3>1, AtMostType
    <2> QED
      BY <2>1, <2>2
  <1>4. CASE ~(samplecount < kbest) /\ val < values[kbest]
    <2>1. PICK pos \in 1 .. kbest : pos = kbest
      OBVIOUS
    <2>2. w = Sunk([values EXCEPT ![pos] = val], pos)
      BY <1>4, <2>1 DEF Kept
    <2>3. InOrder(values, pos - 1) /\ pos \in 1 .. Len(values)
      BY <1>3, <1>4, <2>1 DEF InOrder
    <2>4. /\ w \in Seq(Numbers) /\ Len(w) = Len(values) /\ InOrder(w, pos)
          /\ \A x \in Int :
               /\ val <= x => AtMost(w, pos, x) = AtMost(values, pos - 1, x) + 1
               /\ ~(val <= x) => AtMost(w, pos, x) = AtMost(values, pos - 1, x)
      BY <2>2, <2>3, PutAndSunk
    <2>5. ASSUME NEW x \in Int, NEW old \in 0 .. samplecount,
                 NEW new \in 0 .. samplecount + 1,
                 AtMost(values, Filled, x) = UpTo(old),
                 val <= x => new = old + 1, ~(val <= x) => new = old
          PROVE  AtMost(w, kbest, x) = UpTo(new)
      <3>1. PICK n \in Nat : n = kbest - 1 /\ n + 1 = kbest
        OBVIOUS
      <3>2. /\ values[kbest] <= x => AtMost(values, kbest, x) = AtMost(values, n, x) + 1
            /\ ~(values[kbest] <= x) => AtMost(values, kbest, x) = AtMost(values, n, x)
        <4>1. \A k \in 1 .. n : values[k] = values[k]
          OBVIOUS
        <4>2. /\ values[n + 1] <= x => AtMost(values, n + 1, x) = AtMost(values, n, x) + 1
              /\ ~(values[n + 1] <= x) => AtMost(values, n + 1, x) = AtMost(values, n, x)
          BY <4>1, AtMostNext
        <4> QED
          BY <3>1, <4>2
      <3>3. /\ val <= x => AtMost(w, kbest, x) = AtMost(values, n, x) + 1
            /\ ~(val <= x) => AtMost(w, kbest, x) = AtMost(values, n, x)
        BY <2>1, <2>4, <3>1
      <3>4. AtMost(values, n, x) \in 0 .. n /\ AtMost(values, kbest, x) = UpTo(old)
        BY <1>3, <1>4, <2>5, AtMostType
      <3>5. CASE values[kbest] <= x
        <4>1. val <= x
          BY <1>1, <1>4, <3>5
        <4>2. AtMost(values, kbest, x) = kbest
          BY <1>3, <1>4, <3>5
        <4>3. UpTo(old) = kbest /\ old >= kbest /\ new >= kbest
          BY <2>5, <3>4, <4>1, <4>2 DEF UpTo
        <4>4. AtMost(w, kbest, x) = kbest
          BY <3>2, <3>3, <3>5, <4>1, <4>2
        <4> QED
          BY <4>3, <4>4 DEF UpTo
      <3>6. CASE ~(values[kbest] <= x)
        <4>1. PICK a \in 0 .. n : a = AtMost(values, n, x)
          BY <3>4
        <4>2. UpTo(old) = a
          BY <3>2, <3>4, <3>6, <4>1
        <4>3. old = a
          BY <3>1, <4>2 DEF UpTo
        <4> QED
          BY <2>5, <3>1, <3>3, <4>1, <4>3 DEF UpTo
      <3> QED
        BY <3>5, <3>6
    <2> QED
      BY <1>3, <1>4, <2>1, <2>4, <2>5
  <1>5. CASE ~(samplecount < kbest) /\ ~(val < values[kbest])
    <2>1. w = values
      BY <1>5 DEF Kept
    <2>2. ASSUME NEW x \in Int, NEW old \in 0 .. samplecount,
                 NEW new \in 0 .. samplecount + 1,
                 AtMost(values, Filled, x) = UpTo(old),
                 val <= x => new = old + 1, ~(val <= x) => new = old
          PROVE  AtMost(values, kbest, x) = UpTo(new)
      <3>1. AtMost(values, kbest, x) = UpTo(old)
        BY <1>3, <1>5, <2>2
      <3>2. CASE val <= x
        <4>1. values[kbest] <= x
          BY <1>1, <1>5, <3>2
        <4>2. UpTo(old) = kbest
          BY <1>3, <1>5, <3>1, <4>1
        <4>3. UpTo(new) = kbest
          BY <2>2, <3>2, <4>2 DEF UpTo
        <4> QED
          BY <3>1, <4>2, <4>3
      <3>3. CASE ~(val <= x)
        BY <2>2, <3>1, <3>3
      <3> QED
        BY <3>2, <3>3
    <2> QED
      BY <1>3, <1>5, <2>1, <2>2
  <1> QED
    BY <1>2, <1>4, <1>5

-----------------------------------------------------------------------------
(* The numbers of the array are the smallest samples.                      *)
LEMMA SmallestFirst ==
  ASSUME TypeOK, Numbers \subseteq Int, Sampling, Counted, Ordered, Tallied,
         kbest \in Nat \ {0}, NEW n \in 1 .. kbest, n <= samplecount
  PROVE  IsSmallest(values[n], n, taken) /\ values[n] \in ToSet(taken)
  <1>1. /\ samplecount \in Nat /\ Len(values) = kbest /\ values \in Seq(Numbers)
        /\ taken \in Seq(Samples) /\ Len(taken) = samplecount
        /\ DOMAIN taken = 1 .. samplecount
    BY DEF TypeOK, Sampling, Counted, Numbers
  <1>2. PICK m \in Nat : m = Filled /\ n <= m /\ m <= kbest
    BY <1>1 DEF Filled
  <1>3. \A k \in 1 .. kbest : values[k] \in Int
    <2>1. \A k \in 1 .. kbest : values[k] \in Numbers
      BY <1>1
    <2> QED
      BY <2>1
  <1>4. \A k \in 1 .. samplecount : taken[k] \in Int
    <2>1. \A k \in 1 .. samplecount : taken[k] \in Samples
      BY <1>1
    <2> QED
      BY <2>1 DEF Numbers
  <1>5. PICK x \in Int : x = values[n]
    BY <1>3
  <1>6. \A y \in Int : AtMost(values, m, y) = IF AtMost(taken, samplecount, y) < kbest
                                             THEN AtMost(taken, samplecount, y) ELSE kbest
    BY <1>2 DEF Tallied
  <1>7. \A k, l \in 1 .. m : k <= l => values[k] <= values[l]
    BY <1>2 DEF Ordered, InOrder
  <1>8. AtMost(values, m, x) >= n
    <2>1. PICK T : T = {k \in 1 .. m : values[k] <= x}
      OBVIOUS
    <2>2. 1 .. n \in SUBSET T
      BY <1>2, <1>3, <1>5, <1>7, <2>1
    <2>3. IsFiniteSet(T) /\ Cardinality(1 .. n) = n
      <3>1. IsFiniteSet(1 .. m) /\ T \in SUBSET (1 .. m)
        BY <2>1, FS_Interval
      <3>2. Cardinality(1 .. n) = n
        BY FS_Interval
      <3> QED
        BY <3>1, <3>2, FS_Subset
    <2>4. Cardinality(1 .. n) <= Cardinality(T)
      BY <2>2, <2>3, FS_Subset
    <2>5. Cardinality(T) \in Nat
      BY <2>3, FS_CardinalityType
    <2> QED
      BY <2>1, <2>3, <2>4, <2>5 DEF AtMost
  <1>9. AtMost(values, m, x - 1) < n
    <2>1. PICK T : T = {k \in 1 .. m : values[k] <= x - 1}
      OBVIOUS
    <2>2. T \in SUBSET (1 .. n - 1)
      <3>1. ASSUME NEW k \in 1 .. m, k >= n PROVE ~(values[k] <= x - 1)
        <4>1. values[n] <= values[k] /\ values[k] \in Int
          BY <1>2, <1>3, <1>7, <3>1
        <4> QED
          BY <1>5, <4>1
      <3> QED
        BY <2>1, <3>1
    <2>3. IsFiniteSet(1 .. n - 1) /\ Cardinality(1 .. n - 1) = n - 1
      BY FS_Interval
    <2>4. Cardinality(T) <= n - 1 /\ Cardinality(T) \in Nat
      BY <2>2, <2>3, FS_Subset, FS_CardinalityType
    <2> QED
      BY <2>1, <2>4 DEF AtMost
  <1>10. PICK a \in Nat, b \in Nat :
           a = AtMost(taken, samplecount, x) /\ b = AtMost(taken, samplecount, x - 1)
    BY <1>1, AtMostType
  <1>11. a >= n /\ b < n
    <2>1. AtMost(values, m, x) = IF a < kbest THEN a ELSE kbest
      BY <1>6, <1>10
    <2>2. AtMost(values, m, x - 1) = IF b < kbest THEN b ELSE kbest
      BY <1>6, <1>10
    <2> QED
      BY <1>8, <1>9, <2>1, <2>2
  <1>12. a = Cardinality({j \in DOMAIN taken : taken[j] <= x})
    BY <1>1, <1>10 DEF AtMost
  <1>13. b = Cardinality({j \in DOMAIN taken : taken[j] < x})
    <2>1. {j \in DOMAIN taken : taken[j] < x} = {j \in 1 .. samplecount : taken[j] <= x - 1}
      BY <1>1, <1>4
    <2> QED
      BY <1>10, <2>1 DEF AtMost
  <1>14. values[n] \in ToSet(taken)
    <2> SUFFICES ASSUME \A j \in DOMAIN taken : taken[j] # x PROVE FALSE
      BY <1>5 DEF ToSet
    <2>1. {j \in DOMAIN taken : taken[j] < x} = {j \in DOMAIN taken : taken[j] <= x}
      BY <1>1, <1>4
    <2> QED
      BY <1>11, <1>12, <1>13, <2>1
  <1> QED
    BY <1>5, <1>11, <1>12, <1>13, <1>14 DEF IsSmallest

(* The program begins with no measurement made.                            *)
LEMMA InitHolds == ASSUME FcycAssumption PROVE Init => IInv
  <1> SUFFICES ASSUME Init PROVE IInv
    OBVIOUS
  <1>1. values \in Seq(Samples \cup {0}) /\ taken \in Seq(Samples)
    BY DEF Init
  <1>2. TypeOK
    <2>1. kbest \in Ks \cup {K} /\ maxsamples \in MaxSamples \cup {MAXSAMPLES}
          /\ epsilon \in Epsilons \cup {EPSILON} /\ compensate \in BOOLEAN
          /\ clear_cache \in BOOLEAN /\ cache_block \in Blocks \cup {CACHE_BLOCK}
          /\ cache_bytes \in Sizes \cup {CACHE_BYTES}
          /\ cache_buf \in Sizes \cup {CACHE_BYTES, NoBuffer}
      BY DEF Init
    <2>2. samplecount = 0 /\ pc = "idle" /\ result = 0 /\ set = 0 /\ Settings \in Nat
      BY DEF Init, FcycAssumption
    <2> QED
      BY <1>1, <2>1, <2>2 DEF TypeOK
  <1>3. Counted /\ Buffered /\ Ordered /\ Tallied /\ Returned
    BY DEF Init, Counted, Buffered, Ordered, Tallied, Returned, Sampling
  <1> QED
    BY <1>2, <1>3 DEF IInv

(* A setting is made between measurements.                                 *)
LEMMA SettingStep ==
  ASSUME IInv, FcycAssumption, Setting,
         kbest' \in Ks \cup {K}, maxsamples' \in MaxSamples \cup {MAXSAMPLES},
         epsilon' \in Epsilons \cup {EPSILON},
         compensate' \in BOOLEAN, clear_cache' \in BOOLEAN,
         cache_block' \in Blocks \cup {CACHE_BLOCK},
         cache_bytes' \in Sizes \cup {CACHE_BYTES},
         cache_buf' \in {NoBuffer, cache_bytes'}
  PROVE  IInv'
  <1>1. TypeOK'
    BY DEF IInv, TypeOK, Setting, FcycAssumption
  <1>2. Counted' /\ Buffered' /\ Ordered' /\ Tallied' /\ Returned'
    BY DEF Setting, Counted, Buffered, Ordered, Tallied, Returned, Sampling
  <1> QED
    BY <1>1, <1>2 DEF IInv

(* fcyc begins a measurement with an array of kbest zeros.                 *)
LEMMA FcycStep ==
  ASSUME IInv, FcycAssumption, fcyc
  PROVE  IInv'
  <1>1. kbest \in Nat \ {0}
    BY Parameters DEF IInv
  <1>2. values' \in Seq(Samples \cup {0}) /\ Len(values') = kbest
    <2>1. values' = [k \in 1 .. kbest |-> 0]
      BY DEF fcyc, init_sampler
    <2> QED
      BY <1>1, <2>1
  <1>3. taken' = <<>> /\ samplecount' = 0 /\ Len(taken') = 0 /\ taken' \in Seq(Samples)
    BY DEF fcyc, init_sampler
  <1>4. /\ pc' = IF clear_cache THEN "clear" ELSE "measure"
        /\ UNCHANGED <<kbest, maxsamples, epsilon, compensate, clear_cache,
                       cache_bytes, cache_block, cache_buf, result, set>>
    BY DEF fcyc, params, scheme
  <1>5. TypeOK'
    BY <1>2, <1>3, <1>4 DEF IInv, TypeOK
  <1>6. Counted' /\ Returned'
    BY <1>3, <1>4 DEF Counted, Returned, Sampling
  <1>7. Buffered'
    BY <1>4 DEF IInv, Buffered
  <1>8. Ordered'
    BY <1>1, <1>3, <1>4 DEF Ordered, Filled, InOrder
  <1>9. Tallied'
    <2>1. \A s, x : AtMost(s, 0, x) = 0
      BY AtMostType
    <2>2. samplecount' = 0 /\ Filled' = 0 /\ kbest' = kbest
      BY <1>1, <1>3, <1>4 DEF Filled
    <2> QED
      BY <1>1, <2>1, <2>2 DEF Tallied
  <1> QED
    BY <1>5, <1>6, <1>7, <1>8, <1>9 DEF IInv

(* clear provides the buffer it reads.                                     *)
LEMMA ClearStep ==
  ASSUME IInv, FcycAssumption, clear
  PROVE  IInv'
  <1>1. /\ pc = "clear" /\ pc' \in {"clear", "measure"}
        /\ cache_buf' = IF cache_buf = NoBuffer THEN cache_bytes ELSE cache_buf
        /\ UNCHANGED <<kbest, maxsamples, epsilon, compensate, clear_cache, cache_bytes,
                       cache_block, values, samplecount, result, taken, set>>
    BY DEF clear, params, scheme
  <1>2. TypeOK'
    BY <1>1 DEF IInv, TypeOK
  <1>3. Counted' /\ Returned'
    BY <1>1 DEF IInv, Counted, Returned, Sampling
  <1>4. Buffered'
    BY <1>1 DEF IInv, Buffered
  <1>5. Ordered' /\ Tallied'
    <2>1. Ordered' /\ Filled' = Filled
      BY <1>1 DEF IInv, Ordered, Filled, InOrder, Sampling
    <2>2. \A x : /\ AtMost(values, Filled, x)' = AtMost(values, Filled, x)
                /\ AtMost(taken, samplecount, x)' = AtMost(taken, samplecount, x)
      BY <1>1, <2>1 DEF AtMost
    <2> QED
      BY <1>1, <2>1, <2>2 DEF IInv, Tallied, Sampling
  <1> QED
    BY <1>2, <1>3, <1>4, <1>5 DEF IInv

(* A sample is taken and kept.                                             *)
LEMMA MeasureStep ==
  ASSUME IInv, FcycAssumption, NEW val \in Samples, measure(val)
  PROVE  IInv'
  <1>1. /\ pc = "measure" /\ pc' = "test"
        /\ values' = Kept(values, samplecount, val)
        /\ samplecount' = samplecount + 1 /\ taken' = Append(taken, val)
        /\ UNCHANGED <<kbest, maxsamples, epsilon, compensate, clear_cache, cache_bytes,
                       cache_block, cache_buf, result, set>>
    BY DEF measure, add_sample, params, scheme
  <1>2. /\ kbest \in Nat \ {0} /\ maxsamples \in Nat /\ Samples \cup {0} \subseteq Int
        /\ samplecount \in Nat /\ values \in Seq(Samples \cup {0}) /\ Len(values) = kbest
        /\ taken \in Seq(Samples) /\ Len(taken) = samplecount
    BY <1>1, Parameters DEF IInv, TypeOK, Counted, Sampling, FcycAssumption
  <1>3. PICK w : w = Kept(values, samplecount, val)
    OBVIOUS
  <1>4. /\ InOrder(values, Filled)
        /\ \A x \in Int : AtMost(values, Filled, x) = UpTo(AtMost(taken, samplecount, x))
    BY <1>1 DEF IInv, Ordered, Tallied, Sampling, UpTo
  <1>5. /\ w \in Seq(Samples \cup {0}) /\ Len(w) = kbest /\ InOrder(w, FilledNext)
        /\ \A x \in Int, old \in 0 .. samplecount, new \in 0 .. samplecount + 1 :
             /\ AtMost(values, Filled, x) = UpTo(old)
             /\ val <= x => new = old + 1
             /\ ~(val <= x) => new = old
             => AtMost(w, FilledNext, x) = UpTo(new)
    <2>1. Numbers \subseteq Int /\ values \in Seq(Numbers) /\ val \in Numbers
      BY <1>2 DEF Numbers
    <2>2. kbest \in Nat \ {0} /\ Len(values) = kbest /\ samplecount \in Nat
      BY <1>2
    <2>3. w \in Seq(Numbers)
      BY <1>3, <1>4, <2>1, <2>2, KeptTallies
    <2> QED
      BY <1>3, <1>4, <2>1, <2>2, <2>3, KeptTallies DEF Numbers
  <1>6. Len(taken') = samplecount + 1 /\ taken' \in Seq(Samples)
    BY <1>1, <1>2
  <1>7. TypeOK'
    BY <1>1, <1>2, <1>3, <1>5, <1>6 DEF IInv, TypeOK
  <1>8. Counted'
    <2>1. samplecount = 0 \/ samplecount < maxsamples
      BY <1>1 DEF IInv, Counted
    <2>2. samplecount + 1 = 1 \/ samplecount + 1 \in 1 .. maxsamples
      BY <1>2, <2>1
    <2> QED
      BY <1>1, <1>6, <2>2 DEF Counted, Sampling
  <1>9. Buffered' /\ Returned'
    BY <1>1 DEF IInv, Buffered, Returned
  <1>10. Ordered' /\ Tallied'
    <2>1. InOrder(values', Filled') /\ Filled' = FilledNext /\ kbest' = kbest
      BY <1>1, <1>3, <1>5 DEF InOrder, Filled, FilledNext
    <2>2. PICK t : t = taken'
      OBVIOUS
    <2>3. (\A k \in 1 .. samplecount : t[k] = taken[k]) /\ t[samplecount + 1] = val
      BY <1>1, <1>2, <2>2
    <2>4. ASSUME NEW x \in Int
          PROVE  AtMost(w, FilledNext, x) = UpTo(AtMost(t, samplecount + 1, x))
      <3>1. PICK old \in 0 .. samplecount : old = AtMost(taken, samplecount, x)
        BY <1>2, AtMostType
      <3>2. PICK new \in 0 .. samplecount + 1 : new = AtMost(t, samplecount + 1, x)
        <4>1. samplecount + 1 \in Nat
          BY <1>2
        <4> QED
          BY <4>1, AtMostType
      <3>3. /\ t[samplecount + 1] <= x => new = old + 1
            /\ ~(t[samplecount + 1] <= x) => new = old
        BY <1>2, <2>3, <3>1, <3>2, AtMostNext
      <3>4. AtMost(values, Filled, x) = UpTo(old)
        BY <1>4, <3>1
      <3> QED
        BY <1>5, <2>3, <3>2, <3>3, <3>4
    <2>5. values' = w /\ samplecount' = samplecount + 1
      BY <1>1, <1>3
    <2>6. Tallied'
      <3>1. ASSUME NEW x \in Int
            PROVE  AtMost(values, Filled, x)' = UpTo(AtMost(t, samplecount + 1, x))
        BY <2>1, <2>4, <2>5 DEF AtMost
      <3>2. \A x : AtMost(taken, samplecount, x)' = AtMost(t, samplecount + 1, x)
        BY <2>2, <2>5 DEF AtMost
      <3> QED
        BY <2>1, <3>1, <3>2 DEF Tallied, UpTo
    <2> QED
      BY <2>1, <2>6 DEF Ordered
  <1> QED
    BY <1>7, <1>8, <1>9, <1>10 DEF IInv

(* Another sample is needed.                                               *)
LEMMA AgainStep ==
  ASSUME IInv, FcycAssumption, again
  PROVE  IInv'
  <1>1. /\ pc = "test" /\ samplecount < maxsamples
        /\ pc' = IF clear_cache THEN "clear" ELSE "measure"
        /\ UNCHANGED <<kbest, maxsamples, epsilon, compensate, clear_cache, cache_bytes,
                       cache_block, cache_buf, values, samplecount, result, taken, set>>
    BY DEF again, params, scheme
  <1>2. TypeOK'
    BY <1>1 DEF IInv, TypeOK
  <1>3. Counted' /\ Returned'
    BY <1>1 DEF IInv, Counted, Returned, Sampling
  <1>4. Buffered'
    BY <1>1 DEF IInv, Buffered
  <1>5. Ordered' /\ Tallied'
    <2>1. Ordered' /\ Filled' = Filled
      BY <1>1 DEF IInv, Ordered, Filled, InOrder, Sampling
    <2>2. \A x : /\ AtMost(values, Filled, x)' = AtMost(values, Filled, x)
                /\ AtMost(taken, samplecount, x)' = AtMost(taken, samplecount, x)
      BY <1>1, <2>1 DEF AtMost
    <2> QED
      BY <1>1, <2>1, <2>2 DEF IInv, Tallied, Sampling
  <1> QED
    BY <1>2, <1>3, <1>4, <1>5 DEF IInv

(* fcyc answers the first number of the array.                             *)
LEMMA ReturnStep ==
  ASSUME IInv, FcycAssumption, return
  PROVE  IInv'
  <1>1. /\ pc = "test" /\ pc' = "returned" /\ result' = values[1] /\ values' = <<>>
        /\ UNCHANGED <<kbest, maxsamples, epsilon, compensate, clear_cache, cache_bytes,
                       cache_block, cache_buf, samplecount, taken, set>>
    BY DEF return, params, scheme
  <1>2. samplecount \in Nat /\ samplecount > 0 /\ Len(taken) = samplecount
        /\ maxsamples \in Nat /\ kbest \in Nat \ {0} /\ Len(values) = kbest
        /\ values \in Seq(Samples \cup {0})
        /\ (samplecount = 1 \/ samplecount <= maxsamples)
    BY <1>1, Parameters DEF IInv, TypeOK, Counted, Sampling
  <1>3. values[1] \in Samples \cup {0}
    BY <1>2
  <1>4. TypeOK'
    BY <1>1, <1>2, <1>3 DEF IInv, TypeOK
  <1>5. Counted' /\ Ordered' /\ Tallied' /\ Buffered'
    BY <1>1, <1>2 DEF IInv, Counted, Ordered, Tallied, Buffered, Sampling
  <1>6. Returned'
    <2>1. Sampling /\ Numbers \subseteq Int
      BY <1>1, FcycAssumption DEF Sampling, Numbers, FcycAssumption
    <2>2. \A n \in 1 .. kbest : n <= samplecount =>
            IsSmallest(values[n], n, taken) /\ values[n] \in ToSet(taken)
      BY <1>2, <2>1, SmallestFirst DEF IInv
    <2>3. IsSmallest(values[1], 1, taken)
      BY <1>2, <2>2
    <2>4. \/ Len(taken) >= maxsamples
          \/ \E x \in ToSet(taken) :
               IsSmallest(x, kbest, taken) /\ (100 + epsilon) * values[1] >= 100 * x
      <3>1. CASE Converged
        <4>1. samplecount >= kbest /\ (100 + epsilon) * values[1] >= 100 * values[kbest]
          BY <3>1 DEF Converged
        <4>2. kbest \in 1 .. kbest
          BY <1>2
        <4> QED
          BY <2>2, <4>1, <4>2
      <3>2. CASE samplecount >= maxsamples
        BY <1>2, <3>2
      <3> QED
        BY <3>1, <3>2 DEF return
    <2> QED
      BY <1>1, <2>3, <2>4 DEF Returned, StopsWhenConverged, IsSmallest
  <1> QED
    BY <1>4, <1>5, <1>6 DEF IInv

(* Every step keeps the invariant.                                         *)
LEMMA StepHolds ==
  ASSUME IInv, FcycAssumption, [Next]_vars
  PROVE  IInv'
  <1>1. CASE UNCHANGED vars
    <2>1. TypeOK' /\ Counted' /\ Buffered'
      BY <1>1 DEF vars, params, scheme, IInv, TypeOK, Counted, Buffered, Sampling
    <2>2. Ordered' /\ Filled' = Filled
      BY <1>1 DEF vars, params, scheme, IInv, Ordered, Sampling, Filled, InOrder
    <2>3. Tallied'
      <3>1. \A x : /\ AtMost(values, Filled, x)' = AtMost(values, Filled, x)
                  /\ AtMost(taken, samplecount, x)' = AtMost(taken, samplecount, x)
        BY <1>1, <2>2 DEF vars, AtMost
      <3> QED
        BY <1>1, <3>1 DEF vars, params, scheme, IInv, Tallied, Sampling
    <2>4. Returned'
      BY <1>1 DEF vars, params, scheme, IInv, Returned, StopsWhenConverged,
                  IsSmallest, ToSet
    <2> QED
      BY <2>1, <2>2, <2>3, <2>4 DEF IInv
  <1>2. TypeOK /\ Buffered
    BY DEF IInv
  <1>3. ASSUME NEW k \in Ks, set_fcyc_k(k) PROVE IInv'
    BY <1>2, <1>3, SettingStep DEF set_fcyc_k, TypeOK, Buffered
  <1>4. ASSUME NEW n \in MaxSamples, set_fcyc_maxsamples(n) PROVE IInv'
    BY <1>2, <1>4, SettingStep DEF set_fcyc_maxsamples, TypeOK, Buffered
  <1>5. ASSUME NEW eps \in Epsilons, set_fcyc_epsilon(eps) PROVE IInv'
    BY <1>2, <1>5, SettingStep DEF set_fcyc_epsilon, TypeOK, Buffered
  <1>6. ASSUME NEW on \in BOOLEAN, set_fcyc_compensate(on) PROVE IInv'
    BY <1>2, <1>6, SettingStep DEF set_fcyc_compensate, scheme, TypeOK, Buffered
  <1>7. ASSUME NEW on \in BOOLEAN, set_fcyc_clear_cache(on) PROVE IInv'
    BY <1>2, <1>7, SettingStep DEF set_fcyc_clear_cache, scheme, TypeOK, Buffered
  <1>8. ASSUME NEW bytes \in Blocks, set_fcyc_cache_block(bytes) PROVE IInv'
    BY <1>2, <1>8, SettingStep DEF set_fcyc_cache_block, scheme, TypeOK, Buffered
  <1>9. ASSUME NEW bytes \in Sizes, set_fcyc_cache_size(bytes) PROVE IInv'
    BY <1>2, <1>9, SettingStep DEF set_fcyc_cache_size, scheme, TypeOK, Buffered
  <1> QED
    BY <1>1, <1>3, <1>4, <1>5, <1>6, <1>7, <1>8, <1>9, FcycStep, ClearStep,
       MeasureStep, AgainStep, ReturnStep DEF Next, Run

(* IInv is an invariant.                                                   *)
THEOREM Holds == Spec => []IInv
  <1>1. Init => IInv
    BY FcycAssumption, InitHolds DEF FcycAssumption
  <1>2. IInv /\ [Next]_vars => IInv'
    BY FcycAssumption, StepHolds DEF FcycAssumption
  <1> QED
    BY <1>1, <1>2, PTL DEF Spec

(* Every variable has its type, and the array has kbest places all through *)
(* a measurement (init_sampler and add_sample, fcyc.c:58-85).              *)
THEOREM TypeCorrect == Spec => []TypeOK
  <1>1. IInv => TypeOK
    BY DEF IInv
  <1> QED
    BY <1>1, Holds, PTL

(* No sample is taken beyond maxsamples, but the first (fcyc.c:142, 152).  *)
THEOREM Limited == Spec => []NoSampleTooMany
  <1>1. IInv => NoSampleTooMany
    <2> SUFFICES ASSUME IInv, pc # "idle" PROVE NoSampleTooMany
      BY DEF NoSampleTooMany
    <2>1. maxsamples \in Nat
      BY Parameters, FcycAssumption DEF IInv, FcycAssumption
    <2>2. TypeOK /\ Counted
      BY DEF IInv
    <2>3. samplecount \in Nat /\ taken \in Seq(Samples)
          /\ pc \in {"clear", "measure", "test", "returned"}
      BY <2>2 DEF TypeOK
    <2>4. Len(taken) \in {0, 1} \/ Len(taken) <= maxsamples
      <3>1. CASE Sampling
        <4>1. Len(taken) = samplecount
          BY <2>2, <3>1 DEF Counted
        <4>2. samplecount \in {0, 1} \/ samplecount <= maxsamples
          BY <2>1, <2>2, <2>3, <3>1 DEF Counted, Sampling
        <4> QED
          BY <4>1, <4>2
      <3>2. CASE pc = "returned"
        BY <2>2, <3>2 DEF Counted
      <3> QED
        BY <2>3, <3>1, <3>2 DEF Sampling
    <2>5. Len(taken) \in Nat
      BY <2>3
    <2>6. PICK limit : limit = IF maxsamples > 1 THEN maxsamples ELSE 1
      OBVIOUS
    <2>7. limit \in Nat /\ limit >= 1 /\ limit >= maxsamples
      BY <2>1, <2>6
    <2>8. Len(taken) <= limit
      BY <2>1, <2>4, <2>5, <2>7
    <2> QED
      BY <2>6, <2>8 DEF NoSampleTooMany
  <1> QED
    BY <1>1, Holds, PTL

(* Every measurement with clearing reads a buffer of the size set last     *)
(* (clear and set_fcyc_cache_size).                                        *)
THEOREM Cleared == Spec => []BufferFits
  <1>1. IInv => BufferFits
    BY DEF IInv, Buffered, BufferFits
  <1> QED
    BY <1>1, Holds, PTL

(* The array holds the kbest smallest samples in order, and fcyc answers   *)
(* the smallest one, also when kbest is more than the samples it may take  *)
(* (add_sample, fcyc.c:68-85; fcyc.c:232).                                 *)
THEOREM Best == Spec => []ValuesAreBest
  <1>1. ASSUME IInv PROVE ValuesAreBest
    <2>1. TypeOK /\ Counted /\ Ordered /\ Tallied /\ Returned
      BY <1>1 DEF IInv
    <2>2. kbest \in Nat \ {0} /\ Numbers \subseteq Int
      BY <2>1, Parameters, FcycAssumption DEF Numbers, FcycAssumption
    <2>3. ASSUME Sampling, NEW k \in 1 .. kbest, k <= samplecount
          PROVE  IsSmallest(values[k], k, taken)
      BY <2>1, <2>2, <2>3, SmallestFirst
    <2> QED
      BY <2>1, <2>3 DEF ValuesAreBest, Returned, Sampling
  <1> QED
    BY <1>1, Holds, PTL

(* fcyc stops when the kbest smallest samples agree within epsilon, and    *)
(* else not before there are maxsamples (has_converged, fcyc.c:87-93).     *)
THEOREM Converges == Spec => []StopsWhenConverged
  <1>1. IInv => StopsWhenConverged
    BY DEF IInv, Returned, StopsWhenConverged
  <1> QED
    BY <1>1, Holds, PTL
=============================================================================
