----------------------- MODULE ThreadSafeCacheProofs -----------------------
(***************************************************************************)
(* For any threads, caches, keys and capacities: map and list agree, the   *)
(* list keeps to its capacity, and what is evicted is what was used before *)
(* all the rest.                                                           *)
(***************************************************************************)
EXTENDS ThreadSafeCache, TLAPS, FiniteSetTheorems, SequenceTheorems

-----------------------------------------------------------------------------
(* Lists of keys.                                                          *)

\* s is how t begins, element by element.
Begins(s, t) == Len(s) <= Len(t) /\ \A i \in 1 .. Len(s) : s[i] = t[i]

LEMMA BeginsIsPrefix ==
  ASSUME NEW s \in Seq(Key), NEW t \in Seq(Key), Begins(s, t)
  PROVE  IsPrefix(s, t)
<1>1. Len(s) \in Nat /\ Len(t) \in Nat /\ Len(s) <= Len(t)
  BY DEF Begins
<1>2. \A i \in 1 .. Len(s) : s[i] \in Key /\ t[i] \in Key
  BY <1>1
<1> DEFINE n == Len(s)
           u == SubSeq(s, 1, n)
           v == SubSeq(t, 1, n)
<1>3. n \in Nat /\ \A i \in 1 .. n : s[i] \in Key /\ t[i] \in Key /\ s[i] = t[i]
  BY <1>1, <1>2 DEF Begins
<1> HIDE DEF n
<1>4. /\ u \in Seq(Key) /\ v \in Seq(Key) /\ Len(u) = n /\ Len(v) = n
      /\ \A i \in 1 .. n : u[i] = s[i] /\ v[i] = t[i]
  <2>1. /\ u \in Seq(Key) /\ Len(u) = IF 1 <= n THEN n - 1 + 1 ELSE 0
        /\ \A i \in 1 .. n - 1 + 1 : u[i] = s[1 + i - 1]
    BY <1>3, SubSeqProperties
  <2>2. /\ v \in Seq(Key) /\ Len(v) = IF 1 <= n THEN n - 1 + 1 ELSE 0
        /\ \A i \in 1 .. n - 1 + 1 : v[i] = t[1 + i - 1]
    BY <1>3, SubSeqProperties
  <2>3. n - 1 + 1 = n /\ (IF 1 <= n THEN n - 1 + 1 ELSE 0) = n /\ \A i \in 1 .. n : 1 + i - 1 = i
    BY <1>3
  <2> HIDE DEF u, v
  <2> QED BY <2>1, <2>2, <2>3
<1> HIDE DEF u, v
<1>5. u = v
  BY <1>3, <1>4, SeqEqual
<1> QED BY <1>1, <1>5 DEF IsPrefix, u, v, n

\* A list without its i-th element.
LEMMA Removed ==
  ASSUME NEW s \in Seq(Key), NEW i \in 1 .. Len(s)
  PROVE  /\ RemoveAt(s, i) \in Seq(Key)
         /\ Len(RemoveAt(s, i)) = Len(s) - 1
         /\ \A j \in 1 .. Len(s) - 1 : RemoveAt(s, i)[j] = IF j < i THEN s[j] ELSE s[j + 1]
<1> DEFINE n == Len(s)
           a == SubSeq(s, 1, i - 1)
           b == SubSeq(s, i + 1, n)
<1>1. n \in Nat /\ i \in 1 .. n /\ \A j \in 1 .. n : s[j] \in Key
  OBVIOUS
<1> HIDE DEF n
<1>2. /\ a \in Seq(Key) /\ Len(a) = i - 1
      /\ \A j \in 1 .. i - 1 : a[j] = s[j]
  <2> DEFINE m == i - 1
  <2>1. m \in Nat /\ \A j \in 1 .. m : s[j] \in Key
    BY <1>1
  <2> HIDE DEF m
  <2>2. /\ SubSeq(s, 1, m) \in Seq(Key)
        /\ Len(SubSeq(s, 1, m)) = IF 1 <= m THEN m - 1 + 1 ELSE 0
        /\ \A j \in 1 .. m - 1 + 1 : SubSeq(s, 1, m)[j] = s[1 + j - 1]
    BY <2>1, SubSeqProperties
  <2>3. /\ SubSeq(s, 1, m) \in Seq(Key)
        /\ Len(SubSeq(s, 1, m)) = m
        /\ \A j \in 1 .. m : SubSeq(s, 1, m)[j] = s[j]
    BY <2>1, <2>2
  <2> QED BY <2>3 DEF m
<1>3. /\ b \in Seq(Key) /\ Len(b) = n - i
      /\ \A j \in 1 .. n - i : b[j] = s[i + j]
  <2> DEFINE m == i + 1
  <2>1. m \in Int /\ m <= n + 1 /\ m = i + 1 /\ \A j \in m .. n : s[j] \in Key
    BY <1>1
  <2> HIDE DEF m
  <2>2. /\ SubSeq(s, m, n) \in Seq(Key)
        /\ Len(SubSeq(s, m, n)) = IF m <= n THEN n - m + 1 ELSE 0
        /\ \A j \in 1 .. n - m + 1 : SubSeq(s, m, n)[j] = s[m + j - 1]
    BY <1>1, <2>1, SubSeqProperties
  <2>3. /\ SubSeq(s, m, n) \in Seq(Key)
        /\ Len(SubSeq(s, m, n)) = n - i
        /\ \A j \in 1 .. n - i : SubSeq(s, m, n)[j] = s[i + j]
    BY <1>1, <2>1, <2>2
  <2> QED BY <2>3 DEF m
<1> HIDE DEF a, b
<1>4. /\ a \o b \in Seq(Key) /\ Len(a \o b) = Len(a) + Len(b)
      /\ \A j \in 1 .. Len(a) + Len(b) : (a \o b)[j] = IF j <= Len(a) THEN a[j] ELSE b[j - Len(a)]
  BY <1>2, <1>3, ConcatProperties
<1>5. /\ Len(a \o b) = n - 1
      /\ \A j \in 1 .. n - 1 : (a \o b)[j] = IF j < i THEN s[j] ELSE s[j + 1]
  <2>1. Len(a) + Len(b) = n - 1
    BY <1>1, <1>2, <1>3
  <2>2. ASSUME NEW j \in 1 .. n - 1
        PROVE  (a \o b)[j] = IF j < i THEN s[j] ELSE s[j + 1]
    <3>1. (a \o b)[j] = IF j <= i - 1 THEN a[j] ELSE b[j - (i - 1)]
      BY <1>2, <1>4, <2>1
    <3>2. CASE j < i
      <4>1. j \in 1 .. i - 1
        BY <1>1, <3>2
      <4> QED BY <1>2, <3>1, <3>2, <4>1
    <3>3. CASE ~(j < i)
      <4>1. j - (i - 1) \in 1 .. n - i /\ i + (j - (i - 1)) = j + 1
        BY <1>1, <3>3
      <4>2. b[j - (i - 1)] = s[j + 1]
        BY <1>3, <4>1
      <4> QED BY <1>1, <3>1, <3>3, <4>2
    <3> QED BY <3>2, <3>3
  <2> QED BY <1>4, <2>1, <2>2
<1> QED BY <1>4, <1>5 DEF RemoveAt, a, b, n

\* A list with a key put in front.
LEMMA Fronted ==
  ASSUME NEW s \in Seq(Key), NEW k \in Key
  PROVE  /\ <<k>> \o s \in Seq(Key)
         /\ Len(<<k>> \o s) = Len(s) + 1
         /\ \A j \in 1 .. Len(s) + 1 : (<<k>> \o s)[j] = IF j = 1 THEN k ELSE s[j - 1]
<1> DEFINE f == <<k>>
           n == Len(s)
<1>1. f \in Seq(Key) /\ Len(f) = 1 /\ f[1] = k /\ n \in Nat
  OBVIOUS
<1>2. /\ f \o s \in Seq(Key) /\ Len(f \o s) = Len(f) + n
      /\ \A j \in 1 .. Len(f) + n : (f \o s)[j] = IF j <= Len(f) THEN f[j] ELSE s[j - Len(f)]
  <2> HIDE DEF f
  <2> QED BY <1>1, ConcatProperties
<1> HIDE DEF f, n
<1>3. Len(f \o s) = n + 1 /\ \A j \in 1 .. n + 1 : (f \o s)[j] = IF j <= 1 THEN f[j] ELSE s[j - 1]
  BY <1>1, <1>2
<1>4. \A j \in 1 .. n + 1 : (f \o s)[j] = IF j = 1 THEN k ELSE s[j - 1]
  BY <1>1, <1>3
<1> QED BY <1>2, <1>3, <1>4 DEF f, n

\* The domain of a list.
LEMMA Domain ==
  ASSUME NEW s \in Seq(Key)
  PROVE  /\ DOMAIN s = 1 .. Len(s) /\ Len(s) \in Nat
         /\ \A i \in 1 .. Len(s) : s[i] \in Key
         /\ \A x : x \in ToSet(s) <=> \E i \in 1 .. Len(s) : s[i] = x
BY DEF ToSet

\* Which entry is dropped, where each key has one.
LEMMA WithoutIs ==
  ASSUME NEW s \in Seq(Key), IsInjective(s), NEW k
  PROVE  /\ k \notin ToSet(s) => Without(s, k) = s
         /\ \A i \in 1 .. Len(s) : s[i] = k => Without(s, k) = RemoveAt(s, i)
<1>1. k \notin ToSet(s) => Without(s, k) = s
  BY DEF Without
<1>2. ASSUME NEW i \in 1 .. Len(s), s[i] = k
      PROVE  Without(s, k) = RemoveAt(s, i)
  <2>1. i \in DOMAIN s /\ \A j \in DOMAIN s : s[j] = k => j = i
    BY <1>2, Domain DEF IsInjective
  <2>2. (CHOOSE j \in DOMAIN s : s[j] = k) = i
    BY <1>2, <2>1
  <2>3. k \in ToSet(s)
    BY <1>2, Domain
  <2> QED BY <2>2, <2>3 DEF Without
<1> QED BY <1>1, <1>2

\* Without a key the others are left, each once.
LEMMA WithoutKeys ==
  ASSUME NEW s \in Seq(Key), IsInjective(s), NEW k
  PROVE  /\ Without(s, k) \in Seq(Key) /\ IsInjective(Without(s, k))
         /\ ToSet(Without(s, k)) = ToSet(s) \ {k}
         /\ Len(Without(s, k)) <= Len(s)
         /\ k \in ToSet(s) => Len(Without(s, k)) = Len(s) - 1
<1>1. CASE k \notin ToSet(s)
  BY <1>1, WithoutIs, Domain
<1>2. ASSUME NEW i \in 1 .. Len(s), s[i] = k
      PROVE  /\ Without(s, k) \in Seq(Key) /\ IsInjective(Without(s, k))
             /\ ToSet(Without(s, k)) = ToSet(s) \ {k}
             /\ Len(Without(s, k)) = Len(s) - 1
  <2> DEFINE r == Without(s, k)
             n == Len(s)
  <2>1. r = RemoveAt(s, i)
    BY <1>2, WithoutIs
  <2>2. /\ r \in Seq(Key) /\ Len(r) = n - 1 /\ n \in Nat
        /\ \A j \in 1 .. n - 1 : r[j] = IF j < i THEN s[j] ELSE s[j + 1]
    <3>1. n \in Nat
      BY Domain
    <3> QED BY <1>2, <2>1, <3>1, Removed
  <2>3. \A x : x \in ToSet(r) <=> \E j \in 1 .. n - 1 : r[j] = x
    BY <2>2, Domain
  <2>4. \A x : x \in ToSet(s) <=> \E j \in 1 .. n : s[j] = x
    BY Domain
  <2>5. \A a, b \in 1 .. n : s[a] = s[b] => a = b
    BY Domain DEF IsInjective
  <2>6. DOMAIN r = 1 .. n - 1
    BY <2>2, Domain
  <2>7. i \in 1 .. n
    OBVIOUS
  <2> HIDE DEF r, n
  <2>8. IsInjective(r)
    <3> SUFFICES ASSUME NEW a \in 1 .. n - 1, NEW b \in 1 .. n - 1, r[a] = r[b]
                 PROVE  a = b
      BY <2>6 DEF IsInjective
    <3>1. PICK c \in 1 .. n : r[a] = s[c] /\ c = IF a < i THEN a ELSE a + 1
      BY <2>2, <2>7
    <3>2. PICK d \in 1 .. n : r[b] = s[d] /\ d = IF b < i THEN b ELSE b + 1
      BY <2>2, <2>7
    <3>3. c = d
      BY <2>5, <3>1, <3>2
    <3> QED BY <2>2, <2>7, <3>1, <3>2, <3>3
  <2>9. ASSUME NEW x PROVE x \in ToSet(r) <=> x \in ToSet(s) /\ x # k
    <3>1. ASSUME NEW j \in 1 .. n - 1, r[j] = x
          PROVE  x \in ToSet(s) /\ x # k
      <4>1. PICK c \in 1 .. n : x = s[c] /\ c # i
        <5>1. CASE j < i
          <6>1. j \in 1 .. n /\ j # i
            BY <2>2, <5>1
          <6> QED BY <2>2, <3>1, <5>1, <6>1
        <5>2. CASE ~(j < i)
          <6>1. j + 1 \in 1 .. n /\ j + 1 # i
            BY <2>2, <2>7, <5>2
          <6> QED BY <2>2, <3>1, <5>2, <6>1
        <5> QED BY <5>1, <5>2
      <4> QED BY <1>2, <2>4, <2>5, <2>7, <4>1
    <3>2. ASSUME NEW c \in 1 .. n, s[c] = x, x # k
          PROVE  x \in ToSet(r)
      <4>1. c # i
        BY <1>2, <3>2
      <4>2. PICK j \in 1 .. n - 1 : r[j] = s[c]
        <5>1. CASE c < i
          <6>1. c \in 1 .. n - 1
            BY <2>2, <2>7, <5>1
          <6> QED BY <2>2, <5>1, <6>1
        <5>2. CASE c > i
          <6>1. c - 1 \in 1 .. n - 1 /\ ~(c - 1 < i) /\ c - 1 + 1 = c
            BY <2>2, <2>7, <5>2
          <6> QED BY <2>2, <6>1
        <5> QED BY <2>2, <2>7, <4>1, <5>1, <5>2
      <4> QED BY <2>3, <3>2, <4>2
    <3> QED BY <2>3, <2>4, <3>1, <3>2
  <2> QED BY <2>2, <2>8, <2>9 DEF r, n
<1>3. k \in ToSet(s) => \E i \in 1 .. Len(s) : s[i] = k
  BY Domain
<1> QED BY <1>1, <1>2, <1>3, Domain

\* A list that begins another still does, when both lose a key,
LEMMA WithoutBegins ==
  ASSUME NEW s \in Seq(Key), NEW t \in Seq(Key), Begins(s, t), IsInjective(s), IsInjective(t), NEW k
  PROVE  Begins(Without(s, k), Without(t, k))
<1> DEFINE m == Len(s)
           n == Len(t)
<1>1. /\ m \in Nat /\ n \in Nat /\ m <= n
      /\ \A i \in 1 .. m : s[i] = t[i]
  BY Domain DEF Begins
<1>2. ASSUME NEW i \in 1 .. m, s[i] = k
      PROVE  Begins(Without(s, k), Without(t, k))
  <2>1. i \in 1 .. n /\ t[i] = k
    BY <1>1, <1>2
  <2>2. Without(s, k) = RemoveAt(s, i) /\ Without(t, k) = RemoveAt(t, i)
    BY <1>2, <2>1, WithoutIs
  <2>3. /\ Len(RemoveAt(s, i)) = m - 1
        /\ \A j \in 1 .. m - 1 : RemoveAt(s, i)[j] = IF j < i THEN s[j] ELSE s[j + 1]
    BY <1>2, Removed
  <2>4. /\ Len(RemoveAt(t, i)) = n - 1
        /\ \A j \in 1 .. n - 1 : RemoveAt(t, i)[j] = IF j < i THEN t[j] ELSE t[j + 1]
    BY <2>1, Removed
  <2> HIDE DEF m, n
  <2>5. \A j \in 1 .. m - 1 : RemoveAt(s, i)[j] = RemoveAt(t, i)[j]
    BY <1>1, <2>3, <2>4
  <2> QED BY <1>1, <2>2, <2>3, <2>4, <2>5 DEF Begins
<1>3. ASSUME NEW i \in 1 .. n, t[i] = k, k \notin ToSet(s)
      PROVE  Begins(Without(s, k), Without(t, k))
  <2>1. Without(s, k) = s /\ Without(t, k) = RemoveAt(t, i)
    BY <1>3, WithoutIs
  <2>2. /\ Len(RemoveAt(t, i)) = n - 1
        /\ \A j \in 1 .. n - 1 : RemoveAt(t, i)[j] = IF j < i THEN t[j] ELSE t[j + 1]
    BY <1>3, Removed
  <2>3. i > m
    BY <1>1, <1>3, Domain
  <2> HIDE DEF m, n
  <2>4. \A j \in 1 .. m : j \in 1 .. n - 1 /\ j < i
    BY <1>1, <1>3, <2>3
  <2>5. \A j \in 1 .. m : s[j] = RemoveAt(t, i)[j]
    BY <1>1, <2>2, <2>4
  <2>6. m <= n - 1
    BY <1>1, <1>3, <2>3
  <2> QED BY <2>1, <2>2, <2>5, <2>6 DEF Begins, m
<1>4. CASE k \notin ToSet(t) /\ k \notin ToSet(s)
  BY <1>4, WithoutIs
<1> QED BY <1>2, <1>3, <1>4, Domain

\* and when both get one in front.
LEMMA FrontBegins ==
  ASSUME NEW s \in Seq(Key), NEW t \in Seq(Key), Begins(s, t), NEW k \in Key
  PROVE  Begins(<<k>> \o s, <<k>> \o t)
<1> DEFINE m == Len(s)
           n == Len(t)
           u == <<k>> \o s
           v == <<k>> \o t
<1>1. m \in Nat /\ n \in Nat /\ m <= n /\ \A i \in 1 .. m : s[i] = t[i]
  BY DEF Begins
<1>2. /\ Len(u) = m + 1 /\ \A j \in 1 .. m + 1 : u[j] = IF j = 1 THEN k ELSE s[j - 1]
      /\ Len(v) = n + 1 /\ \A j \in 1 .. n + 1 : v[j] = IF j = 1 THEN k ELSE t[j - 1]
  BY Fronted
<1> HIDE DEF m, n, u, v
<1>3. ASSUME NEW j \in 1 .. m + 1 PROVE u[j] = v[j]
  <2>1. j \in 1 .. n + 1 /\ (j # 1 => j - 1 \in 1 .. m)
    BY <1>1
  <2> QED BY <1>1, <1>2, <2>1
<1>4. m + 1 <= n + 1
  BY <1>1
<1> QED BY <1>2, <1>3, <1>4 DEF Begins, u, v

\* A key that is new goes in front.
LEMMA FrontKeys ==
  ASSUME NEW s \in Seq(Key), IsInjective(s), NEW k \in Key, k \notin ToSet(s)
  PROVE  /\ <<k>> \o s \in Seq(Key) /\ IsInjective(<<k>> \o s)
         /\ ToSet(<<k>> \o s) = ToSet(s) \cup {k}
         /\ Len(<<k>> \o s) = Len(s) + 1
<1> DEFINE n == Len(s)
           u == <<k>> \o s
<1>1. /\ n \in Nat /\ \A x : x \in ToSet(s) <=> \E i \in 1 .. n : s[i] = x
      /\ \A a, b \in 1 .. n : s[a] = s[b] => a = b
  BY Domain DEF IsInjective
<1>2. u \in Seq(Key) /\ Len(u) = n + 1 /\ \A j \in 1 .. n + 1 : u[j] = IF j = 1 THEN k ELSE s[j - 1]
  BY Fronted
<1> HIDE DEF n, u
<1>3. DOMAIN u = 1 .. n + 1 /\ \A x : x \in ToSet(u) <=> \E i \in 1 .. n + 1 : u[i] = x
  BY <1>2, Domain
<1>4. \A j \in 1 .. n + 1 : j = 1 \/ (j - 1 \in 1 .. n /\ u[j] = s[j - 1] /\ u[j] # k)
  BY <1>1, <1>2
<1>5. IsInjective(u)
  <2> SUFFICES ASSUME NEW a \in 1 .. n + 1, NEW b \in 1 .. n + 1, u[a] = u[b] PROVE a = b
    BY <1>3 DEF IsInjective
  <2>1. u[1] = k /\ 1 \in 1 .. n + 1
    BY <1>1, <1>2
  <2>2. a # 1 /\ b # 1 => a - 1 = b - 1
    BY <1>1, <1>4
  <2> QED BY <1>1, <1>4, <2>1, <2>2
<1>6. ASSUME NEW x PROVE x \in ToSet(u) <=> x \in ToSet(s) \/ x = k
  <2>1. u[1] = k /\ 1 \in 1 .. n + 1
    BY <1>1, <1>2
  <2>2. \A i \in 1 .. n : i + 1 \in 1 .. n + 1 /\ u[i + 1] = s[i]
    BY <1>1, <1>2
  <2>3. x \in ToSet(s) \/ x = k => x \in ToSet(u)
    BY <1>1, <1>3, <2>1, <2>2
  <2>4. ASSUME NEW j \in 1 .. n + 1, u[j] = x PROVE x \in ToSet(s) \/ x = k
    BY <1>1, <1>4, <2>1, <2>4
  <2> QED BY <1>3, <2>3, <2>4
<1> QED BY <1>2, <1>5, <1>6 DEF n, u

\* What begins a list of distinct keys has distinct keys, all of that list.
LEMMA BeginsKeys ==
  ASSUME NEW s \in Seq(Key), NEW t \in Seq(Key), Begins(s, t), IsInjective(t)
  PROVE  IsInjective(s) /\ ToSet(s) \subseteq ToSet(t)
<1>1. /\ Len(s) \in Nat /\ Len(t) \in Nat
      /\ \A i \in 1 .. Len(s) : i \in 1 .. Len(t) /\ s[i] = t[i]
  BY Domain DEF Begins
<1>2. IsInjective(s)
  BY <1>1, Domain DEF IsInjective
<1>3. ToSet(s) \subseteq ToSet(t)
  <2> SUFFICES ASSUME NEW x \in ToSet(s) PROVE x \in ToSet(t)
    OBVIOUS
  <2>1. PICK i \in 1 .. Len(s) : s[i] = x
    BY Domain
  <2> QED BY <1>1, <2>1, Domain
<1> QED BY <1>2, <1>3

\* There are as many keys as entries, each key having one.
LEMMA CountedKeys ==
  ASSUME NEW s \in Seq(Key), IsInjective(s)
  PROVE  Cardinality(ToSet(s)) = Len(s)
<1>1. DOMAIN s = 1 .. Len(s) /\ Len(s) \in Nat
  BY Domain
<1>2. s \in [1 .. Len(s) -> ToSet(s)]
  BY <1>1 DEF ToSet
<1>3. s \in Bijection(1 .. Len(s), ToSet(s))
  BY <1>1, <1>2 DEF Bijection, Injection, Surjection, IsInjective, ToSet
<1>4. ExistsBijection(1 .. Len(s), ToSet(s))
  BY <1>3 DEF ExistsBijection
<1> QED BY <1>1, <1>4, FS_CountingElements

-----------------------------------------------------------------------------
(* One cache.                                                              *)

\* A map i and a list l that agree, within capacity cap; the list is how the
\* list r of all keys in the order of their last use begins.
Shelf(i, l, r, cap) ==
  /\ l \in Seq(Key) /\ IsInjective(l)
  /\ r \in Seq(Key) /\ IsInjective(r)
  /\ Begins(l, r)
  /\ i = ToSet(l)
  /\ cap \in Nat /\ (cap # 0 => Len(l) <= cap)

\* The room that is made is less than the capacity, if there is one.
LEMMA RoomLeft ==
  ASSUME NEW cap \in Nat
  PROVE  /\ Room(0, cap) \in Nat /\ (cap # 0 => Room(0, cap) + 1 <= cap)
         /\ Room(cap, cap) \in Nat /\ (cap # 0 => Room(cap, cap) = cap)
<1>1. SizeT \in Nat \ {0}
  <2>1. Cardinality(Key) \in Nat
    BY CacheAssumption, FS_CardinalityType
  <2> QED BY <2>1, CacheAssumption
<1>2. \A y \in Int : y % SizeT \in Nat
  BY <1>1
<1>3. \A y \in Nat : (y + SizeT) % SizeT <= y
  BY <1>1
<1>4. cap # 0 => cap - 1 \in Nat /\ cap + SizeT - 1 = (cap - 1) + SizeT
  BY <1>1
<1>5. Room(0, cap) = (cap + SizeT - 1) % SizeT
  BY DEF Room
<1>6. Room(0, cap) \in Nat
  BY <1>1, <1>2, <1>5
<1>7. ASSUME cap # 0 PROVE Room(0, cap) <= cap - 1
  BY <1>3, <1>4, <1>5, <1>7
<1>8. Room(cap, cap) \in Nat /\ (cap # 0 => Room(cap, cap) = cap)
  BY <1>6 DEF Room
<1> QED BY <1>6, <1>7, <1>8

\* What shrinking keeps is how the list began, as long as there is room.
LEMMA KeptBegins ==
  ASSUME NEW c \in Cache, NEW room \in Nat,
         Shelf(index[c], list[c], recent[c], capacity[c])
  PROVE  /\ Kept(c, room) \in Seq(Key) /\ Len(Kept(c, room)) <= room
         /\ Begins(Kept(c, room), list[c])
<1> DEFINE l == list[c]
           n == Len(l)
<1>1. l \in Seq(Key) /\ n \in Nat /\ Cardinality(index[c]) = n
  BY CountedKeys DEF Shelf
<1>2. \A i \in 1 .. n : l[i] \in Key
  BY <1>1, Domain
<1>3. Kept(c, room) = IF n - room > 0 THEN SubSeq(l, 1, n - (n - room)) ELSE l
  BY <1>1 DEF Kept
<1> HIDE DEF n, l
<1>4. CASE n - room > 0
  <2>1. Kept(c, room) = SubSeq(l, 1, room) /\ room < n
    BY <1>1, <1>3, <1>4
  <2>2. \A i \in 1 .. room : i \in 1 .. n /\ l[i] \in Key
    BY <1>1, <1>2, <2>1
  <2>3. /\ SubSeq(l, 1, room) \in Seq(Key)
        /\ Len(SubSeq(l, 1, room)) = IF 1 <= room THEN room - 1 + 1 ELSE 0
        /\ \A i \in 1 .. room - 1 + 1 : SubSeq(l, 1, room)[i] = l[1 + i - 1]
    BY <2>2, SubSeqProperties
  <2>4. /\ Len(SubSeq(l, 1, room)) = room
        /\ \A i \in 1 .. room : SubSeq(l, 1, room)[i] = l[i]
    BY <2>3
  <2> QED BY <1>1, <2>1, <2>3, <2>4 DEF Begins, l, n
<1>5. CASE ~(n - room > 0)
  BY <1>1, <1>3, <1>5 DEF Begins, l, n
<1> QED BY <1>4, <1>5

\* So it is how the list of all keys began.
LEMMA KeptShelf ==
  ASSUME NEW c \in Cache, NEW room \in Nat,
         Shelf(index[c], list[c], recent[c], capacity[c])
  PROVE  /\ Kept(c, room) \in Seq(Key) /\ IsInjective(Kept(c, room))
         /\ Len(Kept(c, room)) <= room
         /\ Begins(Kept(c, room), recent[c])
         /\ index[c] \ (ToSet(list[c]) \ ToSet(Kept(c, room))) = ToSet(Kept(c, room))
<1>1. /\ Kept(c, room) \in Seq(Key) /\ Len(Kept(c, room)) <= room
      /\ Begins(Kept(c, room), list[c])
  BY KeptBegins
<1>2. IsInjective(Kept(c, room)) /\ ToSet(Kept(c, room)) \subseteq ToSet(list[c])
  BY <1>1, BeginsKeys DEF Shelf
<1>3. Begins(Kept(c, room), recent[c])
  <2>1. Len(Kept(c, room)) \in Nat /\ Len(list[c]) \in Nat /\ Len(recent[c]) \in Nat
    BY <1>1 DEF Shelf
  <2> QED BY <1>1, <2>1 DEF Shelf, Begins
<1> QED BY <1>1, <1>2, <1>3 DEF Shelf

\* A key that was missing is inserted.
LEMMA InsertShelf ==
  ASSUME NEW c \in Cache, NEW k \in Key, k \notin index[c],
         Shelf(index[c], list[c], recent[c], capacity[c])
  PROVE  LET kept == Kept(c, Room(0, capacity[c]))
         IN  Shelf((index[c] \ (ToSet(list[c]) \ ToSet(kept))) \cup {k}, <<k>> \o kept,
                   <<k>> \o Without(recent[c], k), capacity[c])
<1> DEFINE room == Room(0, capacity[c])
           kept == Kept(c, room)
           r == recent[c]
<1>1. /\ capacity[c] \in Nat /\ room \in Nat /\ (capacity[c] # 0 => room + 1 <= capacity[c])
      /\ r \in Seq(Key) /\ IsInjective(r)
  BY RoomLeft DEF Shelf
<1> HIDE DEF room
<1>2. /\ kept \in Seq(Key) /\ IsInjective(kept) /\ Len(kept) <= room /\ Begins(kept, r)
      /\ index[c] \ (ToSet(list[c]) \ ToSet(kept)) = ToSet(kept)
  BY <1>1, KeptShelf
<1>3. k \notin ToSet(kept)
  BY <1>2
<1> HIDE DEF kept, r
<1>4. Without(kept, k) = kept
  BY <1>2, <1>3, WithoutIs
<1>5. Begins(kept, Without(r, k))
  BY <1>1, <1>2, <1>4, WithoutBegins
<1>6. /\ Without(r, k) \in Seq(Key) /\ IsInjective(Without(r, k))
      /\ ToSet(Without(r, k)) = ToSet(r) \ {k}
  BY <1>1, WithoutKeys
<1>7. Begins(<<k>> \o kept, <<k>> \o Without(r, k))
  BY <1>2, <1>5, <1>6, FrontBegins
<1>8. /\ <<k>> \o kept \in Seq(Key) /\ IsInjective(<<k>> \o kept)
      /\ ToSet(<<k>> \o kept) = ToSet(kept) \cup {k}
      /\ Len(<<k>> \o kept) = Len(kept) + 1
  BY <1>2, <1>3, FrontKeys
<1>9. /\ <<k>> \o Without(r, k) \in Seq(Key) /\ IsInjective(<<k>> \o Without(r, k))
  BY <1>6, FrontKeys
<1>10. capacity[c] # 0 => Len(<<k>> \o kept) <= capacity[c]
  <2>1. Len(kept) \in Nat
    BY <1>2
  <2> QED BY <1>1, <1>2, <1>8, <2>1
<1> QED BY <1>1, <1>2, <1>7, <1>8, <1>9, <1>10 DEF Shelf, room, kept, r

\* A key that is there is used.
LEMMA TouchShelf ==
  ASSUME NEW c \in Cache, NEW k \in Key, k \in index[c],
         Shelf(index[c], list[c], recent[c], capacity[c])
  PROVE  Shelf(index[c], <<k>> \o Without(list[c], k), <<k>> \o Without(recent[c], k), capacity[c])
<1> DEFINE l == list[c]
           r == recent[c]
           lk == Without(l, k)
           rk == Without(r, k)
<1>1. /\ l \in Seq(Key) /\ IsInjective(l) /\ r \in Seq(Key) /\ IsInjective(r)
      /\ Begins(l, r) /\ k \in ToSet(l) /\ index[c] = ToSet(l) /\ capacity[c] \in Nat
      /\ capacity[c] # 0 => Len(l) <= capacity[c]
  BY DEF Shelf
<1> HIDE DEF l, r
<1>2. /\ lk \in Seq(Key) /\ IsInjective(lk) /\ ToSet(lk) = ToSet(l) \ {k}
      /\ Len(lk) = Len(l) - 1
  BY <1>1, WithoutKeys
<1>3. rk \in Seq(Key) /\ IsInjective(rk) /\ ToSet(rk) = ToSet(r) \ {k}
  BY <1>1, WithoutKeys
<1>4. Begins(lk, rk)
  BY <1>1, WithoutBegins
<1> HIDE DEF lk, rk
<1>5. Begins(<<k>> \o lk, <<k>> \o rk)
  BY <1>2, <1>3, <1>4, FrontBegins
<1>6. /\ <<k>> \o lk \in Seq(Key) /\ IsInjective(<<k>> \o lk)
      /\ ToSet(<<k>> \o lk) = ToSet(lk) \cup {k} /\ Len(<<k>> \o lk) = Len(lk) + 1
  BY <1>2, FrontKeys
<1>7. <<k>> \o rk \in Seq(Key) /\ IsInjective(<<k>> \o rk)
  BY <1>3, FrontKeys
<1>8. ToSet(<<k>> \o lk) = ToSet(l)
  BY <1>1, <1>2, <1>6
<1>9. Len(<<k>> \o lk) = Len(l)
  <2>1. Len(l) \in Nat
    BY <1>1
  <2> QED BY <1>2, <1>6, <2>1
<1> QED BY <1>1, <1>5, <1>6, <1>7, <1>8, <1>9 DEF Shelf, lk, rk, l, r

\* A key is removed,
LEMMA RemoveShelf ==
  ASSUME NEW c \in Cache, NEW k \in Key,
         Shelf(index[c], list[c], recent[c], capacity[c])
  PROVE  Shelf(index[c] \ {k}, Without(list[c], k), Without(recent[c], k), capacity[c])
<1>1. /\ list[c] \in Seq(Key) /\ IsInjective(list[c])
      /\ recent[c] \in Seq(Key) /\ IsInjective(recent[c]) /\ Begins(list[c], recent[c])
  BY DEF Shelf
<1>2. /\ Without(list[c], k) \in Seq(Key) /\ IsInjective(Without(list[c], k))
      /\ ToSet(Without(list[c], k)) = ToSet(list[c]) \ {k}
      /\ Len(Without(list[c], k)) <= Len(list[c])
  BY <1>1, WithoutKeys
<1>3. Without(recent[c], k) \in Seq(Key) /\ IsInjective(Without(recent[c], k))
  BY <1>1, WithoutKeys
<1>4. Begins(Without(list[c], k), Without(recent[c], k))
  BY <1>1, WithoutBegins
<1>5. Len(list[c]) \in Nat /\ Len(Without(list[c], k)) \in Nat
  BY <1>1, <1>2
<1> QED BY <1>2, <1>3, <1>4, <1>5 DEF Shelf

\* or all of them are.
LEMMA EmptyShelf ==
  ASSUME NEW cap \in Nat
  PROVE  Shelf({}, <<>>, <<>>, cap)
<1>1. <<>> \in Seq(Key) /\ Len(<<>>) = 0 /\ DOMAIN <<>> = {}
  OBVIOUS
<1>2. IsInjective(<<>>) /\ ToSet(<<>>) = {}
  BY <1>1 DEF IsInjective, ToSet
<1>3. Begins(<<>>, <<>>)
  BY <1>1 DEF Begins
<1> QED BY <1>1, <1>2, <1>3 DEF Shelf

\* The capacity is another one.
LEMMA ResetShelf ==
  ASSUME NEW c \in Cache, NEW n \in Nat,
         Shelf(index[c], list[c], recent[c], capacity[c])
  PROVE  LET kept == Kept(c, Room(n, n))
         IN  Shelf(index[c] \ (ToSet(list[c]) \ ToSet(kept)), kept, recent[c], n)
<1> DEFINE room == Room(n, n)
           kept == Kept(c, room)
<1>1. room \in Nat /\ (n # 0 => room = n)
  BY RoomLeft
<1> HIDE DEF room
<1>2. /\ kept \in Seq(Key) /\ IsInjective(kept) /\ Len(kept) <= room
      /\ Begins(kept, recent[c])
      /\ index[c] \ (ToSet(list[c]) \ ToSet(kept)) = ToSet(kept)
  BY <1>1, KeptShelf
<1>3. recent[c] \in Seq(Key) /\ IsInjective(recent[c])
  BY DEF Shelf
<1> QED BY <1>1, <1>2, <1>3 DEF Shelf, room, kept

-----------------------------------------------------------------------------
(* All caches.                                                             *)

Shelved ==
  /\ index \in [Cache -> SUBSET Key] /\ list \in [Cache -> Seq(Key)]
  /\ capacity \in [Cache -> Nat] /\ recent \in [Cache -> Seq(Key)]
  /\ \A c \in Cache : Shelf(index[c], list[c], recent[c], capacity[c])

\* An operation changes one cache.
LEMMA ChangeOne ==
  ASSUME Shelved, NEW c \in Cache, NEW i, NEW l, NEW r, NEW cap, Shelf(i, l, r, cap),
         index' = [index EXCEPT ![c] = i], list' = [list EXCEPT ![c] = l],
         recent' = [recent EXCEPT ![c] = r], capacity' = [capacity EXCEPT ![c] = cap]
  PROVE  Shelved'
<1>1. i \in SUBSET Key /\ l \in Seq(Key) /\ r \in Seq(Key) /\ cap \in Nat
  BY Domain DEF Shelf
<1>2. /\ index' \in [Cache -> SUBSET Key] /\ list' \in [Cache -> Seq(Key)]
      /\ capacity' \in [Cache -> Nat] /\ recent' \in [Cache -> Seq(Key)]
  BY <1>1 DEF Shelved
<1>3. ASSUME NEW d \in Cache PROVE Shelf(index'[d], list'[d], recent'[d], capacity'[d])
  <2>1. CASE d = c
    <3>1. index'[d] = i /\ list'[d] = l /\ recent'[d] = r /\ capacity'[d] = cap
      BY <2>1 DEF Shelved
    <3> QED BY <3>1
  <2>2. CASE d # c
    <3>1. /\ index'[d] = index[d] /\ list'[d] = list[d]
          /\ recent'[d] = recent[d] /\ capacity'[d] = capacity[d]
      BY <2>2 DEF Shelved
    <3> QED BY <3>1 DEF Shelved
  <2> QED BY <2>1, <2>2
<1> QED BY <1>2, <1>3 DEF Shelved

LEMMA InsertStep ==
  ASSUME Shelved, NEW c \in Cache, NEW k \in Key, k \notin index[c], Insert(c, k)
  PROVE  Shelved'
<1> DEFINE kept == Kept(c, Room(0, capacity[c]))
           i == (index[c] \ (ToSet(list[c]) \ ToSet(kept))) \cup {k}
<1>1. Shelf(i, <<k>> \o kept, <<k>> \o Without(recent[c], k), capacity[c])
  BY InsertShelf DEF Shelved
<1>2. /\ list' = [list EXCEPT ![c] = <<k>> \o kept]
      /\ index' = [index EXCEPT ![c] = i]
      /\ recent' = [recent EXCEPT ![c] = <<k>> \o Without(recent[c], k)]
      /\ capacity' = [capacity EXCEPT ![c] = capacity[c]]
  BY DEF Insert, Used, Shelved
<1> HIDE DEF kept, i
<1> QED BY <1>1, <1>2, ChangeOne

LEMMA TouchStep ==
  ASSUME Shelved, NEW c \in Cache, NEW k \in Key, k \in index[c], Touch(c, k)
  PROVE  Shelved'
<1>1. Shelf(index[c], <<k>> \o Without(list[c], k), <<k>> \o Without(recent[c], k), capacity[c])
  BY TouchShelf DEF Shelved
<1>2. /\ list' = [list EXCEPT ![c] = <<k>> \o Without(list[c], k)]
      /\ index' = [index EXCEPT ![c] = index[c]]
      /\ recent' = [recent EXCEPT ![c] = <<k>> \o Without(recent[c], k)]
      /\ capacity' = [capacity EXCEPT ![c] = capacity[c]]
  BY DEF Touch, ToFront, Used, Shelved
<1> QED BY <1>1, <1>2, ChangeOne

LEMMA RemoveStep ==
  ASSUME Shelved, NEW c \in Cache, NEW k \in Key, RemoveKey(c, k)
  PROVE  Shelved'
<1>1. Shelf(index[c] \ {k}, Without(list[c], k), Without(recent[c], k), capacity[c])
  BY RemoveShelf DEF Shelved
<1>2. /\ list' = [list EXCEPT ![c] = Without(list[c], k)]
      /\ index' = [index EXCEPT ![c] = index[c] \ {k}]
      /\ recent' = [recent EXCEPT ![c] = Without(recent[c], k)]
      /\ capacity' = [capacity EXCEPT ![c] = capacity[c]]
  BY DEF RemoveKey, Shelved
<1> QED BY <1>1, <1>2, ChangeOne

LEMMA ClearStep ==
  ASSUME Shelved, NEW c \in Cache, Clear(c)
  PROVE  Shelved'
<1>1. Shelf({}, <<>>, <<>>, capacity[c])
  BY EmptyShelf DEF Shelved
<1>2. /\ list' = [list EXCEPT ![c] = <<>>]
      /\ index' = [index EXCEPT ![c] = {}]
      /\ recent' = [recent EXCEPT ![c] = <<>>]
      /\ capacity' = [capacity EXCEPT ![c] = capacity[c]]
  BY DEF Clear, Shelved
<1> QED BY <1>1, <1>2, ChangeOne

LEMMA ResetStep ==
  ASSUME Shelved, NEW c \in Cache, NEW n \in Nat, ResetCapacity(c, n)
  PROVE  Shelved'
<1> DEFINE kept == Kept(c, Room(n, n))
           i == index[c] \ (ToSet(list[c]) \ ToSet(kept))
<1>1. Shelf(i, kept, recent[c], n)
  BY ResetShelf DEF Shelved
<1>2. /\ list' = [list EXCEPT ![c] = kept]
      /\ index' = [index EXCEPT ![c] = i]
      /\ recent' = [recent EXCEPT ![c] = recent[c]]
      /\ capacity' = [capacity EXCEPT ![c] = n]
  BY DEF ResetCapacity, Shelved
<1> HIDE DEF kept, i
<1> QED BY <1>1, <1>2, ChangeOne

-----------------------------------------------------------------------------
(* The mutex of each cache.                                                *)

\* A cache is locked by one call of one thread, and the key that it makes is not
\* in the cache.
CacheInv ==
  /\ index \in [Cache -> SUBSET Key]
  /\ making \in [Thread -> Seq(Cache \X Key)]
  /\ \A t, u \in Thread : \A i \in DOMAIN making[t], j \in DOMAIN making[u] :
       /\ making[t][i][2] \notin index[making[t][i][1]]
       /\ making[t][i][1] = making[u][j][1] => t = u /\ i = j

LEMMA LockOne ==
  ASSUME CacheInv, NEW t \in Thread, NEW c \in Cache, NEW k \in Key, LockMissing(t, c, k)
  PROVE  CacheInv'
<1>1. /\ index' = index /\ k \notin index[c]
      /\ making' = [making EXCEPT ![t] = Append(@, <<c, k>>)]
  BY DEF LockMissing
<1>2. making' \in [Thread -> Seq(Cache \X Key)]
  BY <1>1 DEF CacheInv
<1>3. \A u \in Thread : \A i \in DOMAIN making[u] : making[u][i][1] # c
  BY DEF LockMissing, Unlocked, Holders
<1>4. \A u \in Thread : \A i \in DOMAIN making'[u] :
        \/ i \in DOMAIN making[u] /\ making'[u][i] = making[u][i]
        \/ u = t /\ i = Len(making[t]) + 1 /\ making'[u][i] = <<c, k>>
  BY <1>1 DEF CacheInv
<1>5. ASSUME NEW u \in Thread, NEW v \in Thread,
             NEW i \in DOMAIN making'[u], NEW j \in DOMAIN making'[v]
      PROVE  /\ making'[u][i][2] \notin index'[making'[u][i][1]]
             /\ making'[u][i][1] = making'[v][j][1] => u = v /\ i = j
  BY <1>1, <1>3, <1>4 DEF CacheInv
<1> QED BY <1>1, <1>2, <1>5 DEF CacheInv

LEMMA UnlockOne ==
  ASSUME CacheInv, NEW t \in Thread, PutAndRelease(t) \/ Unwind(t)
  PROVE  CacheInv'
<1> DEFINE top == Last(making[t])
<1>1. /\ making[t] # <<>> /\ making[t] \in Seq(Cache \X Key)
      /\ making' = [making EXCEPT ![t] = Front(@)]
  BY DEF PutAndRelease, Unwind, CacheInv
<1>2. /\ Len(making[t]) \in DOMAIN making[t] /\ top = making[t][Len(making[t])]
      /\ top[1] \in Cache /\ top[2] \in Key
  BY <1>1 DEF Last
<1>3. making' \in [Thread -> Seq(Cache \X Key)]
  BY <1>1 DEF CacheInv, Front
<1>4. \A u \in Thread : \A i \in DOMAIN making'[u] :
        /\ i \in DOMAIN making[u] /\ making'[u][i] = making[u][i]
        /\ ~(u = t /\ i = Len(making[t]))
  BY <1>1 DEF CacheInv, Front
<1>5. /\ index' \in [Cache -> SUBSET Key]
      /\ \A c \in Cache : c # top[1] => index'[c] = index[c]
  <2>1. CASE Unwind(t)
    BY <2>1 DEF Unwind, CacheInv
  <2>2. CASE PutAndRelease(t)
    <3>1. PICK less \in SUBSET index[top[1]] :
            index' = [index EXCEPT ![top[1]] = less \cup {top[2]}]
      BY <1>2, <2>2 DEF PutAndRelease, Insert, CacheInv
    <3> QED BY <1>2, <3>1 DEF CacheInv
  <2> QED BY <2>1, <2>2
<1>6. ASSUME NEW u \in Thread, NEW i \in DOMAIN making'[u]
      PROVE  making'[u][i][1] \in Cache /\ making'[u][i][1] # top[1]
  BY <1>2, <1>4 DEF CacheInv
<1>7. ASSUME NEW u \in Thread, NEW v \in Thread,
             NEW i \in DOMAIN making'[u], NEW j \in DOMAIN making'[v]
      PROVE  /\ making'[u][i][2] \notin index'[making'[u][i][1]]
             /\ making'[u][i][1] = making'[v][j][1] => u = v /\ i = j
  <2>1. /\ i \in DOMAIN making[u] /\ making'[u][i] = making[u][i]
        /\ j \in DOMAIN making[v] /\ making'[v][j] = making[v][j]
    BY <1>4
  <2>2. index'[making'[u][i][1]] = index[making[u][i][1]]
    BY <1>5, <1>6, <2>1
  <2> QED BY <2>1, <2>2 DEF CacheInv
<1> QED BY <1>3, <1>5, <1>7 DEF CacheInv

\* A cache that nobody has locked may get a key, any may lose some.
LEMMA MakersStay ==
  ASSUME CacheInv, NEW c \in Cache, making' = making, index' \in [Cache -> SUBSET Key],
         \A d \in Cache : d # c => index'[d] = index[d],
         Unlocked(c) \/ index'[c] \subseteq index[c]
  PROVE  CacheInv'
<1>1. ASSUME NEW t \in Thread, NEW i \in DOMAIN making[t]
      PROVE  making[t][i][2] \notin index'[making[t][i][1]]
  <2>1. making[t][i][1] \in Cache /\ making[t][i][2] \notin index[making[t][i][1]]
    BY DEF CacheInv
  <2>2. CASE making[t][i][1] # c
    BY <2>1, <2>2
  <2>3. CASE making[t][i][1] = c
    BY <2>1, <2>3 DEF Unlocked, Holders
  <2> QED BY <2>2, <2>3
<1> QED BY <1>1 DEF CacheInv

\* Every operation keeps both.
LEMMA CallKeeps ==
  ASSUME Shelved, CacheInv, NEW t \in Thread, CacheCall(t, Cache, Nat)
  PROVE  Shelved' /\ CacheInv'
<1>1. ASSUME NEW c \in Cache, NEW k \in Key, LockMissing(t, c, k)
      PROVE  Shelved' /\ CacheInv'
  <2>1. CacheInv'
    BY <1>1, LockOne
  <2>2. Shelved'
    BY <1>1 DEF LockMissing, Shelved
  <2> QED BY <2>1, <2>2
<1>2. CASE PutAndRelease(t) \/ Unwind(t)
  <2>1. CacheInv'
    BY <1>2, UnlockOne
  <2>2. ASSUME PutAndRelease(t) PROVE Shelved'
    <3>1. /\ Len(making[t]) \in DOMAIN making[t]
          /\ Last(making[t]) = making[t][Len(making[t])]
          /\ Last(making[t]) \in Cache \X Key
      BY <2>2 DEF PutAndRelease, CacheInv, Last
    <3>2. /\ Last(making[t])[1] \in Cache /\ Last(making[t])[2] \in Key
          /\ Last(making[t])[2] \notin index[Last(making[t])[1]]
      BY <3>1 DEF CacheInv
    <3>3. Insert(Last(making[t])[1], Last(making[t])[2])
      BY <2>2 DEF PutAndRelease
    <3> QED BY <3>2, <3>3, InsertStep
  <2>3. ASSUME Unwind(t) PROVE Shelved'
    BY <2>3 DEF Unwind, Shelved
  <2> QED BY <1>2, <2>1, <2>2, <2>3
<1>3. ASSUME NEW c \in Cache, NEW k \in Key, Hit(c, k) \/ Put(c, k) \/ RemoveKey(c, k)
      PROVE  Shelved' /\ CacheInv'
  <2>1. Shelved'
    BY <1>3, TouchStep, InsertStep, RemoveStep DEF Hit, Put
  <2>2. making' = making /\ Unlocked(c) /\ index' \in [Cache -> SUBSET Key]
    BY <1>3, <2>1 DEF Hit, Put, RemoveKey, Shelved
  <2>3. \A d \in Cache : d # c => index'[d] = index[d]
    BY <1>3 DEF Hit, Put, RemoveKey, Touch, Insert, Shelved
  <2> QED BY <2>1, <2>2, <2>3, MakersStay
<1>4. ASSUME NEW c \in Cache, Clear(c) PROVE Shelved' /\ CacheInv'
  <2>1. Shelved'
    BY <1>4, ClearStep
  <2>2. /\ making' = making /\ Unlocked(c) /\ index' \in [Cache -> SUBSET Key]
        /\ \A d \in Cache : d # c => index'[d] = index[d]
    BY <1>4, <2>1 DEF Clear, Shelved
  <2> QED BY <2>1, <2>2, MakersStay
<1>5. ASSUME NEW c \in Cache, NEW n \in Nat, ResetCapacity(c, n)
      PROVE  Shelved' /\ CacheInv'
  <2>1. Shelved'
    BY <1>5, ResetStep
  <2>2. /\ making' = making /\ index' \in [Cache -> SUBSET Key]
        /\ index'[c] \subseteq index[c]
        /\ \A d \in Cache : d # c => index'[d] = index[d]
    BY <1>5, <2>1 DEF ResetCapacity, Shelved
  <2> QED BY <2>1, <2>2, MakersStay
<1> QED BY <1>1, <1>2, <1>3, <1>4, <1>5 DEF CacheCall

LEMMA CachesKept == CacheSpec => [](Shelved /\ CacheInv)
<1>1. CacheInit(Nat) => Shelved /\ CacheInv
  <2> SUFFICES ASSUME CacheInit(Nat) PROVE Shelved /\ CacheInv
    OBVIOUS
  <2>1. /\ index = [c \in Cache |-> {}] /\ list = [c \in Cache |-> <<>>]
        /\ recent = [c \in Cache |-> <<>>] /\ capacity \in [Cache -> Nat]
        /\ making = [t \in Thread |-> <<>>]
    BY DEF CacheInit
  <2>2. \A c \in Cache : Shelf(index[c], list[c], recent[c], capacity[c])
    BY <2>1, EmptyShelf
  <2>3. making \in [Thread -> Seq(Cache \X Key)] /\ \A t \in Thread : DOMAIN making[t] = {}
    BY <2>1
  <2> QED BY <2>1, <2>2, <2>3 DEF Shelved, CacheInv
<1>2. Shelved /\ CacheInv /\ [CacheNext]_cachevars => Shelved' /\ CacheInv'
  <2> SUFFICES ASSUME Shelved, CacheInv, [CacheNext]_cachevars PROVE Shelved' /\ CacheInv'
    OBVIOUS
  <2>1. CASE CacheNext
    BY <2>1, CallKeeps DEF CacheNext
  <2>2. CASE UNCHANGED cachevars
    BY <2>2 DEF cachevars, Shelved, CacheInv
  <2> QED BY <2>1, <2>2
<1> QED BY <1>1, <1>2, PTL DEF CacheSpec

-----------------------------------------------------------------------------
(* What follows.                                                           *)

\* Map and list of a cache hold the same keys, and no more than the capacity,
\* whatever threads call and whoever computes a value meanwhile.
THEOREM CachesConsistent == CacheSpec => []Consistent
<1>1. Shelved => Consistent
  BY DEF Shelved, Shelf, Consistent
<1> QED BY <1>1, CachesKept, PTL

\* What shrink() evicts was used before every key it keeps.
THEOREM OldestEvicted == CacheSpec => []LeastRecentlyUsed
<1>1. Shelved => LeastRecentlyUsed
  BY BeginsIsPrefix DEF Shelved, Shelf, LeastRecentlyUsed
<1> QED BY <1>1, CachesKept, PTL

\* Threads that miss one key of one cache at a time compute its value once.
THEOREM OneMakerOnly == CacheSpec => []OneMaker
<1>1. CacheInv => OneMaker
  BY DEF CacheInv, OneMaker
<1> QED BY <1>1, CachesKept, PTL
=============================================================================
