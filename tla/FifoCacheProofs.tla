-------------------------- MODULE FifoCacheProofs --------------------------
(***************************************************************************)
(* Facts about the FIFO key cache (SeenRoutes and ReplayWindow of          *)
(* mesh_txrx.py) for caches of every size and keys of every kind.          *)
(***************************************************************************)
EXTENDS FifoCache, Integers, FiniteSetTheorems, TLAPS

(***************************************************************************)
(* The newest part of a sequence: how long it is and what its elements     *)
(* are, counted from the end.                                              *)
(***************************************************************************)
LEMMA NewestElements ==
    ASSUME NEW S, NEW s \in Seq(S), NEW limit \in Nat
    PROVE  /\ Newest(s, limit) \in Seq(S)
           /\ Len(Newest(s, limit)) = IF Len(s) <= limit THEN Len(s) ELSE limit
           /\ \A d \in Nat : d < Len(Newest(s, limit)) =>
                 Newest(s, limit)[Len(Newest(s, limit)) - d] = s[Len(s) - d]
<1>1. CASE Len(s) <= limit
  BY <1>1 DEF Newest
<1>2. CASE ~(Len(s) <= limit)
  <2>1. Newest(s, limit) = SubSeq(s, Len(s) - limit + 1, Len(s))
    BY <1>2 DEF Newest
  <2>2. /\ Len(s) \in Nat /\ Len(s) - limit + 1 \in 1..Len(s) + 1
    BY <1>2
  <2>3. Len(Newest(s, limit)) = limit
    BY <2>1, <2>2, <1>2
  <2>4. \A i \in 1..limit : Newest(s, limit)[i] = s[Len(s) - limit + i]
    BY <2>1, <2>2, <1>2
  <2>5. Newest(s, limit) \in Seq(S)
    BY <2>1, <2>2, <1>2
  <2>6. \A d \in Nat : d < limit => Newest(s, limit)[limit - d] = s[Len(s) - d]
    <3>1. TAKE d \in Nat
    <3>2. HAVE d < limit
    <3>3. limit - d \in 1..limit
      BY <3>2
    <3>4. Newest(s, limit)[limit - d] = s[Len(s) - limit + (limit - d)]
      BY <2>4, <3>3
    <3> QED BY <3>4, <2>2
  <2> QED BY <1>2, <2>3, <2>5, <2>6
<1> QED BY <1>1, <1>2

(***************************************************************************)
(* Evicting before an insertion or after it makes no difference: a cache   *)
(* that only ever saw the newest keys holds what a complete record gives.  *)
(***************************************************************************)
LEMMA NewestAppend ==
    ASSUME NEW S, NEW s \in Seq(S), NEW key \in S, NEW limit \in Nat \ {0}
    PROVE  Newest(Append(Newest(s, limit), key), limit) = Newest(Append(s, key), limit)
<1> DEFINE c == Newest(s, limit)
           a == Append(c, key)
           b == Append(s, key)
<1>1. /\ c \in Seq(S)
      /\ Len(c) = IF Len(s) <= limit THEN Len(s) ELSE limit
      /\ \A d \in Nat : d < Len(c) => c[Len(c) - d] = s[Len(s) - d]
  BY NewestElements
<1>2. a \in Seq(S) /\ b \in Seq(S) /\ Len(a) = Len(c) + 1 /\ Len(b) = Len(s) + 1
  BY <1>1
<1> HIDE DEF c
<1>3. \A d \in Nat : d < Len(a) => a[Len(a) - d] = b[Len(b) - d]
  <2> SUFFICES ASSUME NEW d \in Nat, d < Len(a)
               PROVE  a[Len(a) - d] = b[Len(b) - d]
    OBVIOUS
  <2>1. CASE d = 0
    BY <2>1, <1>1, <1>2
  <2>2. CASE d # 0
    <3>1. d - 1 \in Nat /\ d - 1 < Len(c) /\ Len(c) \in Nat /\ Len(s) \in Nat /\ Len(c) <= Len(s)
      BY <2>2, <1>1, <1>2
    <3>2. c[Len(c) - (d - 1)] = s[Len(s) - (d - 1)]
      BY <3>1, <1>1
    <3>3. a[Len(a) - d] = c[Len(c) - (d - 1)]
      BY <3>1, <1>2, <1>1, Len(a) - d = Len(c) - (d - 1), Len(a) - d \in 1..Len(c)
    <3>4. b[Len(b) - d] = s[Len(s) - (d - 1)]
      BY <3>1, <1>2, Len(b) - d = Len(s) - (d - 1), Len(b) - d \in 1..Len(s)
    <3> QED BY <3>2, <3>3, <3>4
  <2> QED BY <2>1, <2>2
<1> HIDE DEF a, b
<1> DEFINE na == Newest(a, limit)
           nb == Newest(b, limit)
<1>4. /\ na \in Seq(S)
      /\ Len(na) = IF Len(a) <= limit THEN Len(a) ELSE limit
      /\ \A d \in Nat : d < Len(na) => na[Len(na) - d] = a[Len(a) - d]
  BY <1>2, NewestElements
<1>5. /\ nb \in Seq(S)
      /\ Len(nb) = IF Len(b) <= limit THEN Len(b) ELSE limit
      /\ \A d \in Nat : d < Len(nb) => nb[Len(nb) - d] = b[Len(b) - d]
  BY <1>2, NewestElements
<1> HIDE DEF na, nb
<1>6. Len(na) = Len(nb) /\ Len(na) <= Len(a) /\ Len(na) \in Nat
  BY <1>1, <1>2, <1>4, <1>5
<1>7. \A i \in 1..Len(na) : na[i] = nb[i]
  <2> SUFFICES ASSUME NEW i \in 1..Len(na) PROVE na[i] = nb[i]
    OBVIOUS
  <2>1. Len(na) - i \in Nat /\ Len(na) - i < Len(na) /\ Len(na) - (Len(na) - i) = i
    BY <1>6
  <2>2. na[i] = a[Len(a) - (Len(na) - i)]
    BY <2>1, <1>4
  <2>3. nb[i] = b[Len(b) - (Len(na) - i)]
    BY <2>1, <1>5, <1>6
  <2>4. Len(na) - i < Len(a)
    BY <2>1, <1>6, <1>2, <1>1
  <2> QED BY <2>1, <2>2, <2>3, <2>4, <1>3
<1>8. na = nb
  BY <1>4, <1>5, <1>6, <1>7
<1> QED BY <1>8 DEF na, nb, a, b, c

(* remember() keeps a cache a sequence of keys. *)
LEMMA RememberType ==
    ASSUME NEW S, NEW cache \in Seq(S), NEW key \in S, NEW limit \in Nat
    PROVE  Remember(cache, key, limit) \in Seq(S)
<1>1. Append(cache, key) \in Seq(S)
  OBVIOUS
<1> QED BY <1>1, NewestElements DEF Remember

(* remember() never lets the cache outgrow its limit. *)
LEMMA RememberBounded ==
    ASSUME NEW S, NEW cache \in Seq(S), NEW key \in S, NEW limit \in Nat, Len(cache) <= limit
    PROVE  Len(Remember(cache, key, limit)) <= limit
<1>1. Append(cache, key) \in Seq(S)
  OBVIOUS
<1> DEFINE a == Append(cache, key)
<1>2. Len(Newest(a, limit)) = IF Len(a) <= limit THEN Len(a) ELSE limit
  BY <1>1, NewestElements
<1>3. Len(a) \in Nat
  BY <1>1
<1> HIDE DEF a
<1>4. Len(Newest(a, limit)) <= limit
  BY <1>2, <1>3
<1> QED BY <1>4 DEF Remember, a

(* What a cache holds after remember() it held before, or was told. *)
LEMMA RememberElements ==
    ASSUME NEW S, NEW cache \in Seq(S), NEW key \in S, NEW limit \in Nat,
           NEW x, Known(Remember(cache, key, limit), x)
    PROVE  Known(cache, x) \/ x = key
<1>1. CASE Known(cache, key)
  BY <1>1 DEF Remember
<1>2. CASE ~Known(cache, key)
  <2> DEFINE a == Append(cache, key)
             c == Newest(a, limit)
  <2>1. a \in Seq(S) /\ Len(a) = Len(cache) + 1 /\ Len(cache) \in Nat
        /\ a[Len(cache) + 1] = key /\ \A i \in 1..Len(cache) : a[i] = cache[i]
    OBVIOUS
  <2>2. /\ Len(c) = IF Len(a) <= limit THEN Len(a) ELSE limit
        /\ \A d \in Nat : d < Len(c) => c[Len(c) - d] = a[Len(a) - d]
    BY <2>1, NewestElements
  <2>3. Known(c, x)
    BY <1>2 DEF Remember
  <2> HIDE DEF a, c
  <2>4. PICK i \in 1..Len(c) : c[i] = x
    BY <2>3 DEF Known
  <2>5. /\ Len(c) - i \in Nat /\ Len(c) - i < Len(c) /\ Len(c) - (Len(c) - i) = i
        /\ Len(a) - (Len(c) - i) \in 1..Len(a)
    BY <2>1, <2>2, <2>4
  <2>6. x = a[Len(a) - (Len(c) - i)]
    BY <2>2, <2>4, <2>5
  <2>7. \A j \in 1..Len(a) : a[j] = x => Known(cache, x) \/ x = key
    BY <2>1 DEF Known
  <2> QED BY <2>5, <2>6, <2>7
<1> QED BY <1>1, <1>2

(* A cache holds no more keys than it has places. *)
LEMMA KnownFinite ==
    ASSUME NEW S, NEW s \in Seq(S), NEW T, \A x \in T : Known(s, x)
    PROVE  IsFiniteSet(T) /\ Cardinality(T) <= Len(s)
<1> DEFINE R == {s[i] : i \in 1..Len(s)}
<1>1. Len(s) \in Nat
  OBVIOUS
<1>2. s \in Surjection(1..Len(s), R)
  BY DEF Surjection
<1>3. IsFiniteSet(R) /\ Cardinality(R) <= Len(s) /\ Cardinality(R) \in Nat
  BY <1>1, <1>2, FS_NatSurjection, FS_SurjCardinalityBound, FS_CardinalityType
     DEF ExistsSurjection
<1>4. T \in SUBSET R
  BY DEF Known
<1>5. IsFiniteSet(T) /\ Cardinality(T) <= Cardinality(R) /\ Cardinality(T) \in Nat
  BY <1>3, <1>4, FS_Subset, FS_CardinalityType
<1> QED BY <1>1, <1>3, <1>5

(***************************************************************************)
(* A key the cache does not hold was not among the last `limit` that were  *)
(* entered.                                                                *)
(***************************************************************************)
LEMMA UnknownIsOld ==
    ASSUME NEW S, NEW s \in Seq(S), NEW key, NEW limit \in Nat,
           ~Known(Newest(s, limit), key),
           NEW i \in 1..Len(s), s[i] = key
    PROVE  Len(s) - i >= limit
<1> SUFFICES ASSUME Len(s) - i < limit PROVE FALSE
  OBVIOUS
<1> DEFINE c == Newest(s, limit)
<1>1. /\ Len(c) = IF Len(s) <= limit THEN Len(s) ELSE limit
      /\ \A d \in Nat : d < Len(c) => c[Len(c) - d] = s[Len(s) - d]
  BY NewestElements
<1>2. Len(s) - i \in Nat /\ Len(s) - i < Len(c) /\ Len(s) - (Len(s) - i) = i /\ Len(c) \in Nat
  BY <1>1
<1>3. c[Len(c) - (Len(s) - i)] = key
  BY <1>1, <1>2
<1>4. Len(c) - (Len(s) - i) \in 1..Len(c)
  BY <1>2
<1> QED BY <1>3, <1>4 DEF Known

(***************************************************************************)
(* The point of the cache: entering only keys it does not hold keeps equal *)
(* keys more than `limit` insertions apart.                                *)
(***************************************************************************)
LEMMA MinGapAppend ==
    ASSUME NEW S, NEW s \in Seq(S), NEW key \in S, NEW limit \in Nat,
           MinGap(s, limit), ~Known(Newest(s, limit), key)
    PROVE  MinGap(Append(s, key), limit)
<1> DEFINE b == Append(s, key)
<1>1. /\ Len(b) = Len(s) + 1
      /\ \A i \in 1..Len(s) : b[i] = s[i]
      /\ b[Len(s) + 1] = key
      /\ Len(s) \in Nat
  OBVIOUS
<1> HIDE DEF b
<1>2. SUFFICES ASSUME NEW i \in 1..Len(b), NEW j \in 1..Len(b), i < j, b[i] = b[j]
               PROVE  j - i > limit
  BY DEF MinGap, b
<1>3. i \in 1..Len(s) /\ b[i] = s[i]
  BY <1>1, <1>2
<1>4. CASE j \in 1..Len(s)
  BY <1>1, <1>2, <1>3, <1>4 DEF MinGap
<1>5. CASE j = Len(s) + 1
  <2>1. s[i] = key
    BY <1>1, <1>2, <1>3, <1>5
  <2>2. Len(s) - i >= limit
    BY <2>1, <1>3, UnknownIsOld
  <2> QED BY <2>2, <1>1, <1>3, <1>5
<1> QED BY <1>1, <1>4, <1>5
=============================================================================
