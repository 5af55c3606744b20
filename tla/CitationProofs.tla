---------------------------- MODULE CitationProofs ---------------------------
(***************************************************************************)
(* What the proofs about the reading of a document know of its data: how   *)
(* sequences, the table of a search and sets in order are built, what the  *)
(* gathering of a statute's articles keeps, and where the occurrences of a *)
(* text's citations stand (Citations), for any texts and mentions.         *)
(***************************************************************************)
EXTENDS Citations, FiniteSetTheorems, SequenceTheorems, WellFoundedInduction, TLAPS

-----------------------------------------------------------------------------
(* Sequences of whatever they hold.                                        *)
IsSeq(s) == Len(s) \in Nat /\ DOMAIN s = 1 .. Len(s) /\ s \in Seq(ToSet(s))

(* A sequence is the function of its places.                               *)
LEMMA SeqDomain ==
  ASSUME NEW s, IsSeq(s)
  PROVE  Len(s) \in Nat /\ DOMAIN s = 1 .. Len(s) /\ s = [k \in 1 .. Len(s) |-> s[k]]
BY LenProperties DEF IsSeq

(* A function of 1 .. n is a sequence.                                     *)
LEMMA FunctionIsSeq ==
  ASSUME NEW n \in Nat, NEW f, f = [k \in 1 .. n |-> f[k]]
  PROVE  IsSeq(f) /\ Len(f) = n
<1>1. f \in [1 .. n -> ToSet(f)]
  BY DEF ToSet
<1>2. f \in Seq(ToSet(f))
  BY <1>1, SeqDef
<1>3. DOMAIN f = 1 .. Len(f) /\ Len(f) \in Nat
  BY <1>2, LenProperties
<1>4. Len(f) = n
  BY <1>1, <1>3
<1> QED
  BY <1>2, <1>3, <1>4 DEF IsSeq

(* The sequences over a set are sequences of its elements.                 *)
LEMMA SeqIs ==
  ASSUME NEW S, NEW s \in Seq(S)
  PROVE  IsSeq(s) /\ \A k \in 1 .. Len(s) : s[k] \in S
<1>1. Len(s) \in Nat /\ s \in [1 .. Len(s) -> S]
  BY LenProperties
<1> QED
  BY <1>1, FunctionIsSeq

(* One more element.                                                       *)
LEMMA AppendIs ==
  ASSUME NEW s, IsSeq(s), NEW x
  PROVE  /\ IsSeq(Append(s, x)) /\ Len(Append(s, x)) = Len(s) + 1
         /\ \A k \in 1 .. Len(s) : Append(s, x)[k] = s[k]
         /\ Append(s, x)[Len(s) + 1] = x
         /\ ToSet(Append(s, x)) = ToSet(s) \cup {x}
<1> DEFINE S == ToSet(s) \cup {x}
<1>1. s \in Seq(S) /\ x \in S
  BY SeqMonotonic DEF IsSeq
<1> DEFINE t == Append(s, x)
<1>2. /\ t \in Seq(S) /\ Len(t) = Len(s) + 1
      /\ \A k \in 1 .. Len(s) : t[k] = s[k]
      /\ t[Len(s) + 1] = x
  BY <1>1, AppendProperties
<1>3. IsSeq(t) /\ \A k \in 1 .. Len(t) : t[k] \in S
  BY <1>2, SeqIs
<1> HIDE DEF t
<1>4. DOMAIN t = 1 .. Len(s) + 1 /\ DOMAIN s = 1 .. Len(s) /\ Len(s) \in Nat
  BY <1>2, <1>3 DEF IsSeq
<1>5. ToSet(t) \subseteq S
  BY <1>2, <1>3, <1>4 DEF ToSet
<1>6. S \subseteq ToSet(t)
  BY <1>2, <1>4 DEF ToSet
<1> QED
  BY <1>2, <1>3, <1>5, <1>6 DEF t

(* Two sequences, one behind the other.                                    *)
LEMMA ConcatIs ==
  ASSUME NEW s, IsSeq(s), NEW t, IsSeq(t)
  PROVE  /\ IsSeq(s \o t) /\ Len(s \o t) = Len(s) + Len(t)
         /\ \A k \in 1 .. Len(s) : (s \o t)[k] = s[k]
         /\ \A k \in 1 .. Len(t) : (s \o t)[Len(s) + k] = t[k]
         /\ ToSet(s \o t) = ToSet(s) \cup ToSet(t)
<1> DEFINE S == ToSet(s) \cup ToSet(t)
           u == s \o t
<1>1. s \in Seq(S) /\ t \in Seq(S)
  BY SeqMonotonic DEF IsSeq
<1>2. /\ u \in Seq(S) /\ Len(u) = Len(s) + Len(t)
      /\ \A k \in 1 .. Len(s) + Len(t) : u[k] = IF k <= Len(s) THEN s[k] ELSE t[k - Len(s)]
  BY <1>1, ConcatProperties
<1>3. IsSeq(u) /\ \A k \in 1 .. Len(u) : u[k] \in S
  BY <1>2, SeqIs
<1> HIDE DEF u
<1>4. /\ Len(s) \in Nat /\ Len(t) \in Nat /\ DOMAIN u = 1 .. Len(s) + Len(t)
      /\ DOMAIN s = 1 .. Len(s) /\ DOMAIN t = 1 .. Len(t)
  BY <1>2, <1>3 DEF IsSeq
<1>5. /\ \A k \in 1 .. Len(s) : u[k] = s[k] /\ k \in DOMAIN u
      /\ \A k \in 1 .. Len(t) : u[Len(s) + k] = t[k] /\ Len(s) + k \in DOMAIN u
  <2>1. ASSUME NEW k \in 1 .. Len(t) PROVE u[Len(s) + k] = t[k] /\ Len(s) + k \in DOMAIN u
    <3>1. Len(s) + k \in 1 .. Len(s) + Len(t) /\ ~(Len(s) + k <= Len(s)) /\ (Len(s) + k) - Len(s) = k
      BY <1>4
    <3> QED
      BY <1>2, <1>4, <3>1
  <2> QED
    BY <1>2, <1>4, <2>1
<1>6. ToSet(u) \subseteq S
  BY <1>3, <1>4, <1>2 DEF ToSet
<1>7. S \subseteq ToSet(u)
  BY <1>4, <1>5 DEF ToSet
<1> QED
  BY <1>2, <1>3, <1>5, <1>6, <1>7 DEF u

(* The empty sequence.                                                     *)
LEMMA EmptyIs == IsSeq(<<>>) /\ Len(<<>>) = 0 /\ ToSet(<<>>) = {}
<1>1. <<>> \in Seq({})
  BY EmptySeq
<1>2. IsSeq(<<>>) /\ Len(<<>>) = 0
  BY <1>1, SeqIs, EmptySeq
<1> QED
  BY <1>2 DEF IsSeq, ToSet

(* A sequence of one.                                                      *)
LEMMA SingleIs ==
  ASSUME NEW x
  PROVE  IsSeq(<<x>>) /\ Len(<<x>>) = 1 /\ DOMAIN <<x>> = 1 .. 1 /\ ToSet(<<x>>) = {x}
<1>1. <<x>> \in Seq({x})
  OBVIOUS
<1>2. IsSeq(<<x>>) /\ Len(<<x>>) = 1
  BY <1>1, SeqIs
<1>3. DOMAIN <<x>> = 1 .. 1
  BY <1>2, SeqDomain
<1> QED
  BY <1>2, <1>3 DEF ToSet

(* The elements of a pair.                                                 *)
LEMMA PairIs == ASSUME NEW x, NEW y PROVE ToSet(<<x, y>>) = {x, y}
<1>1. DOMAIN <<x, y>> = {1, 2} /\ <<x, y>>[1] = x /\ <<x, y>>[2] = y
  OBVIOUS
<1> QED
  BY <1>1 DEF ToSet

(* A sequence with a first and a last element.                             *)
LEMMA NonEmptyIs ==
  ASSUME NEW s, IsSeq(s), s # <<>>
  PROVE  Len(s) \in Nat \ {0} /\ 1 \in DOMAIN s /\ Len(s) \in DOMAIN s
<1>1. Len(s) \in Nat \ {0}
  BY EmptySeq DEF IsSeq
<1> QED
  BY <1>1 DEF IsSeq

-----------------------------------------------------------------------------
(* Induction over a set of numbers.                                        *)
LEMMA NatMin ==
  ASSUME NEW T, T \subseteq Nat, T # {}
  PROVE  \E m \in T : \A n \in T : m <= n
<1> DEFINE R == {ss \in Nat \X Nat : ss[1] < ss[2]}
<1>1. IsWellFoundedOn(R, Nat)
  BY NatLessThanWellFounded, Zenon DEF OpToRel
<1>2. \A m, n \in Nat : n < m => <<n, m>> \in R
  OBVIOUS
<1> HIDE DEF R
<1>3. PICK m \in T : \A n \in T : ~(<<n, m>> \in R)
  BY <1>1, WFMin, Zenon
<1>4. ASSUME NEW n \in T PROVE m <= n
  <2>1. ~(n < m)
    BY <1>2, <1>3, Zenon
  <2>2. m \in Nat /\ n \in Nat
    OBVIOUS
  <2> QED
    BY <2>1, <2>2
<1> QED
  BY <1>4

(* Induction, by a set of numbers.                                         *)
LEMMA Rises ==
  ASSUME NEW T, 0 \in T, \A n \in Nat : n \in T => n + 1 \in T
  PROVE  Nat \subseteq T
<1>1. SUFFICES ASSUME Nat \ T # {} PROVE FALSE
  OBVIOUS
<1>2. PICK m \in Nat \ T : \A n \in Nat \ T : m <= n
  BY <1>1, NatMin
<1>3. m - 1 \in Nat /\ ~(m <= m - 1) /\ (m - 1) + 1 = m
  BY <1>2
<1> QED
  BY <1>2, <1>3

-----------------------------------------------------------------------------
(* A finite set of numbers has a last one.                                 *)
LEMMA MaxIs ==
  ASSUME NEW n \in Nat, NEW S \in SUBSET (0 .. n), S # {}
  PROVE  Max(S) \in S /\ \A x \in S : x <= Max(S)
<1> DEFINE T == {n - x : x \in S}
<1>1. T \subseteq Nat /\ T # {}
  <2>1. \A x \in S : x \in 0 .. n /\ n - x \in Nat
    OBVIOUS
  <2>2. PICK x : x \in S
    OBVIOUS
  <2> QED
    BY <2>1, <2>2
<1>2. PICK t \in T : \A u \in T : t <= u
  BY <1>1, NatMin
<1>3. PICK m \in S : t = n - m
  BY <1>2
<1>4. \A x \in S : m >= x
  BY <1>2, <1>3
<1> HIDE DEF T
<1>5. \E x \in S : \A y \in S : x >= y
  BY <1>4
<1>6. Max(S) \in S /\ \A y \in S : Max(S) >= y
  BY <1>5 DEF Max
<1> QED
  BY <1>6

(* What a function makes of finitely many values is finite.                *)
LEMMA ImageFinite ==
  ASSUME NEW D, IsFiniteSet(D), NEW f, f = [x \in D |-> f[x]]
  PROVE  IsFiniteSet({f[x] : x \in D})
<1> DEFINE T == {f[x] : x \in D}
<1>1. f \in Surjection(D, T)
  BY DEF Surjection
<1> QED
  BY <1>1, FS_Surjection

(* A sequence has finitely many elements.                                  *)
LEMMA SeqFinite ==
  ASSUME NEW s, IsSeq(s) PROVE IsFiniteSet(DOMAIN s) /\ IsFiniteSet(ToSet(s))
<1>1. Len(s) \in Nat /\ DOMAIN s = 1 .. Len(s) /\ s = [k \in DOMAIN s |-> s[k]]
  BY SeqDomain
<1>2. IsFiniteSet(DOMAIN s)
  BY <1>1, FS_Interval
<1>3. IsFiniteSet({s[k] : k \in DOMAIN s})
  BY <1>1, <1>2, ImageFinite
<1> QED
  BY <1>2, <1>3 DEF ToSet

(* Sources have finitely many titles.                                      *)
LEMMA TitlesFinite ==
  ASSUME NEW s, IsSeq(s) PROVE IsFiniteSet(TitlesOf(s))
<1> DEFINE f == [k \in DOMAIN s |-> s[k].title]
<1>1. IsFiniteSet({f[k] : k \in DOMAIN s})
  BY SeqFinite, ImageFinite
<1>2. TitlesOf(s) = {f[k] : k \in DOMAIN s}
  BY DEF TitlesOf
<1> QED
  BY <1>1, <1>2

(* No sources, no titles.                                                  *)
LEMMA NoTitles == TitlesOf(<<>>) = {}
BY EmptyIs, SeqDomain DEF TitlesOf

(* Two sequences of one, or none and one.                                  *)
LEMMA OneBefore == ASSUME NEW x, NEW y PROVE <<x>> \o <<y>> = <<x, y>> /\ <<>> \o <<y>> = <<y>>
<1> DEFINE S == {x, y}
<1>1. <<x>> \in Seq(S) /\ <<y>> \in Seq(S) /\ <<x, y>> \in Seq(S)
  OBVIOUS
<1>2. <<>> \o <<y>> = <<y>>
  BY <1>1, ConcatEmptySeq
<1>3. /\ <<x>> \o <<y>> \in Seq(S) /\ Len(<<x>> \o <<y>>) = 2
      /\ (<<x>> \o <<y>>)[1] = x /\ (<<x>> \o <<y>>)[2] = y
  BY <1>1, ConcatProperties
<1>4. <<x>> \o <<y>> = <<x, y>>
  <2> DEFINE u == <<x>> \o <<y>>
             v == <<x, y>>
  <2>1. v \in Seq(S) /\ Len(v) = 2 /\ v[1] = x /\ v[2] = y
    OBVIOUS
  <2>2. u \in Seq(S) /\ Len(u) = 2 /\ u[1] = x /\ u[2] = y
    BY <1>3
  <2> HIDE DEF u, v, S
  <2>3. \A i \in 1 .. Len(u) : u[i] = v[i]
    BY <2>1, <2>2
  <2>4. u = v
    BY <2>1, <2>2, <2>3, SeqEqual
  <2> QED
    BY <2>4 DEF u, v
<1> QED
  BY <1>2, <1>4

(* What is left without the first element.                                 *)
LEMMA TailIs ==
  ASSUME NEW s, IsSeq(s), s # <<>>
  PROVE  IsSeq(Tail(s)) /\ ToSet(s) = {Head(s)} \cup ToSet(Tail(s))
<1> DEFINE t == Tail(s)
<1>1. /\ t \in Seq(ToSet(s)) /\ Len(t) = Len(s) - 1 /\ Head(s) = s[1]
      /\ \A k \in 1 .. Len(t) : t[k] = s[k + 1]
  <2>1. s \in Seq(ToSet(s))
    BY DEF IsSeq
  <2>2. t \in Seq(ToSet(s)) /\ Len(t) = Len(s) - 1 /\ \A k \in 1 .. Len(t) : t[k] = s[k + 1]
    BY <2>1, HeadTailProperties
  <2>3. Head(s) = s[1]
    BY <2>1
  <2> QED
    BY <2>2, <2>3
<1>2. IsSeq(t) /\ \A k \in 1 .. Len(t) : t[k] \in ToSet(s)
  BY <1>1, SeqIs
<1>3. /\ Len(s) \in Nat \ {0} /\ DOMAIN s = 1 .. Len(s) /\ DOMAIN t = 1 .. Len(s) - 1
  BY <1>1, <1>2, NonEmptyIs, SeqDomain
<1> HIDE DEF t
<1>4. ToSet(t) \subseteq ToSet(s) /\ Head(s) \in ToSet(s)
  <2>1. \A x \in ToSet(t) : \E k \in 1 .. Len(t) : x = t[k]
    BY <1>1, <1>3 DEF ToSet
  <2>2. s[1] \in ToSet(s)
    BY <1>3 DEF ToSet
  <2> QED
    BY <2>1, <2>2, <1>1, <1>2
<1>5. ASSUME NEW x \in ToSet(s), x # Head(s) PROVE x \in ToSet(t)
  <2>1. PICK k \in 1 .. Len(s) : x = s[k]
    BY <1>3 DEF ToSet
  <2>2. k - 1 \in 1 .. Len(s) - 1 /\ (k - 1) + 1 = k
    BY <2>1, <1>1, <1>3, <1>5
  <2>3. t[k - 1] = x
    BY <2>1, <2>2, <1>1
  <2> QED
    BY <2>2, <2>3, <1>3 DEF ToSet
<1> QED
  BY <1>2, <1>4, <1>5 DEF t

(* Sorting.  The rank of an element is how many come before it; ranks are  *)
(* different, and so every rank up to the number of elements is taken.     *)
Before(S, key, x) == {y \in S : key[y] < key[x]}

(* A larger key has a higher rank.                                         *)
LEMMA RanksRise ==
  ASSUME NEW S, IsFiniteSet(S), NEW key, \A x \in S : key[x] \in Int,
         NEW x \in S, NEW z \in S, key[x] < key[z]
  PROVE  Cardinality(Before(S, key, x)) < Cardinality(Before(S, key, z))
<1>1. Before(S, key, x) \subseteq Before(S, key, z) /\ Before(S, key, z) \subseteq S
  BY DEF Before
<1>2. x \in Before(S, key, z) /\ x \notin Before(S, key, x)
  BY DEF Before
<1>3. IsFiniteSet(Before(S, key, z)) /\ IsFiniteSet(Before(S, key, x))
  BY <1>1, FS_Subset
<1>4. Cardinality(Before(S, key, x)) <= Cardinality(Before(S, key, z))
      /\ Cardinality(Before(S, key, x)) # Cardinality(Before(S, key, z))
  BY <1>1, <1>2, <1>3, FS_Subset
<1> QED
  BY <1>3, <1>4, FS_CardinalityType

(* Ranked sorts: the elements of S, each once, by ascending key.           *)
LEMMA RankedIs ==
  ASSUME NEW S, IsFiniteSet(S), NEW key, \A x \in S : key[x] \in Int,
         \A x, y \in S : key[x] = key[y] => x = y
  PROVE  LET r == Ranked(S, key)
         IN  /\ IsSeq(r) /\ Len(r) = Cardinality(S) /\ DOMAIN r = 1 .. Cardinality(S)
             /\ ToSet(r) = S
             /\ \A m, n \in 1 .. Cardinality(S) : m < n => key[r[m]] < key[r[n]]
             /\ \A m, n \in 1 .. Cardinality(S) : r[m] = r[n] => m = n
<1> DEFINE r == Ranked(S, key)
           c == Cardinality(S)
           rank == [x \in S |-> Cardinality(Before(S, key, x))]
<1>1. c \in Nat
  BY FS_CardinalityType
<1>2. \A x \in S : rank[x] \in 0 .. c - 1
  <2>1. ASSUME NEW x \in S PROVE rank[x] \in 0 .. c - 1
    <3>1. Before(S, key, x) \subseteq S /\ x \notin Before(S, key, x)
      BY DEF Before
    <3>2. IsFiniteSet(Before(S, key, x)) /\ Cardinality(Before(S, key, x)) <= c
          /\ Cardinality(Before(S, key, x)) # c
      BY <3>1, FS_Subset
    <3>3. Cardinality(Before(S, key, x)) \in Nat
      BY <3>2, FS_CardinalityType
    <3> QED
      BY <1>1, <3>2, <3>3
  <2> QED
    BY <2>1
<1>3. \A x, y \in S : rank[x] = rank[y] => x = y
  <2>1. ASSUME NEW x \in S, NEW y \in S, x # y PROVE rank[x] # rank[y]
    <3>1. key[x] < key[y] \/ key[y] < key[x]
      BY <2>1
    <3>2. rank[x] < rank[y] \/ rank[y] < rank[x]
      BY <3>1, RanksRise
    <3> QED
      BY <1>2, <3>2, <1>1
  <2> QED
    BY <2>1
<1>4. rank \in Injection(S, 0 .. c - 1)
  BY <1>2, <1>3 DEF Injection, IsInjective
<1>5. rank \in Surjection(S, 0 .. c - 1)
  <2>1. IsFiniteSet(0 .. c - 1) /\ Cardinality(0 .. c - 1) = c
    BY <1>1, FS_Interval
  <2> HIDE DEF rank
  <2> QED
    BY <1>4, <2>1, FS_Injection
<1>6. \A n \in 1 .. c : r[n] \in S /\ rank[r[n]] = n - 1
  <2>1. ASSUME NEW n \in 1 .. c PROVE r[n] \in S /\ rank[r[n]] = n - 1
    <3>1. n - 1 \in 0 .. c - 1
      BY <1>1
    <3>2. PICK x \in S : rank[x] = n - 1
      BY <1>5, <3>1 DEF Surjection
    <3>3. \E y \in S : Cardinality({z \in S : key[z] < key[y]}) = n - 1
      BY <3>2 DEF Before
    <3>4. r[n] = CHOOSE y \in S : Cardinality({z \in S : key[z] < key[y]}) = n - 1
      BY DEF Ranked
    <3>5. r[n] \in S /\ Cardinality({z \in S : key[z] < key[r[n]]}) = n - 1
      BY <3>3, <3>4
    <3> QED
      BY <3>5 DEF Before
  <2> QED
    BY <2>1
<1>7. IsSeq(r) /\ Len(r) = c /\ DOMAIN r = 1 .. c
  <2> DEFINE e(n) == CHOOSE x \in S : Cardinality({y \in S : key[y] < key[x]}) = n - 1
  <2>0. r = [n \in 1 .. c |-> e(n)]
    BY DEF Ranked
  <2> HIDE DEF r, c, e
  <2>1. r = [n \in 1 .. c |-> r[n]]
    BY <2>0
  <2> QED
    BY <1>1, <2>1, FunctionIsSeq
<1>8. ToSet(r) = S
  <2>1. ASSUME NEW x \in S PROVE x \in ToSet(r)
    <3>1. rank[x] + 1 \in 1 .. c /\ rank[x] \in Int
      BY <1>1, <1>2
    <3>2. rank[r[rank[x] + 1]] = rank[x] /\ r[rank[x] + 1] \in S
      BY <1>6, <3>1
    <3>3. r[rank[x] + 1] = x
      BY <1>3, <3>2
    <3> QED
      BY <1>7, <3>1, <3>3 DEF ToSet
  <2> QED
    <3>1. ToSet(r) = {r[n] : n \in 1 .. c}
      BY <1>7 DEF ToSet
    <3>2. \A n \in 1 .. c : r[n] \in S
      BY <1>6
    <3> HIDE DEF r
    <3> QED
      BY <2>1, <3>1, <3>2
<1>9. ASSUME NEW m \in 1 .. c, NEW n \in 1 .. c, m < n PROVE key[r[m]] < key[r[n]]
  <2>1. SUFFICES ASSUME ~(key[r[m]] < key[r[n]]) PROVE FALSE
    OBVIOUS
  <2>2. r[m] \in S /\ r[n] \in S /\ rank[r[m]] = m - 1 /\ rank[r[n]] = n - 1
    BY <1>6
  <2> HIDE DEF r
  <2>3. key[r[n]] < key[r[m]] \/ r[m] = r[n]
    BY <2>1, <2>2
  <2>4. rank[r[n]] < rank[r[m]] \/ r[m] = r[n]
    BY <2>2, <2>3, RanksRise
  <2> HIDE DEF rank
  <2> QED
    BY <1>9, <2>2, <2>4, <1>1
<1>10. \A m, n \in 1 .. c : r[m] = r[n] => m = n
  <2> HIDE DEF r, rank
  <2> QED
    BY <1>6, <1>1
<1> HIDE DEF r
<1> QED
  BY <1>7, <1>8, <1>9, <1>10 DEF r

(* A sequence that ascends is the one that its elements are sorted to.     *)
LEMMA RankedOf ==
  ASSUME NEW s, IsSeq(s), NEW key, \A n \in 1 .. Len(s) : key[s[n]] \in Int,
         \A m, n \in 1 .. Len(s) : m < n => key[s[m]] < key[s[n]]
  PROVE  Ranked(ToSet(s), key) = s /\ Cardinality(ToSet(s)) = Len(s)
<1> DEFINE S == ToSet(s)
           r == Ranked(S, key)
           c == Len(s)
<1>1. c \in Nat /\ DOMAIN s = 1 .. c /\ s = [k \in 1 .. c |-> s[k]]
  BY SeqDomain
<1>2. IsFiniteSet(S)
  BY SeqFinite
<1>3. \A m, n \in 1 .. c : s[m] = s[n] => m = n
  <2> HIDE DEF c
  <2> QED
    BY <1>1
<1>4. ASSUME NEW n \in 0 .. c PROVE Cardinality({s[m] : m \in 1 .. n}) = n
  <2> DEFINE I == {s[m] : m \in 1 .. n}
             f == [m \in 1 .. n |-> s[m]]
  <2>1. f \in Injection(1 .. n, I) /\ f \in Surjection(1 .. n, I)
    <3>1. \A m \in 1 .. n : m \in 1 .. c
      BY <1>1
    <3> QED
      BY <1>3, <3>1 DEF Injection, IsInjective, Surjection
  <2>2. f \in Bijection(1 .. n, I)
    BY <2>1 DEF Bijection
  <2>3. IsFiniteSet(1 .. n) /\ Cardinality(1 .. n) = n
    <3>1. 1 \in Int /\ n \in Int /\ (IF 1 > n THEN 0 ELSE n - 1 + 1) = n
      BY <1>1
    <3>2. Cardinality(1 .. n) = (IF 1 > n THEN 0 ELSE n - 1 + 1) /\ IsFiniteSet(1 .. n)
      BY <3>1, FS_Interval
    <3> QED
      BY <3>1, <3>2
  <2> HIDE DEF f, I
  <2>4. Cardinality(I) = n
    BY <2>2, <2>3, FS_Bijection DEF ExistsBijection
  <2> QED
    BY <2>4 DEF I
<1>5. S = {s[m] : m \in 1 .. c}
  BY <1>1 DEF ToSet
<1>6. Cardinality(S) = c
  <2>1. c \in 0 .. c
    BY <1>1
  <2> HIDE DEF S, c
  <2> QED
    BY <1>4, <1>5, <2>1
<1>7. ASSUME NEW n \in 1 .. c PROVE {y \in S : key[y] < key[s[n]]} = {s[m] : m \in 1 .. n - 1}
  <2>1. ASSUME NEW m \in 1 .. c PROVE key[s[m]] < key[s[n]] <=> m \in 1 .. n - 1
    <3>1. m < n \/ m = n \/ n < m
      BY <1>1
    <3>2. key[s[m]] \in Int /\ key[s[n]] \in Int
      OBVIOUS
    <3>3. (m < n => key[s[m]] < key[s[n]]) /\ (n < m => key[s[n]] < key[s[m]])
      OBVIOUS
    <3> HIDE DEF c
    <3> QED
      BY <3>1, <3>2, <3>3, <1>1
  <2>2. \A m \in 1 .. n - 1 : m \in 1 .. c
    BY <1>1
  <2> QED
    BY <1>5, <2>1, <2>2
<1>8. ASSUME NEW n \in 1 .. c PROVE r[n] = s[n]
  <2>1. \A m \in 1 .. c : Cardinality({y \in S : key[y] < key[s[m]]}) = m - 1
    <3>1. ASSUME NEW m \in 1 .. c PROVE Cardinality({y \in S : key[y] < key[s[m]]}) = m - 1
      <4>1. m - 1 \in 0 .. c
        BY <1>1
      <4> QED
        BY <1>4, <1>7, <4>1
    <3> QED
      BY <3>1
  <2>2. r[n] = CHOOSE x \in S : Cardinality({y \in S : key[y] < key[x]}) = n - 1
    BY <1>6 DEF Ranked
  <2>3. s[n] \in S
    BY <1>5
  <2> HIDE DEF S
  <2>4. r[n] \in S /\ Cardinality({y \in S : key[y] < key[r[n]]}) = n - 1
    BY <2>1, <2>2, <2>3
  <2>5. PICK m \in 1 .. c : r[n] = s[m]
    BY <1>5, <2>4
  <2>6. m - 1 = n - 1
    BY <2>1, <2>4, <2>5
  <2> QED
    BY <2>5, <2>6, <1>1
<1>9. r = [n \in 1 .. c |-> r[n]]
  <2> DEFINE e(n) == CHOOSE x \in S : Cardinality({y \in S : key[y] < key[x]}) = n - 1
  <2>1. r = [n \in 1 .. c |-> e(n)]
    BY <1>6 DEF Ranked
  <2> HIDE DEF r, c, e
  <2> QED
    BY <2>1
<1> HIDE DEF r, c
<1>10. r = s
  BY <1>1, <1>8, <1>9
<1> QED
  BY <1>6, <1>10 DEF r, c

(* InOrder sorts numbers.                                                  *)
LEMMA InOrderIs ==
  ASSUME NEW S, IsFiniteSet(S), S \subseteq Int
  PROVE  LET r == InOrder(S)
         IN  /\ IsSeq(r) /\ Len(r) = Cardinality(S) /\ DOMAIN r = 1 .. Cardinality(S)
             /\ Cardinality(S) \in Nat
             /\ ToSet(r) = S
             /\ \A m, n \in 1 .. Cardinality(S) : m < n => r[m] < r[n]
             /\ \A m, n \in 1 .. Cardinality(S) : r[m] = r[n] => m = n
<1> DEFINE key == [x \in S |-> x]
           r == Ranked(S, key)
<1>1. /\ \A x \in S : key[x] \in Int
      /\ \A x, y \in S : key[x] = key[y] => x = y
  OBVIOUS
<1>2. /\ IsSeq(r) /\ Len(r) = Cardinality(S) /\ DOMAIN r = 1 .. Cardinality(S)
      /\ ToSet(r) = S
      /\ \A m, n \in 1 .. Cardinality(S) : m < n => key[r[m]] < key[r[n]]
      /\ \A m, n \in 1 .. Cardinality(S) : r[m] = r[n] => m = n
  <2> HIDE DEF key
  <2> QED
    BY <1>1, RankedIs
<1> HIDE DEF r
<1>3. \A n \in 1 .. Cardinality(S) : key[r[n]] = r[n]
  BY <1>2 DEF ToSet
<1>4. r = InOrder(S)
  BY DEF InOrder, r
<1> HIDE DEF key
<1>5. Cardinality(S) \in Nat
  BY FS_CardinalityType
<1> QED
  BY <1>2, <1>3, <1>4, <1>5

(* Numbers that ascend are sorted already.                                 *)
LEMMA InOrderOf ==
  ASSUME NEW s, IsSeq(s), \A n \in 1 .. Len(s) : s[n] \in Int,
         \A m, n \in 1 .. Len(s) : m < n => s[m] < s[n]
  PROVE  InOrder(ToSet(s)) = s
<1> DEFINE key == [x \in ToSet(s) |-> x]
<1>1. \A n \in 1 .. Len(s) : key[s[n]] = s[n]
  BY SeqDomain DEF ToSet
<1>2. Ranked(ToSet(s), key) = s
  <2> HIDE DEF key
  <2> QED
    BY <1>1, RankedOf
<1> QED
  BY <1>2 DEF InOrder

(* Only keeps what is in S.                                                *)
LEMMA OnlyIs ==
  ASSUME NEW s, IsSeq(s), NEW S
  PROVE  IsSeq(Only(s, S)) /\ ToSet(Only(s, S)) = ToSet(s) \cap S
<1> DEFINE kept == {k \in DOMAIN s : s[k] \in S}
           c == Cardinality(kept)
           r == InOrder(kept)
           o == Only(s, S)
<1>1. IsFiniteSet(kept) /\ kept \subseteq Int
  <2>1. IsFiniteSet(DOMAIN s) /\ DOMAIN s \subseteq Int
    BY SeqFinite, SeqDomain
  <2> QED
    BY <2>1, FS_Subset
<1> HIDE DEF kept
<1>2. c \in Nat /\ ToSet(r) = kept /\ DOMAIN r = 1 .. c
  BY <1>1, InOrderIs
<1>3. o = [n \in 1 .. c |-> s[r[n]]]
  BY DEF Only, kept
<1> HIDE DEF o, c, r
<1>4. IsSeq(o) /\ DOMAIN o = 1 .. c
  BY <1>2, <1>3, FunctionIsSeq
<1>5. ToSet(o) = {s[k] : k \in kept}
  BY <1>2, <1>3, <1>4 DEF ToSet
<1>6. {s[k] : k \in kept} = ToSet(s) \cap S
  BY DEF kept, ToSet
<1> QED
  BY <1>4, <1>5, <1>6 DEF o

(* FlattenSeq joins its sequences one after the other.                     *)
Joined(ss, f) ==
  /\ f = [n \in 0 .. Len(ss) |-> f[n]]
  /\ f[0] = <<>>
  /\ \A n \in 1 .. Len(ss) : f[n] = f[n - 1] \o ss[n]
  /\ \A n \in 0 .. Len(ss) : IsSeq(f[n])

(* FlattenSeq joins the sequences one by one.                              *)
LEMMA FlattenIs ==
  ASSUME NEW ss, IsSeq(ss), \A n \in 1 .. Len(ss) : IsSeq(ss[n])
  PROVE  \E f : Joined(ss, f) /\ FlattenSeq(ss) = f[Len(ss)]
<1> DEFINE L == Len(ss)
           Part(g, n) == g = [i \in 1 .. n |-> IF i = 1 THEN ss[1] ELSE g[i - 1] \o ss[i]]
           T == {n \in Nat : \E g : Part(g, n)}
<1>1. L \in Nat
  BY SeqDomain
<1>2. CASE L = 0
  <2>1. ss = <<>>
    BY <1>2, EmptySeq, NonEmptyIs
  <2> DEFINE f == [n \in 0 .. L |-> <<>>]
  <2>2. Joined(ss, f) /\ f[L] = <<>>
    BY <1>2, EmptyIs DEF Joined
  <2>3. FlattenSeq(ss) = <<>>
    BY <1>2, <2>1 DEF FlattenSeq
  <2> QED
    BY <2>2, <2>3
<1>3. CASE L # 0
  <2>1. 0 \in T
    <3>1. Part([i \in 1 .. 0 |-> 0], 0)
      OBVIOUS
    <3> QED
      BY <3>1
  <2>2. ASSUME NEW n \in Nat, n \in T PROVE n + 1 \in T
    <3>1. PICK g : Part(g, n)
      BY <2>2
    <3> DEFINE x == IF n + 1 = 1 THEN ss[1] ELSE g[n] \o ss[n + 1]
               h == [i \in 1 .. n + 1 |-> IF i = n + 1 THEN x ELSE g[i]]
    <3>2. \A i \in 1 .. n : h[i] = g[i]
      OBVIOUS
    <3>3. h[n + 1] = x
      OBVIOUS
    <3>4. ASSUME NEW i \in 1 .. n + 1
          PROVE  h[i] = IF i = 1 THEN ss[1] ELSE h[i - 1] \o ss[i]
      <4>1. CASE i = n + 1
        <5>1. i # 1 => n \in 1 .. n /\ i - 1 = n
          BY <4>1
        <5> HIDE DEF h
        <5>2. i # 1 => h[i - 1] = g[n]
          BY <3>2, <5>1
        <5> QED
          BY <3>3, <4>1, <5>2
      <4>2. CASE i # n + 1
        <5>1. i \in 1 .. n /\ (i # 1 => i - 1 \in 1 .. n)
          BY <4>2
        <5>2. g[i] = IF i = 1 THEN ss[1] ELSE g[i - 1] \o ss[i]
          BY <3>1, <5>1
        <5> HIDE DEF h
        <5>3. h[i] = g[i] /\ (i # 1 => h[i - 1] = g[i - 1])
          BY <3>2, <5>1
        <5> QED
          BY <5>2, <5>3
      <4> QED
        BY <4>1, <4>2
    <3>5. h = [i \in 1 .. n + 1 |-> h[i]]
      OBVIOUS
    <3> HIDE DEF h
    <3>6. Part(h, n + 1)
      BY <3>4, <3>5
    <3> HIDE DEF Part
    <3>7. n + 1 \in Nat /\ \E e : Part(e, n + 1)
      BY <3>6
    <3> QED
      BY <3>7
  <2> HIDE DEF T
  <2>3. L \in T
    BY <1>1, <2>1, <2>2, Rises
  <2>4. \E g : Part(g, L)
    BY <2>3, ZenonT(30) DEF T
  <2> DEFINE fl == CHOOSE g : Part(g, L)
  <2>5. Part(fl, L)
    BY <2>4, ZenonT(30)
  <2>6. FlattenSeq(ss) = fl[L]
    BY <1>3 DEF FlattenSeq
  <2> HIDE DEF fl
  <2>7. /\ fl[1] = ss[1]
        /\ \A i \in 1 .. L : i # 1 => fl[i] = fl[i - 1] \o ss[i]
    <3>1. \A i \in 1 .. L : fl[i] = IF i = 1 THEN ss[1] ELSE fl[i - 1] \o ss[i]
      BY <2>5
    <3>2. 1 \in 1 .. L
      BY <1>1, <1>3
    <3> QED
      BY <3>1, <3>2
  <2> DEFINE f == [n \in 0 .. L |-> IF n = 0 THEN <<>> ELSE fl[n]]
  <2>8. \A n \in 1 .. L : f[n] = fl[n]
    BY <1>1
  <2>9. f[0] = <<>>
    BY <1>1
  <2>10. \A n \in 0 .. L : IsSeq(f[n])
    <3> DEFINE U == {n \in Nat : n <= L => IsSeq(f[n])}
    <3>1. 0 \in U
      BY <2>9, EmptyIs
    <3>2. ASSUME NEW n \in Nat, n \in U PROVE n + 1 \in U
      <4>1. SUFFICES ASSUME n + 1 <= L PROVE IsSeq(f[n + 1])
        OBVIOUS
      <4>2. n + 1 \in 1 .. L /\ n <= L
        BY <1>1, <4>1
      <4>3. CASE n = 0
        BY <2>7, <2>8, <4>2, <4>3
      <4>4. CASE n # 0
        <5>1. n \in 1 .. L /\ (n + 1) - 1 = n /\ n + 1 # 1
          BY <1>1, <4>2, <4>4
        <5>2. f[n + 1] = fl[n] \o ss[n + 1] /\ f[n] = fl[n]
          BY <2>7, <2>8, <4>2, <5>1
        <5>3. IsSeq(f[n])
          BY <3>2, <4>2
        <5>4. IsSeq(ss[n + 1])
          BY <4>2
        <5> HIDE DEF f
        <5>5. IsSeq(f[n] \o ss[n + 1])
          BY <5>3, <5>4, ConcatIs
        <5> QED
          BY <5>2, <5>5
      <4> QED
        BY <4>3, <4>4
    <3> HIDE DEF U
    <3>3. Nat \subseteq U
      BY <3>1, <3>2, Rises
    <3> HIDE DEF f
    <3>4. \A n \in 0 .. L : n \in Nat /\ n <= L
      BY <1>1
    <3> QED
      BY <3>3, <3>4 DEF U
  <2>11. \A n \in 1 .. L : f[n] = f[n - 1] \o ss[n]
    <3>1. ASSUME NEW n \in 1 .. L PROVE f[n] = f[n - 1] \o ss[n]
      <4>1. CASE n = 1
        <5>1. f[n - 1] = <<>> /\ f[n] = ss[1]
          BY <2>7, <2>8, <2>9, <4>1
        <5>2. ss[1] \in Seq(ToSet(ss[1]))
          BY <4>1 DEF IsSeq
        <5>3. <<>> \o ss[1] = ss[1]
          BY <5>2, ConcatEmptySeq
        <5> QED
          BY <4>1, <5>1, <5>3
      <4>2. CASE n # 1
        <5>1. n - 1 \in 1 .. L
          BY <1>1, <4>2
        <5> HIDE DEF f
        <5> QED
          BY <2>7, <2>8, <4>2, <5>1
      <4> QED
        BY <4>1, <4>2
    <3> QED
      BY <3>1
  <2>12. f = [n \in 0 .. L |-> f[n]]
    OBVIOUS
  <2>13. f[L] = fl[L]
    BY <1>1, <1>3
  <2> HIDE DEF f
  <2>14. Joined(ss, f)
    BY <2>9, <2>10, <2>11, <2>12 DEF Joined
  <2> QED
    BY <2>6, <2>13, <2>14
<1> QED
  BY <1>2, <1>3

(* Induction up to L.                                                      *)
LEMMA RisesTo ==
  ASSUME NEW L \in Nat, NEW T, 0 \in T, \A n \in 0 .. L - 1 : n \in T => n + 1 \in T
  PROVE  \A n \in 0 .. L : n \in T
<1> DEFINE U == {n \in Nat : n <= L => n \in T}
<1>1. 0 \in U
  OBVIOUS
<1>2. ASSUME NEW n \in Nat, n \in U PROVE n + 1 \in U
  <2>1. n + 1 <= L => n \in 0 .. L - 1 /\ n <= L
    OBVIOUS
  <2> QED
    BY <1>2, <2>1
<1> HIDE DEF U
<1>3. Nat \subseteq U
  BY <1>1, <1>2, Rises
<1>4. \A n \in 0 .. L : n \in Nat /\ n <= L
  OBVIOUS
<1> QED
  BY <1>3, <1>4 DEF U

Distinct(s) == \A m, n \in 1 .. Len(s) : s[m] = s[n] => m = n

(* Two sequences without repetitions and without a common element.         *)
LEMMA ConcatDistinct ==
  ASSUME NEW s, IsSeq(s), NEW t, IsSeq(t), Distinct(s), Distinct(t), ToSet(s) \cap ToSet(t) = {}
  PROVE  Distinct(s \o t)
<1> DEFINE u == s \o t
<1>1. /\ Len(u) = Len(s) + Len(t)
      /\ \A k \in 1 .. Len(s) : u[k] = s[k]
      /\ \A k \in 1 .. Len(t) : u[Len(s) + k] = t[k]
  BY ConcatIs
<1>2. Len(s) \in Nat /\ Len(t) \in Nat /\ DOMAIN s = 1 .. Len(s) /\ DOMAIN t = 1 .. Len(t)
  BY SeqDomain
<1> HIDE DEF u
<1>3. ASSUME NEW k \in 1 .. Len(u)
      PROVE  \/ k \in 1 .. Len(s) /\ u[k] = s[k] /\ u[k] \in ToSet(s)
             \/ k - Len(s) \in 1 .. Len(t) /\ u[k] = t[k - Len(s)] /\ u[k] \in ToSet(t)
  <2>1. CASE k \in 1 .. Len(s)
    BY <1>1, <1>2, <2>1 DEF ToSet
  <2>2. CASE k \notin 1 .. Len(s)
    <3>1. k - Len(s) \in 1 .. Len(t) /\ Len(s) + (k - Len(s)) = k
      BY <1>1, <1>2, <2>2
    <3>2. u[k] = t[k - Len(s)]
      BY <1>1, <3>1
    <3> QED
      BY <1>2, <3>1, <3>2 DEF ToSet
  <2> QED
    BY <2>1, <2>2
<1>4. ASSUME NEW m \in 1 .. Len(u), NEW n \in 1 .. Len(u), u[m] = u[n] PROVE m = n
  <2>1. CASE m \in 1 .. Len(s) /\ u[m] = s[m] /\ u[m] \in ToSet(s)
    <3>1. n \in 1 .. Len(s) /\ u[n] = s[n]
      BY <1>3, <1>4, <2>1
    <3> QED
      BY <1>4, <2>1, <3>1 DEF Distinct
  <2>2. CASE m - Len(s) \in 1 .. Len(t) /\ u[m] = t[m - Len(s)] /\ u[m] \in ToSet(t)
    <3>1. n - Len(s) \in 1 .. Len(t) /\ u[n] = t[n - Len(s)]
      BY <1>3, <1>4, <2>2
    <3>2. m - Len(s) = n - Len(s)
      BY <1>4, <2>2, <3>1 DEF Distinct
    <3> QED
      BY <1>2, <3>2
  <2> QED
    BY <1>3, <2>1, <2>2
<1> QED
  BY <1>4 DEF Distinct, u

Apart(ss) ==
  /\ \A n \in 1 .. Len(ss) : Distinct(ss[n])
  /\ \A m, n \in 1 .. Len(ss) : m # n => ToSet(ss[m]) \cap ToSet(ss[n]) = {}

(* What is in a joined sequence, and that nothing is in it twice if        *)
(* nothing is in two of its parts or twice in one.                         *)
LEMMA FlattenHas ==
  ASSUME NEW ss, IsSeq(ss), \A n \in 1 .. Len(ss) : IsSeq(ss[n])
  PROVE  /\ IsSeq(FlattenSeq(ss))
         /\ ToSet(FlattenSeq(ss)) = UNION {ToSet(ss[n]) : n \in 1 .. Len(ss)}
         /\ (Apart(ss) => Distinct(FlattenSeq(ss)))
<1> DEFINE L == Len(ss)
<1>1. PICK f : Joined(ss, f) /\ FlattenSeq(ss) = f[L]
  BY FlattenIs
<1>2. L \in Nat
  BY SeqDomain
<1> DEFINE Part(n) == /\ ToSet(f[n]) = UNION {ToSet(ss[m]) : m \in 1 .. n}
                      /\ (Apart(ss) => Distinct(f[n]))
           T == {n \in 0 .. L : Part(n)}
<1>3. 0 \in T
  <2>1. f[0] = <<>>
    BY <1>1 DEF Joined
  <2>2. UNION {ToSet(ss[m]) : m \in 1 .. 0} = {}
    OBVIOUS
  <2>3. Distinct(<<>>)
    BY EmptyIs DEF Distinct
  <2> QED
    BY <1>2, <2>1, <2>2, <2>3, EmptyIs
<1>4. ASSUME NEW n \in 0 .. L - 1, n \in T PROVE n + 1 \in T
  <2>1. n + 1 \in 1 .. L /\ (n + 1) - 1 = n /\ n \in 0 .. L /\ n + 1 \in 0 .. L
    BY <1>2
  <2>2. f[n + 1] = f[n] \o ss[n + 1] /\ IsSeq(f[n]) /\ IsSeq(ss[n + 1])
    BY <1>1, <2>1 DEF Joined
  <2>3. ToSet(f[n] \o ss[n + 1]) = ToSet(f[n]) \cup ToSet(ss[n + 1])
    BY <2>2, ConcatIs
  <2>4. \A m \in 1 .. n + 1 : m \in 1 .. n \/ m = n + 1
    BY <2>1
  <2>5. \A m \in 1 .. n : m \in 1 .. n + 1
    BY <2>1
  <2>6. n + 1 \in 1 .. n + 1
    BY <2>1
  <2>7. ToSet(f[n]) = UNION {ToSet(ss[m]) : m \in 1 .. n}
    BY <1>4
  <2>8. ToSet(f[n + 1]) = UNION {ToSet(ss[m]) : m \in 1 .. n + 1}
    BY <2>2, <2>3, <2>4, <2>5, <2>6, <2>7
  <2>9. ASSUME Apart(ss) PROVE Distinct(f[n + 1])
    <3>1. Distinct(f[n])
      BY <1>4, <2>9
    <3>2. \A m \in 1 .. n : m \in 1 .. L /\ m # n + 1
      BY <1>2
    <3>3. ToSet(f[n]) \cap ToSet(ss[n + 1]) = {}
      <4>1. ASSUME NEW m \in 1 .. n PROVE ToSet(ss[m]) \cap ToSet(ss[n + 1]) = {}
        BY <2>1, <2>9, <3>2 DEF Apart
      <4> QED
        BY <2>7, <4>1
    <3>4. Distinct(ss[n + 1])
      BY <2>1, <2>9 DEF Apart
    <3> QED
      BY <2>2, <3>1, <3>3, <3>4, ConcatDistinct
  <2> QED
    BY <2>1, <2>8, <2>9
<1> HIDE DEF T
<1>5. L \in T
  <2>1. \A n \in 0 .. L : n \in T
    BY <1>2, <1>3, <1>4, RisesTo
  <2> QED
    BY <1>2, <2>1
<1>6. Part(L)
  BY <1>5 DEF T
<1>7. IsSeq(f[L])
  BY <1>1, <1>2 DEF Joined
<1>8. ToSet(f[L]) = UNION {ToSet(ss[n]) : n \in 1 .. L} /\ (Apart(ss) => Distinct(f[L]))
  BY <1>6
<1> QED
  BY <1>1, <1>7, <1>8

(* Joining three sequences, the first two first or the last two.           *)
LEMMA Associates ==
  \A a, b, c : IsSeq(a) /\ IsSeq(b) /\ IsSeq(c) => (a \o b) \o c = a \o (b \o c)
<1> TAKE a, b, c
<1> HAVE IsSeq(a) /\ IsSeq(b) /\ IsSeq(c)
<1> DEFINE S == ToSet(a) \cup ToSet(b) \cup ToSet(c)
<1>1. a \in Seq(S) /\ b \in Seq(S) /\ c \in Seq(S)
  BY SeqMonotonic DEF IsSeq
<1> HIDE DEF S
<1>2. (a \o b) \o c = a \o (b \o c)
  BY <1>1, ConcatAssociative
<1> QED
  BY <1>2

(* The same for sequences that have a name: the provers do not see through *)
(* the three at once.                                                      *)
LEMMA JoinMore ==
  ASSUME NEW a, IsSeq(a), NEW b, IsSeq(b), NEW c, IsSeq(c),
         NEW u, u = a \o b, NEW v, v = u \o c, NEW w, w = b \o c
  PROVE  v = a \o w
BY Associates

(* What is joined begins with the first of the sequences.                  *)
LEMMA FlattenFirst ==
  ASSUME NEW ss, IsSeq(ss), \A n \in 1 .. Len(ss) : IsSeq(ss[n]), Len(ss) # 0
  PROVE  \E rest : /\ IsSeq(rest) /\ FlattenSeq(ss) = ss[1] \o rest
                   /\ ToSet(rest) = UNION {ToSet(ss[n]) : n \in 2 .. Len(ss)}
                   /\ Len(ss) = 1 => rest = <<>>
                   /\ Len(ss) = 2 => rest = ss[2]
<1> DEFINE L == Len(ss)
<1>1. PICK f : Joined(ss, f) /\ FlattenSeq(ss) = f[L]
  BY FlattenIs
<1>2. L \in Nat /\ 1 \in 1 .. L /\ IsSeq(ss[1])
  BY SeqDomain
<1> DEFINE P(n, rest) == /\ IsSeq(rest) /\ f[n + 1] = ss[1] \o rest
                         /\ ToSet(rest) = UNION {ToSet(ss[m]) : m \in 2 .. n + 1}
                         /\ n = 0 => rest = <<>>
                         /\ n = 1 => rest = ss[2]
           T == {n \in 0 .. L - 1 : \E rest : P(n, rest)}
<1>3. 0 \in T
  <2>1. f[1] = <<>> \o ss[1]
    <3>1. f[1] = f[1 - 1] \o ss[1] /\ f[0] = <<>>
      BY <1>1, <1>2 DEF Joined
    <3>2. 1 - 1 = 0
      OBVIOUS
    <3> QED
      BY <3>1, <3>2
  <2>2. ss[1] \in Seq(ToSet(ss[1]))
    BY <1>2 DEF IsSeq
  <2>3. f[1] = ss[1] \o <<>>
    BY <2>1, <2>2, ConcatEmptySeq
  <2>4. UNION {ToSet(ss[m]) : m \in 2 .. 0 + 1} = {}
    OBVIOUS
  <2>5. P(0, <<>>)
    BY <2>3, <2>4, EmptyIs
  <2> HIDE DEF P
  <2> QED
    BY <1>2, <2>5
<1>4. ASSUME NEW n \in 0 .. (L - 1) - 1, n \in T PROVE n + 1 \in T
  <2>1. /\ n + 2 \in 1 .. L /\ n + 1 \in 0 .. L - 1 /\ n + 2 \in 0 .. L /\ n + 1 \in 0 .. L
        /\ (n + 2) - 1 = n + 1 /\ (n + 1) + 1 = n + 2
    BY <1>2
  <2>2. PICK rest : P(n, rest)
    BY <1>4
  <2>3. f[n + 2] = f[n + 1] \o ss[n + 2] /\ IsSeq(ss[n + 2])
    BY <1>1, <2>1 DEF Joined
  <2> DEFINE r == rest \o ss[n + 2]
  <2>4. IsSeq(r) /\ ToSet(r) = ToSet(rest) \cup ToSet(ss[n + 2])
    BY <2>2, <2>3, ConcatIs
  <2>5. f[n + 2] = ss[1] \o r
    <3>1. PICK top : top = ss[1]
      OBVIOUS
    <3>2. PICK next : next = ss[n + 2]
      OBVIOUS
    <3>3. IsSeq(top) /\ IsSeq(rest) /\ IsSeq(next)
      BY <1>2, <2>2, <2>3, <3>1, <3>2
    <3>5. f[n + 1] = top \o rest /\ f[n + 2] = f[n + 1] \o next /\ r = rest \o next
      BY <2>2, <2>3, <3>1, <3>2, SMTT(30)
    <3>6. PICK u, v, w : f[n + 1] = u /\ f[n + 2] = v /\ r = w
      OBVIOUS
    <3>7. u = top \o rest /\ v = u \o next /\ w = rest \o next
      BY <3>5, <3>6
    <3>8. v = top \o w
      BY <3>3, <3>7, JoinMore
    <3> QED
      BY <3>1, <3>6, <3>8
  <2>6. ToSet(r) = UNION {ToSet(ss[m]) : m \in 2 .. n + 2}
    <3>1. \A m \in 2 .. n + 2 : m \in 2 .. n + 1 \/ m = n + 2
      BY <2>1
    <3>2. \A m \in 2 .. n + 1 : m \in 2 .. n + 2
      BY <2>1
    <3>3. n + 2 \in 2 .. n + 2
      BY <2>1
    <3> HIDE DEF r
    <3> QED
      BY <2>2, <2>4, <3>1, <3>2, <3>3
  <2>7. n + 1 = 1 => r = ss[2]
    <3>1. SUFFICES ASSUME n = 0 PROVE r = ss[2]
      BY <2>1
    <3>2. rest = <<>> /\ n + 2 = 2
      BY <2>2, <3>1
    <3>3. ss[2] \in Seq(ToSet(ss[2]))
      BY <2>3, <3>2 DEF IsSeq
    <3>4. <<>> \o ss[2] = ss[2]
      BY <3>3, ConcatEmptySeq
    <3> QED
      BY <3>2, <3>4
  <2> HIDE DEF r
  <2>8. P(n + 1, r)
    <3>1. f[(n + 1) + 1] = ss[1] \o r
      BY <2>1, <2>5
    <3>2. ToSet(r) = UNION {ToSet(ss[m]) : m \in 2 .. (n + 1) + 1}
      BY <2>1, <2>6
    <3>3. n + 1 # 0
      BY <2>1
    <3> QED
      BY <2>4, <2>7, <3>1, <3>2, <3>3
  <2> HIDE DEF P
  <2> QED
    BY <2>1, <2>8
<1> HIDE DEF T
<1>5. L - 1 \in T
  <2>1. L - 1 \in Nat
    BY <1>2
  <2>2. \A n \in 0 .. L - 1 : n \in T
    BY <1>3, <1>4, <2>1, RisesTo
  <2> QED
    BY <2>1, <2>2
<1>6. PICK rest : P(L - 1, rest)
  BY <1>5 DEF T
<1>7. (L - 1) + 1 = L /\ (L = 1 => L - 1 = 0) /\ (L = 2 => L - 1 = 1)
  BY <1>2
<1> QED
  BY <1>1, <1>6, <1>7

(* A part of a sequence.                                                   *)
LEMMA SubSeqIs ==
  ASSUME NEW s, IsSeq(s), NEW m \in 1 .. Len(s) + 1, NEW n \in 0 .. Len(s), m <= n + 1
  PROVE  /\ IsSeq(SubSeq(s, m, n)) /\ Len(SubSeq(s, m, n)) = n - m + 1
         /\ \A k \in 1 .. n - m + 1 : SubSeq(s, m, n)[k] = s[m + k - 1]
         /\ ToSet(SubSeq(s, m, n)) = {s[k] : k \in m .. n}
<1> DEFINE S == ToSet(s)
           u == SubSeq(s, m, n)
<1>1. s \in Seq(S) /\ Len(s) \in Nat /\ DOMAIN s = 1 .. Len(s) /\ m \in Nat /\ n \in Nat
  BY SeqDomain DEF IsSeq
<1>2. CASE m <= n
  <2>1. \A k \in m .. n : k \in 1 .. Len(s) /\ s[k] \in S
    BY <1>1 DEF ToSet
  <2>2. m \in 1 .. n + 1 /\ m .. n \subseteq 1 .. Len(s)
    BY <1>1, <1>2
  <2> HIDE DEF S
  <2>3. /\ u \in Seq(S) /\ Len(u) = n - m + 1
        /\ \A k \in 1 .. n - m + 1 : u[k] = s[m + k - 1]
    BY <1>1, <1>2, <2>1, <2>2, SubSeqProperties
  <2> HIDE DEF u
  <2>4. IsSeq(u) /\ DOMAIN u = 1 .. n - m + 1
    BY <2>3, SeqIs, SeqDomain
  <2>5. ToSet(u) = {s[k] : k \in m .. n}
    <3>1. ASSUME NEW k \in m .. n PROVE s[k] \in ToSet(u)
      <4>1. k - m + 1 \in 1 .. n - m + 1 /\ m + (k - m + 1) - 1 = k
        BY <1>1
      <4>2. u[k - m + 1] = s[k]
        BY <2>3, <4>1
      <4> QED
        BY <2>4, <4>1, <4>2 DEF ToSet
    <3>2. ASSUME NEW k \in DOMAIN u PROVE u[k] \in {s[j] : j \in m .. n}
      <4>1. m + k - 1 \in m .. n /\ u[k] = s[m + k - 1]
        BY <1>1, <2>3, <2>4
      <4> QED
        BY <4>1
    <3> QED
      BY <3>1, <3>2 DEF ToSet
  <2> QED
    BY <2>3, <2>4, <2>5 DEF u
<1>3. CASE ~(m <= n)
  <2>1. u = <<>>
    BY <1>1, <1>3, SubSeqEmpty
  <2>2. n - m + 1 = 0 /\ m .. n = {} /\ 1 .. n - m + 1 = {}
    BY <1>1, <1>3
  <2> QED
    BY <2>1, <2>2, EmptyIs
<1> QED
  BY <1>2, <1>3

(* The least of some numbers.                                              *)
LEMMA NatMinIs ==
  ASSUME NEW S, S \subseteq Nat, S # {}
  PROVE  Min(S) \in S /\ \A x \in S : Min(S) <= x
<1>1. \E m \in S : \A n \in S : m <= n
  BY NatMin
<1> QED
  BY <1>1 DEF Min

(* The relations of one kind, by their targets.                            *)
LEMMA ToIs ==
  ASSUME NEW kind, NEW S, IsFiniteSet(S), S \subseteq Int
  PROVE  LET s == [i \in 1 .. Cardinality(S) |-> [kind |-> kind, target |-> InOrder(S)[i]]]
         IN  IsSeq(s) /\ \A r \in ToSet(s) : r.kind = kind /\ r.target \in S
<1> DEFINE s == [i \in 1 .. Cardinality(S) |-> [kind |-> kind, target |-> InOrder(S)[i]]]
           c == Cardinality(S)
           o == InOrder(S)
<1>1. c \in Nat /\ DOMAIN o = 1 .. c /\ ToSet(o) = S
  BY InOrderIs
<1>2. \A i \in 1 .. c : s[i] = [kind |-> kind, target |-> o[i]]
  OBVIOUS
<1>3. s = [i \in 1 .. c |-> s[i]] /\ DOMAIN s = 1 .. c
  OBVIOUS
<1> HIDE DEF s, c, o
<1>4. IsSeq(s)
  BY <1>1, <1>3, FunctionIsSeq
<1>5. ASSUME NEW r \in ToSet(s) PROVE r.kind = kind /\ r.target \in S
  <2>1. PICK i \in 1 .. c : r = s[i]
    BY <1>3 DEF ToSet
  <2>2. o[i] \in S
    BY <1>1 DEF ToSet
  <2>3. r = [kind |-> kind, target |-> o[i]]
    BY <1>2, <2>1
  <2> QED
    BY <2>2, <2>3
<1> QED
  BY <1>4, <1>5 DEF s

(* An anchor that is in two chunks is declared by the later one.           *)
LEMMA TwoMembers ==
  ASSUME NEW S, IsFiniteSet(S), Cardinality(S) > 1
  PROVE  \E x, y \in S : x # y
<1> SUFFICES ASSUME \A x, y \in S : x = y PROVE FALSE
  OBVIOUS
<1>1. CASE S = {}
  BY <1>1, FS_EmptySet
<1>2. CASE S # {}
  <2>1. PICK x : S = {x}
    BY <1>2
  <2>2. Cardinality({x}) = 1
    BY FS_Singleton
  <2> QED
    BY <2>1, <2>2
<1> QED
  BY <1>1, <1>2

-----------------------------------------------------------------------------
(* The fold of locate_claim_article_spans, article by article. *)
TakeIter(text, sources, f, D) ==
  f = [v \in SUBSET D |->
         IF v = {} THEN <<>> ELSE Take(text, sources, f[v \ {Max(v)}], Wanted(sources)[Max(v)])]

(* The fold over the articles wanted has a value after each of them.       *)
LEMMA TakeExists ==
  ASSUME NEW text, NEW sources, NEW n \in Nat
  PROVE  \E f : TakeIter(text, sources, f, 1 .. n)
<1> DEFINE T == {m \in Nat : \E f : TakeIter(text, sources, f, 1 .. m)}
<1>1. 0 \in T
  <2> DEFINE f == [v \in SUBSET (1 .. 0) |-> <<>>]
  <2>1. SUBSET (1 .. 0) = {{}}
    OBVIOUS
  <2>2. TakeIter(text, sources, f, 1 .. 0)
    BY <2>1 DEF TakeIter
  <2> HIDE DEF f
  <2> QED
    BY <2>2
<1>2. ASSUME NEW m \in Nat, m \in T PROVE m + 1 \in T
  <2>1. PICK f : TakeIter(text, sources, f, 1 .. m)
    BY <1>2
  <2> DEFINE D == 1 .. m + 1
             h == [v \in SUBSET D |->
                     IF m + 1 \in v THEN Take(text, sources, f[v \ {m + 1}], Wanted(sources)[m + 1]) ELSE f[v]]
             next(v) == IF v = {} THEN <<>> ELSE Take(text, sources, h[v \ {Max(v)}], Wanted(sources)[Max(v)])
  <2>2. \A v \in SUBSET (1 .. m) : v \in SUBSET D /\ m + 1 \notin v /\ h[v] = f[v]
    OBVIOUS
  <2>3. ASSUME NEW v \in SUBSET D PROVE h[v] = next(v)
    <3>1. CASE m + 1 \in v
      <4>1. v # {} /\ v \in SUBSET (0 .. m + 1)
        BY <3>1
      <4>10. m + 1 \in Nat
        OBVIOUS
      <4>2. Max(v) \in v /\ \A x \in v : x <= Max(v)
        BY <4>1, <4>10, MaxIs
      <4>11. Max(v) \in 1 .. m + 1 /\ m + 1 <= Max(v)
        <5> HIDE DEF h, next
        <5>1. \A x \in v : x \in 1 .. m + 1
          OBVIOUS
        <5> HIDE DEF D
        <5> QED
          BY <3>1, <4>2, <5>1
      <4>3. Max(v) = m + 1
        <5> DEFINE M == Max(v)
        <5> HIDE DEF M, h, next, D
        <5>1. M \in 1 .. m + 1 /\ m + 1 <= M
          BY <4>11 DEF M
        <5>2. M = m + 1
          BY <5>1
        <5> QED
          BY <5>2 DEF M
      <4>4. v \ {m + 1} \in SUBSET (1 .. m)
        OBVIOUS
      <4>5. h[v \ {m + 1}] = f[v \ {m + 1}]
        BY <2>2, <4>4
      <4>6. h[v] = Take(text, sources, f[v \ {m + 1}], Wanted(sources)[m + 1])
        BY <3>1
      <4> HIDE DEF h
      <4> QED
        BY <4>1, <4>3, <4>5, <4>6
    <3>2. CASE m + 1 \notin v
      <4>1. v \in SUBSET (1 .. m)
        BY <3>2
      <4>2. h[v] = f[v] /\ h[v \ {Max(v)}] = f[v \ {Max(v)}]
        BY <2>2, <4>1
      <4>3. f[v] = IF v = {} THEN <<>> ELSE Take(text, sources, f[v \ {Max(v)}], Wanted(sources)[Max(v)])
        BY <2>1, <4>1 DEF TakeIter
      <4> HIDE DEF h
      <4> QED
        BY <4>2, <4>3
    <3> QED
      BY <3>1, <3>2
  <2>4. h = [v \in SUBSET D |-> h[v]]
    OBVIOUS
  <2> HIDE DEF h
  <2>5. TakeIter(text, sources, h, D)
    <3>1. h = [v \in SUBSET D |-> next(v)]
      BY <2>3, <2>4
    <3> QED
      BY <3>1 DEF TakeIter
  <2> QED
    BY <2>5
<1> HIDE DEF T
<1>3. Nat \subseteq T
  BY <1>1, <1>2, Rises
<1> QED
  BY <1>3 DEF T

(* locate_claim_article_spans takes the articles wanted one by one.        *)
LEMMA TakeSteps ==
  ASSUME NEW text, NEW sources, IsSeq(Wanted(sources))
  PROVE  \E g : /\ g[0] = <<>>
                /\ \A n \in 1 .. Len(Wanted(sources)) : g[n] = Take(text, sources, g[n - 1], Wanted(sources)[n])
                /\ Located(text, sources) = g[Len(Wanted(sources))]
<1> DEFINE W == Wanted(sources)
           L == Len(W)
           f == CHOOSE f : TakeIter(text, sources, f, DOMAIN W)
<1>1. L \in Nat /\ DOMAIN W = 1 .. L
  BY SeqDomain
<1>2. Located(text, sources) = f[DOMAIN W]
  BY DEF Located, FoldLeft, MapThenFoldSet, TakeIter
<1> HIDE DEF W
<1>3. \E e : TakeIter(text, sources, e, DOMAIN W)
  BY <1>1, TakeExists
<1>4. TakeIter(text, sources, f, DOMAIN W)
  BY <1>3
<1> HIDE DEF f
<1>5. f[{}] = <<>>
  BY <1>4 DEF TakeIter
<1>6. ASSUME NEW n \in 1 .. L PROVE f[1 .. n] = Take(text, sources, f[1 .. n - 1], Wanted(sources)[n])
  <2> DEFINE v == 1 .. n
  <2>1. n \in v /\ v \in SUBSET (0 .. n) /\ v \in SUBSET DOMAIN W /\ n \in Nat
    BY <1>1
  <2>2. Max(v) \in v /\ \A x \in v : x <= Max(v)
    BY <2>1, MaxIs
  <2>3. Max(v) = n /\ v \ {n} = 1 .. n - 1 /\ v # {}
    BY <2>1, <2>2
  <2> HIDE DEF v
  <2>4. f[v] = Take(text, sources, f[v \ {Max(v)}], Wanted(sources)[Max(v)])
    BY <1>4, <2>1, <2>3 DEF TakeIter
  <2> QED
    BY <2>3, <2>4 DEF v
<1> DEFINE g == [n \in 0 .. L |-> f[1 .. n]]
<1>7. g[0] = <<>> /\ g[L] = f[DOMAIN W]
  BY <1>1, <1>5
<1>8. \A n \in 1 .. L : g[n] = Take(text, sources, g[n - 1], Wanted(sources)[n])
  <2>1. \A n \in 1 .. L : n \in 0 .. L /\ n - 1 \in 0 .. L
    BY <1>1
  <2>2. \A n \in 0 .. L : g[n] = f[1 .. n]
    OBVIOUS
  <2> HIDE DEF g
  <2> QED
    BY <1>6, <2>1, <2>2
<1> HIDE DEF g
<1> QED
  BY <1>2, <1>7, <1>8 DEF W

(* The fold of the articles of one more mention. *)
MergeIter(target, incoming, f, D) ==
  f = [v \in SUBSET D |->
         IF v = {} THEN target ELSE MergeRef(f[v \ {Max(v)}], incoming[Max(v)])]

(* The fold of _merge_articles has a value after each article.             *)
LEMMA MergeExists ==
  ASSUME NEW target, NEW incoming, NEW n \in Nat
  PROVE  \E f : MergeIter(target, incoming, f, 1 .. n)
<1> DEFINE T == {m \in Nat : \E f : MergeIter(target, incoming, f, 1 .. m)}
<1>1. 0 \in T
  <2> DEFINE f == [v \in SUBSET (1 .. 0) |-> target]
  <2>1. SUBSET (1 .. 0) = {{}}
    OBVIOUS
  <2>2. MergeIter(target, incoming, f, 1 .. 0)
    BY <2>1 DEF MergeIter
  <2> HIDE DEF f
  <2> QED
    BY <2>2
<1>2. ASSUME NEW m \in Nat, m \in T PROVE m + 1 \in T
  <2>1. PICK f : MergeIter(target, incoming, f, 1 .. m)
    BY <1>2
  <2> DEFINE D == 1 .. m + 1
             h == [v \in SUBSET D |->
                     IF m + 1 \in v THEN MergeRef(f[v \ {m + 1}], incoming[m + 1]) ELSE f[v]]
             next(v) == IF v = {} THEN target ELSE MergeRef(h[v \ {Max(v)}], incoming[Max(v)])
  <2>2. \A v \in SUBSET (1 .. m) : v \in SUBSET D /\ m + 1 \notin v /\ h[v] = f[v]
    OBVIOUS
  <2>3. ASSUME NEW v \in SUBSET D PROVE h[v] = next(v)
    <3>1. CASE m + 1 \in v
      <4>1. v # {} /\ v \in SUBSET (0 .. m + 1)
        BY <3>1
      <4>10. m + 1 \in Nat
        OBVIOUS
      <4>2. Max(v) \in v /\ \A x \in v : x <= Max(v)
        BY <4>1, <4>10, MaxIs
      <4>11. Max(v) \in 1 .. m + 1 /\ m + 1 <= Max(v)
        <5> HIDE DEF h, next
        <5>1. \A x \in v : x \in 1 .. m + 1
          OBVIOUS
        <5> HIDE DEF D
        <5> QED
          BY <3>1, <4>2, <5>1
      <4>3. Max(v) = m + 1
        <5> DEFINE M == Max(v)
        <5> HIDE DEF M, h, next, D
        <5>1. M \in 1 .. m + 1 /\ m + 1 <= M
          BY <4>11 DEF M
        <5>2. M = m + 1
          BY <5>1
        <5> QED
          BY <5>2 DEF M
      <4>4. v \ {m + 1} \in SUBSET (1 .. m)
        OBVIOUS
      <4>5. h[v \ {m + 1}] = f[v \ {m + 1}]
        BY <2>2, <4>4
      <4>6. h[v] = MergeRef(f[v \ {m + 1}], incoming[m + 1])
        BY <3>1
      <4> HIDE DEF h
      <4> QED
        BY <4>1, <4>3, <4>5, <4>6
    <3>2. CASE m + 1 \notin v
      <4>1. v \in SUBSET (1 .. m)
        BY <3>2
      <4>2. h[v] = f[v] /\ h[v \ {Max(v)}] = f[v \ {Max(v)}]
        BY <2>2, <4>1
      <4>3. f[v] = IF v = {} THEN target ELSE MergeRef(f[v \ {Max(v)}], incoming[Max(v)])
        BY <2>1, <4>1 DEF MergeIter
      <4> HIDE DEF h
      <4> QED
        BY <4>2, <4>3
    <3> QED
      BY <3>1, <3>2
  <2>4. h = [v \in SUBSET D |-> h[v]]
    OBVIOUS
  <2> HIDE DEF h
  <2>5. MergeIter(target, incoming, h, D)
    <3>1. h = [v \in SUBSET D |-> next(v)]
      BY <2>3, <2>4
    <3> QED
      BY <3>1 DEF MergeIter
  <2> QED
    BY <2>5
<1> HIDE DEF T
<1>3. Nat \subseteq T
  BY <1>1, <1>2, Rises
<1> QED
  BY <1>3 DEF T

(* _merge_articles takes the incoming articles one by one.                 *)
LEMMA MergeSteps ==
  ASSUME NEW target, NEW incoming, IsSeq(incoming)
  PROVE  \E g : /\ g[0] = target
                /\ \A n \in 1 .. Len(incoming) : g[n] = MergeRef(g[n - 1], incoming[n])
                /\ MergeArticles(target, incoming) = g[Len(incoming)]
<1> DEFINE W == incoming
           L == Len(W)
           f == CHOOSE f : MergeIter(target, incoming, f, DOMAIN W)
<1>1. L \in Nat /\ DOMAIN W = 1 .. L
  BY SeqDomain
<1>2. MergeArticles(target, incoming) = f[DOMAIN W]
  BY DEF MergeArticles, FoldLeft, MapThenFoldSet, MergeIter
<1> HIDE DEF W
<1>3. \E e : MergeIter(target, incoming, e, DOMAIN W)
  BY <1>1, MergeExists
<1>4. MergeIter(target, incoming, f, DOMAIN W)
  BY <1>3
<1> HIDE DEF f
<1>5. f[{}] = target
  BY <1>4 DEF MergeIter
<1>6. ASSUME NEW n \in 1 .. L PROVE f[1 .. n] = MergeRef(f[1 .. n - 1], incoming[n])
  <2> DEFINE v == 1 .. n
  <2>1. n \in v /\ v \in SUBSET (0 .. n) /\ v \in SUBSET DOMAIN W /\ n \in Nat
    BY <1>1
  <2>2. Max(v) \in v /\ \A x \in v : x <= Max(v)
    BY <2>1, MaxIs
  <2>3. Max(v) = n /\ v \ {n} = 1 .. n - 1 /\ v # {}
    BY <2>1, <2>2
  <2> HIDE DEF v
  <2>4. f[v] = MergeRef(f[v \ {Max(v)}], incoming[Max(v)])
    BY <1>4, <2>1, <2>3 DEF MergeIter
  <2> QED
    BY <2>3, <2>4 DEF v
<1> DEFINE g == [n \in 0 .. L |-> f[1 .. n]]
<1>7. g[0] = target /\ g[L] = f[DOMAIN W]
  BY <1>1, <1>5
<1>8. \A n \in 1 .. L : g[n] = MergeRef(g[n - 1], incoming[n])
  <2>1. \A n \in 1 .. L : n \in 0 .. L /\ n - 1 \in 0 .. L
    BY <1>1
  <2>2. \A n \in 0 .. L : g[n] = f[1 .. n]
    OBVIOUS
  <2> HIDE DEF g
  <2> QED
    BY <1>6, <2>1, <2>2
<1> HIDE DEF g
<1> QED
  BY <1>2, <1>7, <1>8 DEF W

(* The fold of the mentions. *)
GatherIter(first, rest, f, D) ==
  f = [v \in SUBSET D |->
         IF v = {} THEN first ELSE MergeArticles(f[v \ {Max(v)}], rest[Max(v)])]

(* The fold over the mentions of a statute has a value after each of them. *)
LEMMA GatherExists ==
  ASSUME NEW first, NEW rest, NEW n \in Nat
  PROVE  \E f : GatherIter(first, rest, f, 1 .. n)
<1> DEFINE T == {m \in Nat : \E f : GatherIter(first, rest, f, 1 .. m)}
<1>1. 0 \in T
  <2> DEFINE f == [v \in SUBSET (1 .. 0) |-> first]
  <2>1. SUBSET (1 .. 0) = {{}}
    OBVIOUS
  <2>2. GatherIter(first, rest, f, 1 .. 0)
    BY <2>1 DEF GatherIter
  <2> HIDE DEF f
  <2> QED
    BY <2>2
<1>2. ASSUME NEW m \in Nat, m \in T PROVE m + 1 \in T
  <2>1. PICK f : GatherIter(first, rest, f, 1 .. m)
    BY <1>2
  <2> DEFINE D == 1 .. m + 1
             h == [v \in SUBSET D |->
                     IF m + 1 \in v THEN MergeArticles(f[v \ {m + 1}], rest[m + 1]) ELSE f[v]]
             next(v) == IF v = {} THEN first ELSE MergeArticles(h[v \ {Max(v)}], rest[Max(v)])
  <2>2. \A v \in SUBSET (1 .. m) : v \in SUBSET D /\ m + 1 \notin v /\ h[v] = f[v]
    OBVIOUS
  <2>3. ASSUME NEW v \in SUBSET D PROVE h[v] = next(v)
    <3>1. CASE m + 1 \in v
      <4>1. v # {} /\ v \in SUBSET (0 .. m + 1)
        BY <3>1
      <4>10. m + 1 \in Nat
        OBVIOUS
      <4>2. Max(v) \in v /\ \A x \in v : x <= Max(v)
        BY <4>1, <4>10, MaxIs
      <4>11. Max(v) \in 1 .. m + 1 /\ m + 1 <= Max(v)
        <5> HIDE DEF h, next
        <5>1. \A x \in v : x \in 1 .. m + 1
          OBVIOUS
        <5> HIDE DEF D
        <5> QED
          BY <3>1, <4>2, <5>1
      <4>3. Max(v) = m + 1
        <5> DEFINE M == Max(v)
        <5> HIDE DEF M, h, next, D
        <5>1. M \in 1 .. m + 1 /\ m + 1 <= M
          BY <4>11 DEF M
        <5>2. M = m + 1
          BY <5>1
        <5> QED
          BY <5>2 DEF M
      <4>4. v \ {m + 1} \in SUBSET (1 .. m)
        OBVIOUS
      <4>5. h[v \ {m + 1}] = f[v \ {m + 1}]
        BY <2>2, <4>4
      <4>6. h[v] = MergeArticles(f[v \ {m + 1}], rest[m + 1])
        BY <3>1
      <4> HIDE DEF h
      <4> QED
        BY <4>1, <4>3, <4>5, <4>6
    <3>2. CASE m + 1 \notin v
      <4>1. v \in SUBSET (1 .. m)
        BY <3>2
      <4>2. h[v] = f[v] /\ h[v \ {Max(v)}] = f[v \ {Max(v)}]
        BY <2>2, <4>1
      <4>3. f[v] = IF v = {} THEN first ELSE MergeArticles(f[v \ {Max(v)}], rest[Max(v)])
        BY <2>1, <4>1 DEF GatherIter
      <4> HIDE DEF h
      <4> QED
        BY <4>2, <4>3
    <3> QED
      BY <3>1, <3>2
  <2>4. h = [v \in SUBSET D |-> h[v]]
    OBVIOUS
  <2> HIDE DEF h
  <2>5. GatherIter(first, rest, h, D)
    <3>1. h = [v \in SUBSET D |-> next(v)]
      BY <2>3, <2>4
    <3> QED
      BY <3>1 DEF GatherIter
  <2> QED
    BY <2>5
<1> HIDE DEF T
<1>3. Nat \subseteq T
  BY <1>1, <1>2, Rises
<1> QED
  BY <1>3 DEF T

Gathered(first, rest, g) ==
  /\ g[0] = first
  /\ \A n \in 1 .. Len(rest) : g[n] = MergeArticles(g[n - 1], rest[n])
  /\ FoldLeft(MergeArticles, first, rest) = g[Len(rest)]

(* The articles of a statute are merged mention by mention.                *)
LEMMA GatherSteps ==
  ASSUME NEW first, NEW rest, IsSeq(rest)
  PROVE  \E g : Gathered(first, rest, g)
<1> DEFINE W == rest
           L == Len(W)
           f == CHOOSE f : GatherIter(first, rest, f, DOMAIN W)
<1>1. L \in Nat /\ DOMAIN W = 1 .. L
  BY SeqDomain
<1>2. FoldLeft(MergeArticles, first, rest) = f[DOMAIN W]
  BY DEF FoldLeft, MapThenFoldSet, GatherIter
<1> HIDE DEF W
<1>3. \E e : GatherIter(first, rest, e, DOMAIN W)
  BY <1>1, GatherExists
<1>4. GatherIter(first, rest, f, DOMAIN W)
  BY <1>3
<1> HIDE DEF f
<1>5. f[{}] = first
  BY <1>4 DEF GatherIter
<1>6. ASSUME NEW n \in 1 .. L PROVE f[1 .. n] = MergeArticles(f[1 .. n - 1], rest[n])
  <2> DEFINE v == 1 .. n
  <2>1. n \in v /\ v \in SUBSET (0 .. n) /\ v \in SUBSET DOMAIN W /\ n \in Nat
    BY <1>1
  <2>2. Max(v) \in v /\ \A x \in v : x <= Max(v)
    BY <2>1, MaxIs
  <2>3. Max(v) = n /\ v \ {n} = 1 .. n - 1 /\ v # {}
    BY <2>1, <2>2
  <2> HIDE DEF v
  <2>4. f[v] = MergeArticles(f[v \ {Max(v)}], rest[Max(v)])
    BY <1>4, <2>1, <2>3 DEF GatherIter
  <2> QED
    BY <2>3, <2>4 DEF v
<1> DEFINE g == [n \in 0 .. L |-> f[1 .. n]]
<1>7. g[0] = first /\ g[L] = f[DOMAIN W]
  BY <1>1, <1>5
<1>8. \A n \in 1 .. L : g[n] = MergeArticles(g[n - 1], rest[n])
  <2>1. \A n \in 1 .. L : n \in 0 .. L /\ n - 1 \in 0 .. L
    BY <1>1
  <2>2. \A n \in 0 .. L : g[n] = f[1 .. n]
    OBVIOUS
  <2> HIDE DEF g
  <2> QED
    BY <1>6, <2>1, <2>2
<1> HIDE DEF g
<1> QED
  BY <1>2, <1>7, <1>8 DEF W, Gathered

-----------------------------------------------------------------------------
(* A text with the words of articles, but of no group of them, and none    *)
(* that stands for one.                                                    *)
PlainWords(text) == \A i \in DOMAIN text : text[i] \notin DOMAIN Groups \cup Relative

(* The articles such a text names: a number one, any other word none.      *)
LEMMA PlainAt ==
  ASSUME NEW text, PlainWords(text), NEW i \in DOMAIN text
  PROVE  /\ i \in NumberPositions(text) <=> text[i] \in Articles
         /\ text[i] \in Numbers <=> text[i] \in Articles
         /\ NumbersAt(text, i) = {text[i]} \cap Articles
<1>1. text[i] \notin DOMAIN Groups /\ text[i] \notin Relative
  BY DEF PlainWords
<1>2. text[i] \in Numbers <=> text[i] \in Articles
  BY <1>1 DEF Numbers, Ranges
<1>3. NumbersAt(text, i) = ToSet(Arts(text[i]))
  BY <1>1 DEF NumbersAt
<1>4. CASE text[i] \in Articles
  <2>1. Arts(text[i]) = <<text[i]>>
    BY <1>4 DEF Arts
  <2> QED
    BY <1>2, <1>3, <1>4, <2>1, SingleIs DEF NumberPositions
<1>5. CASE text[i] \notin Articles
  <2>1. Arts(text[i]) = <<>>
    BY <1>1, <1>5 DEF Arts
  <2> QED
    BY <1>2, <1>3, <1>5, <2>1, EmptyIs DEF NumberPositions
<1> QED
  BY <1>4, <1>5

(* What a source cites are articles, however they are gathered.            *)
IsArticle(r) == r = Ref(r.art, r.paras, r.raw) /\ r.art \in Articles
AreArticles(refs) == IsSeq(refs) /\ \A r \in ToSet(refs) : IsArticle(r)

(* A record of an article is one.                                          *)
LEMMA RefIs ==
  ASSUME NEW a, NEW p, NEW x
  PROVE  /\ Ref(a, p, x).art = a /\ Ref(a, p, x).paras = p /\ Ref(a, p, x).raw = x
         /\ Ref(a, p, x) = Ref(Ref(a, p, x).art, Ref(a, p, x).paras, Ref(a, p, x).raw)
         /\ a \in Articles => IsArticle(Ref(a, p, x))
<1> DEFINE r == Ref(a, p, x)
<1>1. r.art = a /\ r.paras = p /\ r.raw = x
  BY DEF Ref
<1> HIDE DEF r
<1>2. r = Ref(r.art, r.paras, r.raw)
  BY <1>1 DEF r
<1>3. a \in Articles => IsArticle(r)
  BY <1>1, <1>2 DEF IsArticle
<1> QED
  BY <1>1, <1>2, <1>3 DEF r

(* An article that is cited as such, not as a paragraph alone.             *)
WholeArticle(a, paras) == Ref(a, paras, "")
IsWholeArticle(r) == r.raw = ""

(* Its fields.                                                             *)
LEMMA WholeArticleIs ==
  ASSUME NEW a, NEW p
  PROVE  /\ WholeArticle(a, p).art = a /\ WholeArticle(a, p).paras = p /\ IsWholeArticle(WholeArticle(a, p))
         /\ WholeArticle(a, p) = Ref(a, p, WholeArticle(a, p).raw)
         /\ a \in Articles => IsArticle(WholeArticle(a, p))
<1>1. PICK x : x = ""
  OBVIOUS
<1> DEFINE q == Ref(a, p, x)
           r == WholeArticle(a, p)
<1>2. r = q
  BY <1>1 DEF WholeArticle
<1>3. q.art = a /\ q.paras = p /\ q.raw = x /\ (a \in Articles => IsArticle(q))
  BY RefIs
<1> HIDE DEF q, r
<1>4. r.art = a /\ r.paras = p /\ r.raw = x /\ (a \in Articles => IsArticle(r))
  BY <1>2, <1>3
<1>5. IsWholeArticle(r)
  BY <1>1, <1>4 DEF IsWholeArticle
<1>6. r = Ref(a, p, r.raw)
  BY <1>2, <1>4 DEF q
<1> QED
  BY <1>4, <1>5, <1>6 DEF r

(* The articles of a source: each once.                                    *)
OnceEach(refs) ==
  /\ IsSeq(refs) /\ \A r \in ToSet(refs) : IsSeq(r.paras)
  /\ \A m, n \in 1 .. Len(refs) : refs[m].art = refs[n].art => m = n

Sourced(sources) ==
  /\ IsSeq(sources)
  /\ \A k \in DOMAIN sources : /\ OnceEach(sources[k].articles)
                               /\ \A r \in ToSet(sources[k].articles) : IsWholeArticle(r)
Want(sources) == ToSet(Wanted(sources))

(* What is looked for: each article of each source, once.                  *)
LEMMA WantedIs ==
  ASSUME NEW sources, Sourced(sources)
  PROVE  /\ IsSeq(Wanted(sources)) /\ Distinct(Wanted(sources))
         /\ \A k \in DOMAIN sources : \A r \in ToSet(sources[k].articles) :
              [source |-> k, ref |-> r] \in Want(sources)
         /\ \A w \in Want(sources) :
              /\ w.source \in DOMAIN sources /\ w.ref \in ToSet(sources[w.source].articles)
              /\ w = [source |-> w.source, ref |-> w.ref]
<1> DEFINE part(k) == [n \in DOMAIN sources[k].articles |-> [source |-> k, ref |-> sources[k].articles[n]]]
           ss == [k \in DOMAIN sources |-> part(k)]
<1>1. Wanted(sources) = FlattenSeq(ss)
  BY DEF Wanted
<1>2. IsSeq(ss) /\ Len(ss) = Len(sources) /\ DOMAIN sources = 1 .. Len(sources)
  <2>1. Len(sources) \in Nat /\ DOMAIN sources = 1 .. Len(sources)
    BY SeqDomain DEF Sourced
  <2>2. ss = [k \in 1 .. Len(sources) |-> ss[k]]
    BY <2>1
  <2> HIDE DEF ss
  <2> QED
    BY <2>1, <2>2, FunctionIsSeq
<1>3. ASSUME NEW k \in DOMAIN sources
      PROVE  /\ IsSeq(part(k)) /\ Distinct(part(k))
             /\ \A r \in ToSet(sources[k].articles) : [source |-> k, ref |-> r] \in ToSet(part(k))
             /\ \A w \in ToSet(part(k)) : /\ w.source = k /\ w.ref \in ToSet(sources[k].articles)
                                          /\ w = [source |-> w.source, ref |-> w.ref]
  <2> DEFINE as == sources[k].articles
             L == Len(as)
             p == part(k)
  <2>1. L \in Nat /\ DOMAIN as = 1 .. L /\ \A m, n \in 1 .. L : as[m].art = as[n].art => m = n
    BY SeqDomain DEF Sourced, OnceEach
  <2>2. \A n \in 1 .. L : p[n] = [source |-> k, ref |-> as[n]]
    BY <2>1
  <2>3. p = [n \in 1 .. L |-> p[n]] /\ DOMAIN p = 1 .. L
    BY <2>1
  <2> HIDE DEF p, L
  <2>4. IsSeq(p) /\ Len(p) = L
    BY <2>1, <2>3, FunctionIsSeq
  <2>5. \A n \in 1 .. L : p[n].source = k /\ p[n].ref = as[n] /\ p[n] = [source |-> p[n].source, ref |-> p[n].ref]
    <3> HIDE DEF as
    <3> TAKE n \in 1 .. L
    <3> DEFINE q == p[n]
               a == as[n]
    <3>1. q = [source |-> k, ref |-> a]
      BY <2>2
    <3> HIDE DEF q, a
    <3>2. q.source = k /\ q.ref = a /\ q = [source |-> q.source, ref |-> q.ref]
      BY <3>1
    <3> QED
      BY <3>2 DEF q, a
  <2>6. Distinct(p)
    BY <2>1, <2>4, <2>5 DEF Distinct
  <2>7. \A r \in ToSet(as) : [source |-> k, ref |-> r] \in ToSet(p)
    BY <2>1, <2>2, <2>3 DEF ToSet
  <2>8. \A w \in ToSet(p) : w.source = k /\ w.ref \in ToSet(as) /\ w = [source |-> w.source, ref |-> w.ref]
    BY <2>1, <2>3, <2>5 DEF ToSet
  <2> QED
    BY <2>4, <2>6, <2>7, <2>8 DEF p
<1>4. \A k \in 1 .. Len(ss) : ss[k] = part(k) /\ k \in DOMAIN sources
  BY <1>2
<1> HIDE DEF part, ss
<1>5. \A k \in 1 .. Len(ss) : IsSeq(ss[k])
  BY <1>3, <1>4
<1>6. Apart(ss)
  <2>1. ASSUME NEW m \in 1 .. Len(ss), NEW n \in 1 .. Len(ss), m # n
        PROVE  ToSet(ss[m]) \cap ToSet(ss[n]) = {}
    BY <1>3, <1>4, <2>1
  <2> QED
    BY <1>3, <1>4, <2>1 DEF Apart
<1>7. IsSeq(FlattenSeq(ss)) /\ Distinct(FlattenSeq(ss))
      /\ ToSet(FlattenSeq(ss)) = UNION {ToSet(ss[n]) : n \in 1 .. Len(ss)}
  BY <1>2, <1>5, <1>6, FlattenHas
<1>8. Want(sources) = UNION {ToSet(part(n)) : n \in DOMAIN sources}
  BY <1>1, <1>2, <1>4, <1>7 DEF Want
<1> QED
  BY <1>1, <1>3, <1>7, <1>8

(* Where the articles are cited: P is the place of each in the text, where *)
(* the look for it comes to, and where its paragraphs follow.              *)
Places(text, sources, P) ==
  /\ \A w \in Want(sources) : P[w] \in NumberPositions(text) /\ text[P[w]] = w.ref.art
  /\ \A w, v \in Want(sources) : P[w] = P[v] => w = v
SoughtAt(text, sources, P) ==
  \A w \in Want(sources) :
    LET span == sources[w.source].span
    IN  \/ /\ span # 0 /\ P[w] > span
           /\ \A i \in DOMAIN text : text[i] = w.ref.art /\ i > span => P[w] <= i
        \/ /\ span = 0
           /\ \A i \in DOMAIN text : text[i] = w.ref.art => i = P[w]
           /\ \A k \in DOMAIN sources :
                (\E n \in DOMAIN sources[k].articles : sources[k].articles[n].art = w.ref.art)
                  => k = w.source
ParagraphsFollow(text, sources, P) ==
  \A w \in Want(sources) : \A x \in ToSet(w.ref.paras) :
    \E i \in DOMAIN text :
      i > P[w] /\ text[i] = x /\ \A v \in Want(sources) : P[v] > P[w] => i < P[v]

Fits(text, sources, P) ==
  /\ IsSeq(text) /\ PlainWords(text) /\ Sourced(sources)
  /\ Places(text, sources, P) /\ SoughtAt(text, sources, P) /\ ParagraphsFollow(text, sources, P)

NumberMention(text, sources, i) == [at |-> i, art |-> text[i], owner |-> Owner(text, sources, i)]
Entry(text, sources, P, w) ==
  [source |-> w.source, mention |-> NumberMention(text, sources, P[w])]

(* The fields of an article that was located.                              *)
LEMMA EntryIs ==
  ASSUME NEW text, NEW sources, NEW P, NEW w
  PROVE  LET f == Entry(text, sources, P, w)
         IN  f.source = w.source /\ f.mention.at = P[w] /\ f.mention.art = text[P[w]]
<1> DEFINE m == NumberMention(text, sources, P[w])
           f == Entry(text, sources, P, w)
<1>1. f = [source |-> w.source, mention |-> m]
  BY DEF Entry
<1>2. m.at = P[w] /\ m.art = text[P[w]]
  BY DEF NumberMention
<1> HIDE DEF m, f
<1> QED
  BY <1>1, <1>2 DEF f

(* What is mentioned in a plain text: its numbers.                         *)
LEMMA MentionedIs ==
  ASSUME NEW text, NEW sources, PlainWords(text), Sourced(sources)
  PROVE  Mentioned(text, sources) = {NumberMention(text, sources, i) : i \in NumberPositions(text)}
<1> DEFINE here(i) == {[at |-> i, art |-> art, owner |-> Owner(text, sources, i)] : art \in NumbersAt(text, i)}
<1>1. ASSUME NEW s \in ToSet(sources) PROVE Raws(text, s) = {}
  <2>1. PICK k \in DOMAIN sources : s = sources[k]
    BY DEF ToSet
  <2>2. {r \in ToSet(s.articles) : r.raw # "" /\ RawPlaces(text, s, r) # {}} = {}
    BY <2>1 DEF Sourced, IsWholeArticle
  <2> QED
    BY <2>2 DEF Raws
<1>2. UNION {Raws(text, s) : s \in ToSet(sources)} = {}
  BY <1>1
<1>3. ASSUME NEW i \in DOMAIN text
      PROVE  here(i) = IF i \in NumberPositions(text) THEN {NumberMention(text, sources, i)} ELSE {}
  <2>1. NumbersAt(text, i) = {text[i]} \cap Articles /\ (i \in NumberPositions(text) <=> text[i] \in Articles)
    BY PlainAt
  <2>2. CASE text[i] \in Articles
    <3>1. NumbersAt(text, i) = {text[i]} /\ i \in NumberPositions(text)
      BY <2>1, <2>2
    <3> QED
      BY <3>1 DEF NumberMention
  <2>3. CASE text[i] \notin Articles
    <3>1. NumbersAt(text, i) = {} /\ i \notin NumberPositions(text)
      BY <2>1, <2>3
    <3> QED
      BY <3>1
  <2> QED
    BY <2>2, <2>3
<1>4. NumberPositions(text) \subseteq DOMAIN text
  BY DEF NumberPositions
<1>5. Mentioned(text, sources) = UNION {here(i) : i \in DOMAIN text}
  BY <1>2 DEF Mentioned
<1> HIDE DEF here
<1> QED
  BY <1>3, <1>4, <1>5

(* Where each article has a place of its own, that is the place it finds.  *)
LEMMA MentionIs ==
  ASSUME NEW text, NEW sources, NEW P, Fits(text, sources, P), NEW w \in Want(sources),
         NEW used, NumberMention(text, sources, P[w]) \notin used
  PROVE  MentionFor(text, sources, w, used) = {NumberMention(text, sources, P[w])}
<1> DEFINE art == w.ref.art
           all == {m \in Mentioned(text, sources) : m.art = art}
           source == sources[w.source]
           claiming == {k \in DOMAIN sources :
                          \E n \in DOMAIN sources[k].articles : sources[k].articles[n].art = art}
           fit == IF source.span # 0 THEN {m \in all \ used : m.at > source.span}
                  ELSE IF Cardinality(all) = 1 /\ Cardinality(claiming) = 1 THEN all \ used
                  ELSE {m \in all \ used : m.owner = source.title}
           p == NumberMention(text, sources, P[w])
           M(i) == NumberMention(text, sources, i)
<1>1. MentionFor(text, sources, w, used) = {m \in fit : \A o \in fit : m.at <= o.at}
  BY DEF MentionFor
<1>2. \A i : M(i).at = i /\ M(i).art = text[i]
  BY DEF NumberMention
<1>3. Mentioned(text, sources) = {M(i) : i \in NumberPositions(text)}
  BY MentionedIs DEF Fits
<1>4. P[w] \in NumberPositions(text) /\ text[P[w]] = art
  BY DEF Fits, Places
<1>5. NumberPositions(text) \subseteq DOMAIN text /\ DOMAIN text \subseteq Nat
  BY SeqDomain DEF Fits, NumberPositions
<1> HIDE DEF M
<1>6. p = M(P[w]) /\ p.at = P[w] /\ P[w] \in Nat
  BY <1>2, <1>4, <1>5 DEF M
<1> HIDE DEF p
<1>7. p \in all /\ p \notin used
  BY <1>2, <1>3, <1>4, <1>6 DEF p
<1>8. ASSUME NEW m \in all PROVE m = M(m.at) /\ m.at \in NumberPositions(text) /\ text[m.at] = art
  BY <1>2, <1>3
<1> HIDE DEF all
<1>9. CASE /\ source.span # 0 /\ P[w] > source.span
           /\ \A i \in DOMAIN text : text[i] = w.ref.art /\ i > source.span => P[w] <= i
  <2>1. fit = {m \in all \ used : m.at > source.span}
    BY <1>9
  <2>2. p \in fit
    BY <1>6, <1>7, <1>9, <2>1
  <2>3. \A m \in fit : m = M(m.at) /\ m.at \in Nat /\ P[w] <= m.at
    BY <1>5, <1>8, <1>9, <2>1
  <2> HIDE DEF fit
  <2>4. \A m \in fit : m.at <= p.at => m = p
    BY <1>6, <2>3
  <2> QED
    BY <1>1, <1>6, <2>2, <2>3, <2>4 DEF p
<1>10. CASE /\ source.span = 0
            /\ \A i \in DOMAIN text : text[i] = w.ref.art => i = P[w]
            /\ \A k \in DOMAIN sources :
                 (\E n \in DOMAIN sources[k].articles : sources[k].articles[n].art = w.ref.art)
                   => k = w.source
  <2>1. all = {p}
    BY <1>5, <1>6, <1>7, <1>8, <1>10
  <2>2. claiming = {w.source}
    <3>1. w.source \in DOMAIN sources /\ w.ref \in ToSet(source.articles)
      BY WantedIs DEF Fits
    <3>2. w.source \in claiming
      BY <3>1 DEF ToSet
    <3> QED
      BY <1>10, <3>2
  <2>3. Cardinality(all) = 1 /\ Cardinality(claiming) = 1
    <3> HIDE DEF claiming
    <3> QED
      BY <2>1, <2>2, FS_Singleton
  <2>4. fit = {p}
    BY <1>7, <1>10, <2>1, <2>3
  <2> HIDE DEF fit
  <2> QED
    BY <1>1, <1>6, <2>4 DEF p
<1> QED
  BY <1>9, <1>10 DEF Fits, SoughtAt

FoundAll(text, sources, P, found) ==
  /\ IsSeq(found) /\ Len(found) = Len(Wanted(sources))
  /\ \A n \in 1 .. Len(found) :
       Wanted(sources)[n] \in Want(sources) /\ found[n] = Entry(text, sources, P, Wanted(sources)[n])
  /\ Want(sources) = {Wanted(sources)[n] : n \in 1 .. Len(found)}

(* And so each article is located there, whatever is taken first.          *)
LEMMA LocatedIs ==
  ASSUME NEW text, NEW sources, NEW P, Fits(text, sources, P)
  PROVE  FoundAll(text, sources, P, Located(text, sources))
<1> DEFINE W == Wanted(sources)
           L == Len(W)
           E(w) == Entry(text, sources, P, w)
<1>1. IsSeq(W) /\ Distinct(W)
  BY WantedIs DEF Fits
<1>2. L \in Nat /\ DOMAIN W = 1 .. L
  BY <1>1, SeqDomain
<1>3. PICK g : /\ g[0] = <<>>
               /\ \A n \in 1 .. L : g[n] = Take(text, sources, g[n - 1], W[n])
               /\ Located(text, sources) = g[L]
  BY <1>1, TakeSteps
<1>4. \A n \in 1 .. L : W[n] \in Want(sources)
  BY <1>2 DEF Want, ToSet
<1>5. {W[n] : n \in 1 .. L} = Want(sources)
  BY <1>2 DEF Want, ToSet
<1> HIDE DEF W, L, E
<1> DEFINE Filled(n) == IsSeq(g[n]) /\ Len(g[n]) = n /\ \A m \in 1 .. n : g[n][m] = E(W[m])
           T == {n \in 0 .. L : Filled(n)}
<1>6. 0 \in T
  BY <1>2, <1>3, EmptyIs
<1>7. ASSUME NEW n \in 0 .. L - 1, n \in T PROVE n + 1 \in T
  <2> DEFINE w == W[n + 1]
             used == {f.mention : f \in ToSet(g[n])}
             p == NumberMention(text, sources, P[w])
  <2>1. n + 1 \in 1 .. L /\ (n + 1) - 1 = n /\ n \in Nat
    BY <1>2
  <2>2. w \in Want(sources)
    BY <1>4, <2>1
  <2>3. IsSeq(g[n]) /\ Len(g[n]) = n /\ \A m \in 1 .. n : g[n][m] = E(W[m])
    BY <1>7
  <2>4. p \notin used
    <3>1. ASSUME NEW f \in ToSet(g[n]) PROVE f.mention # p
      <4>1. PICK m \in 1 .. n : f = E(W[m])
        BY <2>3, SeqDomain DEF ToSet
      <4>2. m \in 1 .. L /\ m # n + 1
        BY <1>2
      <4>3. W[m] # w
        BY <1>1, <2>1, <4>2 DEF Distinct, L
      <4>4. P[W[m]] # P[w]
        BY <1>4, <2>2, <4>2, <4>3 DEF Fits, Places
      <4>5. f.mention.at = P[W[m]]
        BY <4>1, EntryIs DEF E
      <4>6. p.at = P[w]
        BY DEF NumberMention
      <4> HIDE DEF p, w
      <4> QED
        BY <4>4, <4>5, <4>6
    <3> HIDE DEF p
    <3> QED
      BY <3>1
  <2>5. MentionFor(text, sources, w, used) = {p}
    <3> HIDE DEF used, w
    <3> QED
      BY <2>2, <2>4, MentionIs
  <2>6. g[n + 1] = Take(text, sources, g[n], w)
    BY <1>3, <2>1
  <2>7. g[n + 1] = Append(g[n], E(w))
    <3> DEFINE fit == MentionFor(text, sources, w, used)
    <3>1. Take(text, sources, g[n], w) =
            IF fit = {} THEN g[n]
            ELSE Append(g[n], [source |-> w.source, mention |-> CHOOSE m \in fit : TRUE])
      BY DEF Take
    <3>2. E(w) = [source |-> w.source, mention |-> p]
      BY DEF E, Entry
    <3> HIDE DEF used, w, fit, p
    <3>3. fit # {} /\ (CHOOSE m \in fit : TRUE) = p
      BY <2>5 DEF fit
    <3> QED
      BY <2>6, <3>1, <3>2, <3>3
  <2>8. /\ IsSeq(g[n + 1]) /\ Len(g[n + 1]) = n + 1
        /\ \A m \in 1 .. n : g[n + 1][m] = g[n][m]
        /\ g[n + 1][n + 1] = E(w)
    BY <2>3, <2>7, AppendIs
  <2>9. \A m \in 1 .. n + 1 : m \in 1 .. n \/ m = n + 1
    BY <2>1
  <2>10. Filled(n + 1)
    BY <2>3, <2>8, <2>9
  <2> HIDE DEF Filled
  <2> QED
    BY <2>1, <2>10
<1> HIDE DEF T
<1>8. L \in T
  <2>1. L \in 0 .. L
    BY <1>2
  <2>2. \A n \in 0 .. L - 1 : n \in T => n + 1 \in T
    BY <1>7
  <2>3. \A n \in 0 .. L : n \in T
    BY <1>2, <1>6, <2>2, RisesTo
  <2> QED
    BY <2>1, <2>3
<1>9. IsSeq(g[L]) /\ Len(g[L]) = L /\ \A m \in 1 .. L : g[L][m] = E(W[m])
  BY <1>8 DEF T
<1>10. /\ IsSeq(g[L]) /\ Len(g[L]) = L
       /\ \A n \in 1 .. L : W[n] \in Want(sources) /\ g[L][n] = E(W[n])
       /\ Want(sources) = {W[n] : n \in 1 .. L}
  BY <1>4, <1>5, <1>9
<1> QED
  BY <1>3, <1>10 DEF FoundAll, W, L, E

(* The fields of a citation.                                               *)
LEMMA CitationIs ==
  ASSUME NEW source, NEW art, NEW i, NEW para
  PROVE  /\ Citation(source, art, i, para).title = source.title
         /\ Citation(source, art, i, para).art = art
         /\ Citation(source, art, i, para).para = para
BY DEF Citation

(* The citations of some paragraphs.                                       *)
LEMMA CiteParagraphsIs ==
  ASSUME NEW text, NEW source, NEW art, NEW paras, NEW positions
  PROVE  LET cs == CiteParagraphs(text, source, art, paras, positions)
         IN  /\ \A c \in cs : c.title = source.title /\ c.art = art /\ c.para \in paras
             /\ \A i \in positions : text[i] \in paras => \E c \in cs : c.para = text[i]
<1> DEFINE cs == CiteParagraphs(text, source, art, paras, positions)
<1>1. cs = {Citation(source, art, i, text[i]) : i \in {j \in positions : text[j] \in paras}}
  BY DEF CiteParagraphs
<1> HIDE DEF cs
<1>2. ASSUME NEW c \in cs PROVE c.title = source.title /\ c.art = art /\ c.para \in paras
  <2>1. PICK i \in positions : text[i] \in paras /\ c = Citation(source, art, i, text[i])
    BY <1>1
  <2> QED
    BY <2>1, CitationIs
<1>3. ASSUME NEW i \in positions, text[i] \in paras PROVE \E c \in cs : c.para = text[i]
  BY <1>1, <1>3, CitationIs
<1> QED
  BY <1>2, <1>3 DEF cs

(* An article of a source that has each once.                              *)
LEMMA OneRef ==
  ASSUME NEW refs, OnceEach(refs), NEW r \in ToSet(refs)
  PROVE  {q \in ToSet(refs) : q.art = r.art} = {r}
<1>1. Len(refs) \in Nat /\ DOMAIN refs = 1 .. Len(refs)
  BY SeqDomain DEF OnceEach
<1>2. PICK n \in 1 .. Len(refs) : r = refs[n]
  BY <1>1 DEF ToSet
<1>3. ASSUME NEW q \in ToSet(refs), q.art = r.art PROVE q = r
  <2>1. PICK m \in 1 .. Len(refs) : q = refs[m]
    BY <1>1 DEF ToSet
  <2> QED
    BY <1>2, <1>3, <2>1 DEF OnceEach
<1> QED
  BY <1>3

(* What is cited where an article has its place: its paragraphs up to the  *)
(* next place.                                                             *)
PlacesAfter(text, sources, P, w) ==
  {P[v] : v \in {u \in Want(sources) : P[u] > P[w]}} \cup {Len(text) + 1}
CitedFor(text, sources, P, w) ==
  LET source == sources[w.source]
      cited == CiteParagraphs(text, source, w.ref.art, ParagraphsOf(source, w.ref.art),
                 P[w] + 1 .. Min(PlacesAfter(text, sources, P, w)) - 1)
  IN  IF cited = {} THEN {Citation(source, w.ref.art, P[w], "")} ELSE cited

CitedRight(text, sources, P, w) ==
  /\ \A c \in CitedFor(text, sources, P, w) :
       /\ c.title = sources[w.source].title /\ c.art = w.ref.art
       /\ c.para = "" \/ c.para \in ToSet(w.ref.paras)
  /\ CitedFor(text, sources, P, w) # {}
  /\ \A x \in ToSet(w.ref.paras) : \E c \in CitedFor(text, sources, P, w) : c.para = x

(* An article that is found is cited so: the next one found is at the next *)
(* place, for no two are at one.                                           *)
LEMMA CiteFoundFor ==
  ASSUME NEW text, NEW sources, NEW P, Fits(text, sources, P),
         NEW found, FoundAll(text, sources, P, found), NEW n \in 1 .. Len(found)
  PROVE  CiteFound(text, sources[found[n].source], found, n)
           = CitedFor(text, sources, P, Wanted(sources)[n])
<1> DEFINE W == Wanted(sources)
           w == W[n]
           at(m) == found[m].mention.at
           next == {m \in DOMAIN found : at(m) > at(n) \/ (at(m) = at(n) /\ m > n)}
           after == {at(m) : m \in next} \cup {Len(text) + 1}
           later == PlacesAfter(text, sources, P, w)
           source == sources[w.source]
<1>1. DOMAIN found = 1 .. Len(found) /\ Len(found) \in Nat
  BY SeqDomain DEF FoundAll
<1>2. ASSUME NEW m \in 1 .. Len(found)
      PROVE  /\ W[m] \in Want(sources) /\ P[W[m]] \in NumberPositions(text)
             /\ found[m].source = W[m].source /\ at(m) = P[W[m]]
             /\ found[m].mention.art = W[m].ref.art
  <2>1. W[m] \in Want(sources) /\ found[m] = Entry(text, sources, P, W[m])
    BY DEF FoundAll
  <2>2. P[W[m]] \in NumberPositions(text) /\ text[P[W[m]]] = W[m].ref.art
    BY <2>1 DEF Fits, Places
  <2> QED
    BY <2>1, <2>2, EntryIs
<1>3. Want(sources) = {W[m] : m \in 1 .. Len(found)} /\ Distinct(W) /\ Len(found) = Len(W)
  BY WantedIs DEF Fits, FoundAll
<1> HIDE DEF W
<1>4. NumberPositions(text) \subseteq Nat
  BY SeqDomain DEF Fits, NumberPositions
<1>5. ASSUME NEW m \in 1 .. Len(found), at(m) = at(n) PROVE m = n
  <2>1. W[m] = W[n]
    BY <1>2, <1>5 DEF Fits, Places
  <2> QED
    BY <1>3, <2>1 DEF Distinct
<1>6. \A m \in 1 .. Len(found) : m \in next <=> P[W[m]] > P[w]
  BY <1>1, <1>2, <1>4, <1>5
<1>7. after = later
  <2>1. ASSUME NEW x \in after PROVE x \in later
    BY <1>1, <1>2, <1>6 DEF PlacesAfter
  <2>2. ASSUME NEW x \in later PROVE x \in after
    <3>1. CASE x = Len(text) + 1
      BY <3>1
    <3>2. CASE \E v \in Want(sources) : P[v] > P[w] /\ x = P[v]
      <4>1. PICK m \in 1 .. Len(found) : P[W[m]] > P[w] /\ x = P[W[m]]
        BY <1>3, <3>2
      <4>2. m \in next /\ x = at(m)
        BY <1>2, <1>6, <4>1
      <4> QED
        BY <4>2
    <3> QED
      BY <3>1, <3>2, <2>2 DEF PlacesAfter
  <2> HIDE DEF after, later
  <2> QED
    BY <2>1, <2>2
<1>8. Behind(text, found, n) = at(n) + 1 .. Min(after) - 1
  BY DEF Behind
<1>9. Behind(text, found, n) = P[w] + 1 .. Min(later) - 1
  BY <1>2, <1>7, <1>8
<1>10. found[n].source = w.source /\ found[n].mention.art = w.ref.art /\ found[n].mention.at = P[w]
  BY <1>2
<1> DEFINE art == w.ref.art
           B == Behind(text, found, n)
           cited == CiteParagraphs(text, source, art, ParagraphsOf(source, art), B)
<1>11. CiteFound(text, sources[found[n].source], found, n)
         = IF cited = {} THEN {Citation(source, art, P[w], "")} ELSE cited
  <2> HIDE DEF B
  <2>1. found[n].mention.art = art
    BY <1>10
  <2> HIDE DEF art
  <2> QED
    BY <1>10, <2>1 DEF CiteFound, B
<1> HIDE DEF later, B
<1>12. B = P[w] + 1 .. Min(later) - 1
  BY <1>9 DEF B
<1> QED
  BY <1>11, <1>12 DEF CitedFor, later, W

(* An article located at its place is cited with the paragraphs behind it. *)
LEMMA CiteFoundIs ==
  ASSUME NEW text, NEW sources, NEW P, Fits(text, sources, P), NEW w \in Want(sources)
  PROVE  CitedRight(text, sources, P, w)
<1> DEFINE source == sources[w.source]
           art == w.ref.art
           paras == ParagraphsOf(source, art)
           later == PlacesAfter(text, sources, P, w)
           positions == P[w] + 1 .. Min(later) - 1
           cited == CiteParagraphs(text, source, art, paras, positions)
           cs == CitedFor(text, sources, P, w)
<1>2. OnceEach(source.articles) /\ w.ref \in ToSet(source.articles)
  BY WantedIs DEF Fits, Sourced
<1>3. paras = ToSet(w.ref.paras)
  <2>1. {q \in ToSet(source.articles) : q.art = art} = {w.ref}
    BY <1>2, OneRef
  <2>2. paras = UNION {ToSet(r.paras) : r \in {w.ref}}
    BY <2>1 DEF ParagraphsOf
  <2> QED
    BY <2>2
<1>4. /\ \A c \in cited : c.title = source.title /\ c.art = art /\ c.para \in paras
      /\ \A i \in positions : text[i] \in paras => \E c \in cited : c.para = text[i]
  <2> HIDE DEF paras, positions, source, art, later, cs
  <2> QED
    BY CiteParagraphsIs
<1>5. cs = IF cited = {} THEN {Citation(source, art, P[w], "")} ELSE cited
  BY DEF CitedFor
<1>6. /\ DOMAIN text = 1 .. Len(text) /\ Len(text) \in Nat
      /\ \A v \in Want(sources) : P[v] \in DOMAIN text
  BY SeqDomain DEF Fits, Places, NumberPositions
<1>7. ASSUME NEW x \in later PROVE x = Len(text) + 1 \/ \E v \in Want(sources) : x = P[v] /\ P[v] > P[w]
  BY <1>7 DEF PlacesAfter
<1> HIDE DEF cs, cited, paras
<1>9. later \subseteq Nat /\ later # {}
  <2>1. later # {}
    BY DEF PlacesAfter
  <2> HIDE DEF later
  <2> QED
    BY <1>6, <1>7, <2>1
<1> HIDE DEF later
<1>10. Min(later) \in later /\ Min(later) \in Nat
  BY <1>9, NatMinIs
<1>11. ASSUME NEW x \in ToSet(w.ref.paras) PROVE \E i \in positions : text[i] = x
  <2>1. PICK i \in DOMAIN text : /\ i > P[w] /\ text[i] = x
                                 /\ \A v \in Want(sources) : P[v] > P[w] => i < P[v]
    BY DEF Fits, ParagraphsFollow
  <2>2. i < Min(later)
    <3>1. CASE Min(later) = Len(text) + 1
      BY <1>6, <3>1
    <3>2. CASE \E v \in Want(sources) : Min(later) = P[v] /\ P[v] > P[w]
      BY <2>1, <3>2
    <3> QED
      BY <1>7, <1>10, <3>1, <3>2
  <2>3. i \in P[w] + 1 .. Min(later) - 1
    BY <1>6, <1>10, <2>1, <2>2
  <2> QED
    BY <2>1, <2>3
<1> HIDE DEF positions
<1>12. ASSUME NEW x \in ToSet(w.ref.paras) PROVE \E c \in cited : c.para = x
  BY <1>3, <1>4, <1>11
<1>13. CASE cited = {}
  <2>1. ToSet(w.ref.paras) = {}
    BY <1>12, <1>13
  <2>2. cs = {Citation(source, art, P[w], "")}
    BY <1>5, <1>13
  <2>3. \A c \in cs : c.title = source.title /\ c.art = art /\ c.para = ""
    <3> HIDE DEF source, art
    <3> DEFINE c0 == Citation(source, art, P[w], "")
    <3>1. c0.title = source.title /\ c0.art = art /\ c0.para = ""
      BY DEF Citation
    <3> HIDE DEF c0
    <3> QED
      BY <2>2, <3>1 DEF c0
  <2> QED
    BY <2>1, <2>2, <2>3 DEF cs, CitedRight
<1>14. CASE cited # {}
  <2>1. cs = cited
    BY <1>5, <1>14
  <2> QED
    BY <1>3, <1>4, <1>12, <1>14, <2>1 DEF cs, CitedRight
<1> QED
  BY <1>13, <1>14

(* A claim whose articles have their places is intact.                     *)
LEMMA FitsIntact ==
  ASSUME NEW text, NEW sources, NEW P, Fits(text, sources, P)
  PROVE  CitationsIntact(sources, Occurrences(text, sources))
<1> DEFINE found == Located(text, sources)
           W == Wanted(sources)
           of(w) == CitedFor(text, sources, P, w)
           cs == Occurrences(text, sources)
<1>1. FoundAll(text, sources, P, found)
  BY LocatedIs
<1> HIDE DEF found
<1>10. DOMAIN found = 1 .. Len(found) /\ Want(sources) = {W[n] : n \in 1 .. Len(found)}
  BY <1>1, SeqDomain DEF FoundAll
<1>2. Lost(sources, found) = {}
  <2>1. ASSUME NEW w \in Want(sources)
        PROVE  \E f \in ToSet(found) : <<f.source, f.mention.art>> = <<w.source, w.ref.art>>
    <3>1. PICK n \in 1 .. Len(found) : w = W[n]
      BY <1>10
    <3>2. found[n] = Entry(text, sources, P, w)
      BY <1>1, <3>1 DEF FoundAll
    <3>3. text[P[w]] = w.ref.art
      BY DEF Fits, Places
    <3>4. found[n].source = w.source /\ found[n].mention.art = w.ref.art
      BY <3>2, <3>3, EntryIs
    <3>5. found[n] \in ToSet(found)
      BY <1>10 DEF ToSet
    <3> QED
      BY <3>4, <3>5
  <2> QED
    BY <2>1 DEF Lost, Want
<1>3. cs = UNION {CiteFound(text, sources[found[n].source], found, n) : n \in 1 .. Len(found)}
  <2>1. cs = FoundCitations(text, sources, found) \cup LostCitations(text, sources, found)
    BY DEF Occurrences, found
  <2>2. LostCitations(text, sources, found) = {}
    BY <1>2 DEF LostCitations
  <2> HIDE DEF cs
  <2> QED
    BY <1>10, <2>1, <2>2 DEF FoundCitations
<1>30. \A n \in 1 .. Len(found) : of(W[n]) = CiteFound(text, sources[found[n].source], found, n)
  BY <1>1, CiteFoundFor
<1>4. ASSUME NEW c PROVE c \in cs <=> \E w \in Want(sources) : c \in of(w)
  <2> HIDE DEF cs, of, W
  <2> QED
    BY <1>3, <1>10, <1>30
<1>5. ASSUME NEW w \in Want(sources)
      PROVE  /\ \A c \in of(w) : /\ c.title = sources[w.source].title /\ c.art = w.ref.art
                                 /\ c.para = "" \/ c.para \in ToSet(w.ref.paras)
             /\ of(w) # {}
             /\ \A x \in ToSet(w.ref.paras) : \E c \in of(w) : c.para = x
  <2> HIDE DEF cs
  <2>1. CitedRight(text, sources, P, w)
    BY CiteFoundIs
  <2> QED
    BY <2>1 DEF CitedRight
<1> HIDE DEF of, cs, W
<1>6. ASSUME NEW c \in cs PROVE \E k \in DOMAIN sources : IsRecognised(sources[k], c)
  <2>1. PICK w \in Want(sources) : c \in of(w)
    BY <1>4
  <2> DEFINE s == sources[w.source]
             same == {n \in DOMAIN s.articles : s.articles[n].art = c.art}
  <2>2. w.source \in DOMAIN sources /\ w.ref \in ToSet(s.articles) /\ OnceEach(s.articles)
    BY WantedIs DEF Fits, Sourced
  <2>3. c.title = s.title /\ c.art = w.ref.art /\ (c.para = "" \/ c.para \in ToSet(w.ref.paras))
    BY <1>5, <2>1
  <2>4. DOMAIN s.articles = 1 .. Len(s.articles) /\ Len(s.articles) \in Nat
    BY <2>2, SeqDomain DEF OnceEach
  <2>5. PICK n \in DOMAIN s.articles : w.ref = s.articles[n]
    BY <2>2 DEF ToSet
  <2>6. same # {} /\ same \subseteq Nat
    <3>1. s.articles[n].art = c.art
      BY <2>3, <2>5
    <3> QED
      BY <2>4, <3>1
  <2>7. Min(same) \in same
    <3> HIDE DEF same
    <3> QED
      BY <2>6, NatMinIs
  <2>8. s.articles[Min(same)] = w.ref
    BY <2>2, <2>3, <2>4, <2>5, <2>7 DEF OnceEach
  <2>9. c.para # "" => Contains(s.articles[Min(same)].paras, c.para)
    <3> DEFINE paras == w.ref.paras
    <3>1. IsSeq(paras)
      BY <2>2 DEF OnceEach
    <3>2. DOMAIN paras = 1 .. Len(paras)
      BY <3>1, SeqDomain
    <3>3. c.para # "" => Contains(paras, c.para)
      BY <2>3, <3>2 DEF Contains, ToSet
    <3> QED
      BY <2>8, <3>3
  <2>10. IsRecognised(s, c)
    BY <2>3, <2>6, <2>9 DEF IsRecognised
  <2> QED
    BY <2>2, <2>10
<1>7. ASSUME NEW k \in DOMAIN sources, NEW ref \in ToSet(sources[k].articles)
      PROVE  IsCited(sources[k], ref, cs)
  <2> DEFINE w == [source |-> k, ref |-> ref]
  <2>1. w \in Want(sources) /\ w.source = k /\ w.ref = ref
    BY WantedIs DEF Fits
  <2> HIDE DEF w
  <2>2. \A c \in of(w) : c \in cs /\ c.title = sources[k].title /\ c.art = ref.art
    BY <1>4, <1>5, <2>1
  <2> QED
    BY <1>5, <2>1, <2>2 DEF IsCited
<1> QED
  BY <1>6, <1>7 DEF CitationsIntact, cs

-----------------------------------------------------------------------------
(* The articles of a text, each with its paragraphs.                       *)
LEMMA NextNumberIs ==
  ASSUME NEW text, IsSeq(text), NEW q \in NumberPositions(text)
  PROVE  /\ NextNumber(text, q) \in q + 1 .. Len(text) + 1
         /\ \A j \in NumberPositions(text) : j > q => NextNumber(text, q) <= j
<1> DEFINE S == {j \in NumberPositions(text) : j > q} \cup {Len(text) + 1}
<1>1. Len(text) \in Nat /\ DOMAIN text = 1 .. Len(text)
  BY SeqDomain
<1>2. NumberPositions(text) \subseteq 1 .. Len(text)
  BY <1>1 DEF NumberPositions
<1>3. S \subseteq q + 1 .. Len(text) + 1 /\ S # {} /\ S \subseteq Nat
  BY <1>1, <1>2
<1>4. NextNumber(text, q) = Min(S) /\ \A j \in NumberPositions(text) : j > q => j \in S
  BY DEF NextNumber
<1> HIDE DEF S
<1> QED
  BY <1>3, <1>4, NatMinIs

(* An article of a text and the paragraphs that follow it before the next. *)
ArticleRef(text, q) == WholeArticle(text[q], ParagraphsBehind(text, q))

(* Its fields, and where its paragraphs are.                               *)
LEMMA ArticleRefIs ==
  ASSUME NEW text, IsSeq(text), NEW q \in NumberPositions(text)
  PROVE  /\ ArticleRef(text, q).art = text[q] /\ IsWholeArticle(ArticleRef(text, q))
         /\ IsSeq(ArticleRef(text, q).paras)
         /\ \A x \in ToSet(ArticleRef(text, q).paras) :
              \E i \in DOMAIN text :
                /\ i > q /\ text[i] = x
                /\ \A j \in NumberPositions(text) : j > q => i < j
<1> DEFINE n == NextNumber(text, q)
           s == SubSeq(text, q + 1, n - 1)
           r == ArticleRef(text, q)
<1>1. Len(text) \in Nat /\ DOMAIN text = 1 .. Len(text) /\ q \in 1 .. Len(text)
  BY SeqDomain DEF NumberPositions
<1>2. n \in q + 1 .. Len(text) + 1 /\ \A j \in NumberPositions(text) : j > q => n <= j
  BY NextNumberIs
<1>3. r.art = text[q] /\ r.paras = Only(s, Paragraphs) /\ IsWholeArticle(r)
  BY WholeArticleIs DEF ArticleRef, ParagraphsBehind
<1> HIDE DEF n
<1>4. q + 1 \in 1 .. Len(text) + 1 /\ n - 1 \in 0 .. Len(text) /\ q + 1 <= (n - 1) + 1
  BY <1>1, <1>2
<1>5. IsSeq(s) /\ ToSet(s) = {text[k] : k \in q + 1 .. n - 1}
  BY <1>4, SubSeqIs
<1> HIDE DEF s
<1>6. IsSeq(Only(s, Paragraphs)) /\ ToSet(Only(s, Paragraphs)) = ToSet(s) \cap Paragraphs
  BY <1>5, OnlyIs
<1> DEFINE o == Only(s, Paragraphs)
<1> HIDE DEF r, o
<1>7. r.art = text[q] /\ r.paras = o /\ IsWholeArticle(r)
  BY <1>3 DEF o
<1>8. ASSUME NEW x \in ToSet(o)
      PROVE  \E i \in DOMAIN text : /\ i > q /\ text[i] = x
                                    /\ \A j \in NumberPositions(text) : j > q => i < j
  <2>1. PICK i \in q + 1 .. n - 1 : x = text[i]
    BY <1>5, <1>6 DEF o
  <2>2. i \in DOMAIN text /\ i > q /\ i < n
    BY <1>1, <1>2, <2>1
  <2>3. \A j \in NumberPositions(text) : j \in Nat
    BY <1>1 DEF NumberPositions
  <2>4. \A j \in NumberPositions(text) : j > q => i < j
    BY <1>1, <1>2, <2>2, <2>3
  <2> QED
    BY <2>1, <2>2, <2>4
<1> QED
  BY <1>6, <1>7, <1>8 DEF r, o

(* The articles of one expression; in a plain text the one of a number.    *)
LEMMA RefsAtIs ==
  ASSUME NEW text, IsSeq(text), NEW i \in DOMAIN text
  PROVE  /\ AreArticles(RefsAt(text, i))
         /\ PlainWords(text) =>
              RefsAt(text, i) = IF i \in NumberPositions(text) THEN <<ArticleRef(text, i)>> ELSE <<>>
<1> DEFINE arts == Arts(text[i])
           refs == [n \in DOMAIN arts |-> Ref(arts[n], Original(text, arts[n]), "")]
<1>1. CASE text[i] \in Articles
  <2>1. RefsAt(text, i) = <<ArticleRef(text, i)>> /\ i \in NumberPositions(text)
    BY <1>1 DEF RefsAt, ArticleRef, WholeArticle, NumberPositions, Numbers
  <2> DEFINE r == ArticleRef(text, i)
  <2>2. IsArticle(r)
    BY <1>1, WholeArticleIs DEF ArticleRef
  <2> HIDE DEF r
  <2>3. IsSeq(<<r>>) /\ ToSet(<<r>>) = {r}
    BY SingleIs
  <2>4. AreArticles(<<r>>)
    BY <2>2, <2>3 DEF AreArticles
  <2> QED
    BY <2>1, <2>4 DEF r
<1>2. CASE text[i] \notin Articles
  <2>1. arts = IF text[i] \in DOMAIN Groups THEN Groups[text[i]].arts ELSE <<>>
    BY <1>2 DEF Arts
  <2>2. IsSeq(arts) /\ \A n \in DOMAIN arts : arts[n] \in Articles
    <3>1. CASE text[i] \in DOMAIN Groups
      <4>1. arts \in Seq(Articles)
        BY <2>1, <3>1, CitationAssumption
      <4> HIDE DEF arts
      <4> QED
        BY <4>1, SeqIs, SeqDomain
    <3>2. CASE text[i] \notin DOMAIN Groups
      <4>1. arts = <<>> /\ DOMAIN <<>> = {}
        BY <2>1, <3>2
      <4> QED
        BY <4>1, EmptyIs
    <3> QED
      BY <3>1, <3>2
  <2>3. AreArticles(refs)
    <3> DEFINE r(n) == Ref(arts[n], Original(text, arts[n]), "")
    <3>1. DOMAIN arts = 1 .. Len(arts) /\ Len(arts) \in Nat
      BY <2>2, SeqDomain
    <3>2. refs = [n \in 1 .. Len(arts) |-> r(n)]
      BY <3>1
    <3> HIDE DEF arts, refs
    <3>3. \A n \in 1 .. Len(arts) : IsArticle(r(n))
      BY <2>2, <3>1, RefIs
    <3> HIDE DEF r
    <3>4. refs = [n \in 1 .. Len(arts) |-> refs[n]] /\ \A n \in 1 .. Len(arts) : refs[n] = r(n)
      BY <3>2
    <3>5. IsSeq(refs) /\ DOMAIN refs = 1 .. Len(arts)
      BY <3>1, <3>2, <3>4, FunctionIsSeq
    <3> QED
      BY <3>3, <3>4, <3>5 DEF AreArticles, ToSet
  <2>4. RefsAt(text, i) = IF text[i] \in Enumerations THEN <<>> ELSE refs
    BY <1>2 DEF RefsAt
  <2>5. AreArticles(<<>>)
    BY EmptyIs DEF AreArticles
  <2>6. ASSUME PlainWords(text) PROVE RefsAt(text, i) = <<>> /\ i \notin NumberPositions(text)
    <3>1. arts = <<>>
      BY <2>1, <2>6 DEF PlainWords
    <3>2. DOMAIN arts = {}
      BY <3>1, EmptyIs, SeqDomain
    <3>3. refs = <<>>
      <4>1. IsSeq(refs) /\ DOMAIN refs = {}
        BY <2>3, <3>2 DEF AreArticles
      <4> HIDE DEF refs
      <4> QED
        BY <4>1, NonEmptyIs
    <3> QED
      BY <1>2, <2>4, <2>6, <3>3, PlainAt
  <2> QED
    BY <2>3, <2>4, <2>5, <2>6
<1> QED
  BY <1>1, <1>2

(* The articles of a text are those of its expressions, each as often as   *)
(* it differs.                                                             *)
LEMMA ArticlesInHas ==
  ASSUME NEW text, IsSeq(text)
  PROVE  /\ IsSeq(ArticlesIn(text)) /\ Distinct(ArticlesIn(text))
         /\ \A r \in ToSet(ArticlesIn(text)) : \E i \in DOMAIN text : r \in ToSet(RefsAt(text, i))
<1> DEFINE ss == [i \in DOMAIN text |-> RefsAt(text, i)]
           all == FlattenSeq(ss)
           new == {n \in DOMAIN all : \A m \in DOMAIN all : m < n => all[m] # all[n]}
           c == Cardinality(new)
           o == InOrder(new)
           s == ArticlesIn(text)
<1>1. s = [n \in 1 .. c |-> all[o[n]]]
  BY DEF ArticlesIn
<1>2. IsSeq(ss) /\ DOMAIN ss = DOMAIN text /\ DOMAIN ss = 1 .. Len(ss)
  <2>1. Len(text) \in Nat /\ DOMAIN text = 1 .. Len(text)
    BY SeqDomain
  <2>2. ss = [k \in 1 .. Len(text) |-> ss[k]] /\ DOMAIN ss = DOMAIN text
    BY <2>1
  <2> HIDE DEF ss
  <2> QED
    BY <2>1, <2>2, FunctionIsSeq, SeqDomain
<1>3. \A i \in DOMAIN text : ss[i] = RefsAt(text, i)
  OBVIOUS
<1> HIDE DEF ss
<1>4. \A n \in 1 .. Len(ss) : IsSeq(ss[n])
  BY <1>2, <1>3, RefsAtIs DEF AreArticles
<1>5. IsSeq(all) /\ ToSet(all) = UNION {ToSet(ss[n]) : n \in 1 .. Len(ss)}
  BY <1>2, <1>4, FlattenHas
<1> HIDE DEF all
<1>6. DOMAIN all = 1 .. Len(all) /\ Len(all) \in Nat /\ new \subseteq DOMAIN all
  BY <1>5, SeqDomain
<1>7. \A m, n \in new : all[m] = all[n] => m = n
  BY <1>6
<1>8. IsFiniteSet(new) /\ new \subseteq Int
  <2>1. IsFiniteSet(DOMAIN all)
    BY <1>5, SeqFinite
  <2> HIDE DEF new
  <2> QED
    BY <1>6, <2>1, FS_Subset
<1> HIDE DEF new
<1>9. c \in Nat /\ DOMAIN o = 1 .. c /\ ToSet(o) = new /\ \A m, n \in 1 .. c : o[m] = o[n] => m = n
  BY <1>8, InOrderIs
<1> HIDE DEF c, o, s
<1>10. \A n \in 1 .. c : o[n] \in new
  BY <1>9 DEF ToSet
<1>11. IsSeq(s) /\ Len(s) = c /\ DOMAIN s = 1 .. c
  <2>1. s = [n \in 1 .. c |-> s[n]]
    BY <1>1
  <2> QED
    BY <1>9, <2>1, FunctionIsSeq, SeqDomain
<1>12. \A n \in 1 .. c : s[n] = all[o[n]]
  BY <1>1
<1>13. Distinct(s)
  BY <1>7, <1>9, <1>10, <1>11, <1>12 DEF Distinct
<1>14. ASSUME NEW r \in ToSet(s) PROVE \E i \in DOMAIN text : r \in ToSet(RefsAt(text, i))
  <2>1. PICK n \in 1 .. c : r = all[o[n]]
    BY <1>11, <1>12 DEF ToSet
  <2>2. r \in ToSet(all)
    BY <1>6, <1>10, <2>1 DEF ToSet
  <2> QED
    BY <1>2, <1>3, <1>5, <2>2
<1> QED
  BY <1>11, <1>13, <1>14 DEF s

(* In a plain text they are those of its numbers, each once where no       *)
(* number is repeated.                                                     *)
LEMMA ArticlesInIs ==
  ASSUME NEW text, IsSeq(text), PlainWords(text)
  PROVE  /\ IsSeq(ArticlesIn(text))
         /\ \A r \in ToSet(ArticlesIn(text)) : \E q \in NumberPositions(text) : r = ArticleRef(text, q)
         /\ (\A p, q \in NumberPositions(text) : text[p] = text[q] => p = q) => OnceEach(ArticlesIn(text))
<1> DEFINE s == ArticlesIn(text)
<1>1. IsSeq(s) /\ Distinct(s) /\ \A r \in ToSet(s) : \E i \in DOMAIN text : r \in ToSet(RefsAt(text, i))
  BY ArticlesInHas
<1> HIDE DEF s
<1>2. ASSUME NEW r \in ToSet(s) PROVE \E q \in NumberPositions(text) : r = ArticleRef(text, q)
  <2>1. PICK i \in DOMAIN text : r \in ToSet(RefsAt(text, i))
    BY <1>1
  <2>2. RefsAt(text, i) = IF i \in NumberPositions(text) THEN <<ArticleRef(text, i)>> ELSE <<>>
    BY RefsAtIs
  <2>3. i \in NumberPositions(text)
    BY <2>1, <2>2, EmptyIs
  <2>4. ToSet(RefsAt(text, i)) = {ArticleRef(text, i)}
    BY <2>2, <2>3, SingleIs
  <2> QED
    BY <2>1, <2>3, <2>4
<1>3. ASSUME \A p, q \in NumberPositions(text) : text[p] = text[q] => p = q PROVE OnceEach(s)
  <2>1. DOMAIN s = 1 .. Len(s)
    BY <1>1, SeqDomain
  <2>2. ASSUME NEW m \in 1 .. Len(s), NEW n \in 1 .. Len(s), s[m].art = s[n].art PROVE m = n
    <3>1. s[m] \in ToSet(s) /\ s[n] \in ToSet(s)
      BY <2>1 DEF ToSet
    <3>2. PICK p \in NumberPositions(text) : s[m] = ArticleRef(text, p)
      BY <1>2, <3>1
    <3>3. PICK q \in NumberPositions(text) : s[n] = ArticleRef(text, q)
      BY <1>2, <3>1
    <3>4. text[p] = text[q]
      BY <2>2, <3>2, <3>3, ArticleRefIs
    <3>5. s[m] = s[n]
      BY <1>3, <3>2, <3>3, <3>4
    <3> QED
      BY <1>1, <3>5 DEF Distinct
  <2>3. \A r \in ToSet(s) : IsSeq(r.paras)
    BY <1>2, ArticleRefIs
  <2> QED
    BY <1>1, <2>2, <2>3 DEF OnceEach
<1> QED
  BY <1>1, <1>2, <1>3 DEF s

-----------------------------------------------------------------------------
(* What a mention governs: the words behind it, up to the next mention.    *)
LEMMA MentionsIn ==
  ASSUME NEW text, IsSeq(text), NEW m \in Mentions(text)
  PROVE  /\ m \in 1 .. Len(text) /\ Len(text) \in Nat
         /\ IsTitle(text, m) \/ (~IsTitle(text, m) /\ IsBare(text, m))
BY SeqDomain DEF Mentions

(* What a mention governs ends before the next; behind a bare name there   *)
(* are only articles, paragraphs and commas.                               *)
Chainable == Numbers \cup Paragraphs \cup {"comma"}

(* No name is among them.                                                  *)
LEMMA NoNameChained ==
  ASSUME NEW w, w \in Titles \/ w \in DOMAIN BareNames
  PROVE  w \notin Chainable
BY CitationAssumption DEF Chainable, Numbers, Ranges, Known

(* So it is.                                                               *)
LEMMA GovernedIs ==
  ASSUME NEW text, IsSeq(text), NEW m \in Mentions(text)
  PROVE  /\ IsSeq(Governed(text, m)) /\ Len(Governed(text, m)) \in 0 .. Len(text) - m
         /\ \A x \in 1 .. Len(Governed(text, m)) : Governed(text, m)[x] = text[m + x]
         /\ \A n \in Mentions(text) : n > m => n > m + Len(Governed(text, m))
         /\ ~IsTitle(text, m) =>
              \A x \in 1 .. Len(Governed(text, m)) : text[m + x] \in Chainable /\ Chained(text, m + x)
<1> DEFINE later == {j \in m + 1 .. Len(text) :
                       IF IsTitle(text, m) THEN IsTitle(text, j) \/ IsBare(text, j)
                       ELSE ~Chained(text, j)}
           S == later \cup {Len(text) + 1}
           e == Min(S)
           g == Governed(text, m)
<1>1. m \in 1 .. Len(text) /\ Len(text) \in Nat
  BY MentionsIn
<1>2. g = SubSeq(text, m + 1, e - 1)
  BY DEF Governed
<1>3. S \subseteq m + 1 .. Len(text) + 1 /\ S # {} /\ S \subseteq Nat /\ later \subseteq S
  BY <1>1
<1>4. \A j \in m + 1 .. Len(text) :
        (IF IsTitle(text, m) THEN IsTitle(text, j) \/ IsBare(text, j)
         ELSE ~Chained(text, j)) => j \in later
  OBVIOUS
<1> HIDE DEF later, S
<1>5. e \in S /\ \A x \in S : e <= x
  BY <1>3, NatMinIs
<1> HIDE DEF e, g
<1>6. e \in m + 1 .. Len(text) + 1
  BY <1>3, <1>5
<1>7. m + 1 \in 1 .. Len(text) + 1 /\ e - 1 \in 0 .. Len(text) /\ m + 1 <= (e - 1) + 1
      /\ (e - 1) - (m + 1) + 1 = e - 1 - m
  BY <1>1, <1>6
<1>8. IsSeq(g) /\ Len(g) = e - 1 - m /\ \A x \in 1 .. e - 1 - m : g[x] = text[m + 1 + x - 1]
  <2> DEFINE a == m + 1
             b == e - 1
             h == SubSeq(text, a, b)
  <2>1. a \in 1 .. Len(text) + 1 /\ b \in 0 .. Len(text) /\ a <= b + 1 /\ b - a + 1 = e - 1 - m
    BY <1>7
  <2>2. g = h
    BY <1>2
  <2> HIDE DEF a, b
  <2>3. IsSeq(h) /\ Len(h) = b - a + 1 /\ \A k \in 1 .. b - a + 1 : h[k] = text[a + k - 1]
    BY <2>1, SubSeqIs
  <2> HIDE DEF h
  <2> QED
    BY <2>1, <2>2, <2>3 DEF a
<1>9. \A x \in 1 .. Len(g) : m + 1 + x - 1 = m + x
  BY <1>1, <1>6, <1>8
<1>10. \A x \in 1 .. Len(g) : g[x] = text[m + x]
  BY <1>8, <1>9
<1>14. \A j : text[j] \notin Chainable => ~Chained(text, j)
  BY DEF Chained, Chainable
<1>11. ~IsTitle(text, m) => \A x \in 1 .. Len(g) : text[m + x] \in Chainable /\ Chained(text, m + x)
  <2> SUFFICES ASSUME ~IsTitle(text, m), NEW x \in 1 .. Len(g)
               PROVE  text[m + x] \in Chainable /\ Chained(text, m + x)
    OBVIOUS
  <2>1. m + x \in m + 1 .. Len(text) /\ m + x < e
    BY <1>1, <1>6, <1>8
  <2>2. m + x \notin S
    BY <1>5, <1>6, <2>1
  <2> QED
    BY <1>3, <1>4, <1>14, <2>1, <2>2
<1>12. ASSUME NEW n \in Mentions(text), n > m PROVE n > m + Len(g)
  <2>1. n \in 1 .. Len(text) /\ (IsTitle(text, n) \/ IsBare(text, n))
    BY MentionsIn
  <2>2. ~Chained(text, n)
    BY <1>14, <2>1, NoNameChained DEF IsTitle, IsBare
  <2>3. n \in m + 1 .. Len(text)
    BY <1>1, <1>12, <2>1
  <2>4. n \in S
    BY <1>3, <1>4, <2>1, <2>2, <2>3
  <2> QED
    BY <1>1, <1>5, <1>6, <1>8, <2>3, <2>4
<1>13. Len(g) \in 0 .. Len(text) - m
  BY <1>1, <1>6, <1>8
<1> QED
  BY <1>8, <1>10, <1>11, <1>12, <1>13 DEF g

-----------------------------------------------------------------------------
(* A text within another.                                                  *)
Inside(text, u, d) ==
  /\ IsSeq(text) /\ IsSeq(u) /\ d \in Nat /\ d + Len(u) <= Len(text)
  /\ \A i \in 1 .. Len(u) : text[d + i] = u[i]

(* A text within another: the places in the one and in the other.          *)
LEMMA InsideIs ==
  ASSUME NEW text, NEW u, NEW d, Inside(text, u, d)
  PROVE  /\ Len(text) \in Nat /\ Len(u) \in Nat /\ d \in Nat
         /\ DOMAIN text = 1 .. Len(text) /\ DOMAIN u = 1 .. Len(u)
         /\ \A i \in DOMAIN u : d + i \in DOMAIN text /\ text[d + i] = u[i]
<1>1. Len(text) \in Nat /\ Len(u) \in Nat /\ d \in Nat /\ DOMAIN text = 1 .. Len(text) /\ DOMAIN u = 1 .. Len(u)
  BY SeqDomain DEF Inside
<1>2. ASSUME NEW i \in DOMAIN u PROVE d + i \in DOMAIN text
  BY <1>1 DEF Inside
<1> QED
  BY <1>1, <1>2 DEF Inside

(* If the other is plain, it is.                                           *)
LEMMA PlainInside ==
  ASSUME NEW text, NEW u, NEW d, Inside(text, u, d), PlainWords(text)
  PROVE  PlainWords(u)
BY InsideIs DEF PlainWords

(* Its articles are articles of the other.                                 *)
LEMMA NumbersInside ==
  ASSUME NEW text, NEW u, NEW d, Inside(text, u, d), NEW p \in NumberPositions(u)
  PROVE  d + p \in NumberPositions(text) /\ text[d + p] = u[p]
BY InsideIs DEF NumberPositions

(* Its mentions are mentions of the other.                                 *)
LEMMA MentionsInside ==
  ASSUME NEW text, NEW u, NEW d, Inside(text, u, d), NEW m \in Mentions(u)
  PROVE  /\ d + m \in Mentions(text) /\ TitleAt(text, d + m) = TitleAt(u, m)
         /\ IsTitle(text, d + m) <=> IsTitle(u, m)
         /\ IsBare(u, m) => IsBare(text, d + m)
<1>1. /\ Len(text) \in Nat /\ Len(u) \in Nat /\ d \in Nat
      /\ DOMAIN text = 1 .. Len(text) /\ DOMAIN u = 1 .. Len(u)
      /\ \A i \in DOMAIN u : d + i \in DOMAIN text /\ text[d + i] = u[i]
  BY InsideIs
<1>2. m \in DOMAIN u
  BY DEF Mentions
<1>3. d + m \in DOMAIN text /\ text[d + m] = u[m]
  BY <1>1, <1>2
<1>4. IsTitle(text, d + m) <=> IsTitle(u, m)
  BY <1>3 DEF IsTitle
<1>5. ASSUME IsBare(u, m) PROVE IsBare(text, d + m)
  <2>1. m < Len(u) /\ u[m + 1] \in Numbers /\ m + 1 \in DOMAIN u
    BY <1>1, <1>2, <1>5 DEF IsBare
  <2>2. d + (m + 1) \in DOMAIN text /\ text[d + (m + 1)] = u[m + 1] /\ d + (m + 1) = d + m + 1
    BY <1>1, <1>2, <2>1
  <2>3. d + m < Len(text)
    BY <1>1, <1>2, <2>2
  <2> QED
    BY <1>3, <1>5, <2>1, <2>2, <2>3 DEF IsBare
<1>6. TitleAt(text, d + m) = TitleAt(u, m)
  BY <1>3 DEF TitleAt
<1> QED
  BY <1>3, <1>4, <1>5, <1>6 DEF Mentions

(* The span of a source is that of its first mention, unless a name        *)
(* without marks comes before.                                             *)
NamedIn(text, title) == {i \in Mentions(text) : TitleAt(text, i) = title}

(* No two mentions come at the same place in the order.                    *)
LEMMA PlaceIs ==
  ASSUME NEW text, IsSeq(text), NEW m \in Mentions(text), NEW n \in Mentions(text)
  PROVE  Place(text, m) \in Nat /\ (Place(text, m) = Place(text, n) => m = n)
BY MentionsIn DEF Place

(* The mentions of a statute; none comes before the first.                 *)
LEMMA MentionsOfIs ==
  ASSUME NEW text, IsSeq(text), NEW title
  PROVE  LET S == NamedIn(text, title)
             r == MentionsOf(text, title)
         IN  /\ IsSeq(r) /\ ToSet(r) = S
             /\ S # {} => \A n \in S : Place(text, r[1]) <= Place(text, n)
<1> DEFINE S == NamedIn(text, title)
           key == [i \in S |-> Place(text, i)]
           r == MentionsOf(text, title)
<1>1. r = Ranked(S, key)
  BY DEF MentionsOf, NamedIn
<1>2. S \subseteq Mentions(text)
  BY DEF NamedIn
<1>3. IsFiniteSet(S)
  <2>1. IsFiniteSet(DOMAIN text) /\ S \subseteq DOMAIN text
    BY SeqFinite DEF NamedIn, Mentions
  <2> QED
    BY <2>1, FS_Subset
<1>4. \A x \in S : key[x] = Place(text, x) /\ key[x] \in Nat
  BY <1>2, PlaceIs
<1>5. \A x, y \in S : key[x] = key[y] => x = y
  BY <1>2, <1>4, PlaceIs
<1> HIDE DEF S, key, r
<1> DEFINE c == Cardinality(S)
<1> HIDE DEF c
<1>6. /\ IsSeq(r) /\ Len(r) = c /\ DOMAIN r = 1 .. c /\ ToSet(r) = S
      /\ \A m, n \in 1 .. c : m < n => key[r[m]] < key[r[n]]
  BY <1>1, <1>3, <1>4, <1>5, RankedIs DEF c
<1>7. ASSUME NEW n \in S PROVE Place(text, r[1]) <= Place(text, n)
  <2>0. c \in Nat
    BY <1>3, FS_CardinalityType DEF c
  <2>1. PICK x \in 1 .. c : n = r[x]
    BY <1>6 DEF ToSet
  <2>2. 1 \in 1 .. c /\ r[1] \in S
    BY <1>6, <2>0, <2>1 DEF ToSet
  <2>3. CASE x = 1
    BY <1>4, <2>1, <2>2, <2>3
  <2>4. CASE x # 1
    <3>1. key[r[1]] < key[r[x]]
      BY <1>6, <2>1, <2>2, <2>4
    <3> QED
      BY <1>4, <2>1, <2>2, <3>1
  <2> QED
    BY <2>3, <2>4
<1> QED
  BY <1>6, <1>7 DEF S, r

-----------------------------------------------------------------------------
(* The articles of a source, gathered from its mentions.                   *)
OneOfEach(R) ==
  \A r \in R : /\ r = Ref(r.art, r.paras, r.raw) /\ IsSeq(r.paras)
               /\ \A s \in R : s.art = r.art => s = r
Merged(refs, R) == OnceEach(refs) /\ ToSet(refs) \subseteq R

(* One more article of R leaves a source with articles of R, each once.    *)
LEMMA MergeRefKeeps ==
  ASSUME NEW R, OneOfEach(R), NEW refs, Merged(refs, R), NEW ref \in R
  PROVE  Merged(MergeRef(refs, ref), R)
<1> DEFINE same == {k \in DOMAIN refs : refs[k].art = ref.art}
           L == Len(refs)
<1>0. /\ IsSeq(refs) /\ ToSet(refs) \subseteq R
      /\ \A m, n \in 1 .. L : refs[m].art = refs[n].art => m = n
  BY DEF Merged, OnceEach
<1>1. L \in Nat /\ DOMAIN refs = 1 .. L /\ refs = [k \in 1 .. L |-> refs[k]]
  BY <1>0, SeqDomain
<1>2. CASE same = {}
  <2> DEFINE t == Append(refs, ref)
  <2>1. MergeRef(refs, ref) = t
    BY <1>2 DEF MergeRef
  <2>2. /\ IsSeq(t) /\ Len(t) = L + 1 /\ \A k \in 1 .. L : t[k] = refs[k]
        /\ t[L + 1] = ref /\ ToSet(t) = ToSet(refs) \cup {ref}
    BY <1>0, AppendIs
  <2>3. \A k \in 1 .. L : refs[k].art # ref.art
    BY <1>1, <1>2
  <2> HIDE DEF t, same, L
  <2>4. ASSUME NEW m \in 1 .. L + 1, NEW n \in 1 .. L + 1, t[m].art = t[n].art PROVE m = n
    <3>1. CASE m = L + 1 /\ n = L + 1
      BY <3>1
    <3>2. CASE m \in 1 .. L /\ n = L + 1
      BY <2>2, <2>3, <2>4, <3>2
    <3>3. CASE m = L + 1 /\ n \in 1 .. L
      BY <2>2, <2>3, <2>4, <3>3
    <3>4. CASE m \in 1 .. L /\ n \in 1 .. L
      BY <1>0, <2>2, <2>4, <3>4
    <3> QED
      BY <1>1, <3>1, <3>2, <3>3, <3>4
  <2>5. ToSet(t) \subseteq R
    BY <1>0, <2>2
  <2>6. \A r \in ToSet(t) : IsSeq(r.paras)
    BY <2>5 DEF OneOfEach
  <2> QED
    BY <2>1, <2>2, <2>4, <2>5, <2>6 DEF Merged, OnceEach
<1>3. CASE same # {}
  <2> DEFINE k == Min(same)
             more == Only(ref.paras, ToSet(ref.paras) \ ToSet(refs[k].paras))
  <2>1. k \in same
    <3>1. same \subseteq Nat
      BY <1>1
    <3> QED
      BY <1>3, <3>1, NatMinIs
  <2>2. MergeRef(refs, ref) = [refs EXCEPT ![k].paras = @ \o more]
    BY <1>3 DEF MergeRef
  <2>3. k \in 1 .. L /\ refs[k].art = ref.art
    BY <1>1, <2>1
  <2> HIDE DEF same, k
  <2>4. refs[k] \in R
    BY <1>0, <1>1, <2>3 DEF ToSet
  <2>5. refs[k] = ref
    BY <2>3, <2>4 DEF OneOfEach
  <2>6. IsSeq(ref.paras) /\ ref = [art |-> ref.art, paras |-> ref.paras, raw |-> ref.raw]
    BY DEF OneOfEach, Ref
  <2>7. more = <<>>
    <3>1. IsSeq(more) /\ ToSet(more) = {}
      BY <2>5, <2>6, OnlyIs
    <3> HIDE DEF more
    <3> QED
      BY <3>1, NonEmptyIs DEF ToSet
  <2> HIDE DEF more
  <2>8. ref.paras \o <<>> = ref.paras
    BY <2>6, ConcatEmptySeq DEF IsSeq
  <2>9. [refs EXCEPT ![k].paras = @ \o more] = refs
    <3>1. [refs EXCEPT ![k].paras = @ \o more] = [refs EXCEPT ![k] = [ref EXCEPT !.paras = ref.paras \o <<>>]]
      BY <2>5, <2>7
    <3>2. [ref EXCEPT !.paras = ref.paras] = ref
      BY <2>6
    <3> QED
      BY <1>1, <2>5, <2>8, <3>1, <3>2
  <2> QED
    BY <2>2, <2>9
<1> QED
  BY <1>2, <1>3

(* So do the articles of one more mention.                                 *)
LEMMA MergeKeeps ==
  ASSUME NEW R, OneOfEach(R), NEW refs, Merged(refs, R), NEW more, IsSeq(more), ToSet(more) \subseteq R
  PROVE  Merged(MergeArticles(refs, more), R)
<1> DEFINE L == Len(more)
<1>1. PICK g : /\ g[0] = refs
               /\ \A n \in 1 .. L : g[n] = MergeRef(g[n - 1], more[n])
               /\ MergeArticles(refs, more) = g[L]
  BY MergeSteps
<1>2. L \in Nat /\ DOMAIN more = 1 .. L
  BY SeqDomain
<1>3. \A n \in 1 .. L : more[n] \in R
  BY <1>2 DEF ToSet
<1> DEFINE T == {n \in Nat : n <= L => Merged(g[n], R)}
<1> HIDE DEF L
<1>4. 0 \in T
  BY <1>1
<1>5. ASSUME NEW n \in T PROVE n + 1 \in T
  <2>1. SUFFICES ASSUME n + 1 <= L PROVE Merged(g[n + 1], R)
    OBVIOUS
  <2>2. n + 1 \in 1 .. L /\ (n + 1) - 1 = n /\ n <= L
    BY <1>2, <2>1
  <2>3. Merged(g[n], R)
    BY <2>2
  <2>4. g[n + 1] = MergeRef(g[n], more[n + 1]) /\ more[n + 1] \in R
    BY <1>1, <1>3, <2>2
  <2> QED
    BY <2>3, <2>4, MergeRefKeeps
<1> HIDE DEF T
<1>6. Nat \subseteq T
  BY <1>4, <1>5, Rises
<1> QED
  BY <1>1, <1>2, <1>6 DEF T

(* So do those of all mentions.                                            *)
LEMMA GatherKeeps ==
  ASSUME NEW R, OneOfEach(R), NEW refs, Merged(refs, R), NEW rest, IsSeq(rest),
         \A n \in 1 .. Len(rest) : IsSeq(rest[n]) /\ ToSet(rest[n]) \subseteq R
  PROVE  Merged(FoldLeft(MergeArticles, refs, rest), R)
<1> DEFINE L == Len(rest)
<1>0. PICK g : Gathered(refs, rest, g)
  BY GatherSteps
<1>1. /\ g[0] = refs
      /\ \A n \in 1 .. L : g[n] = MergeArticles(g[n - 1], rest[n])
      /\ FoldLeft(MergeArticles, refs, rest) = g[L]
  BY <1>0 DEF Gathered
<1>2. L \in Nat /\ DOMAIN rest = 1 .. L
  BY SeqDomain
<1>3. \A n \in 1 .. L : IsSeq(rest[n]) /\ ToSet(rest[n]) \subseteq R
  OBVIOUS
<1> DEFINE T == {n \in Nat : n <= L => Merged(g[n], R)}
<1> HIDE DEF L
<1>4. 0 \in T
  BY <1>1
<1>5. ASSUME NEW n \in T PROVE n + 1 \in T
  <2>1. SUFFICES ASSUME n + 1 <= L PROVE Merged(g[n + 1], R)
    OBVIOUS
  <2>2. n + 1 \in 1 .. L /\ (n + 1) - 1 = n /\ n <= L
    BY <1>2, <2>1
  <2>3. Merged(g[n], R)
    BY <2>2
  <2>4. g[n + 1] = MergeArticles(g[n], rest[n + 1]) /\ IsSeq(rest[n + 1]) /\ ToSet(rest[n + 1]) \subseteq R
    BY <1>1, <1>3, <2>2
  <2> QED
    BY <2>3, <2>4, MergeKeeps
<1> HIDE DEF T
<1>6. Nat \subseteq T
  BY <1>4, <1>5, Rises
<1> DEFINE h == FoldLeft(MergeArticles, refs, rest)
<1>7. h = g[L]
  BY <1>1
<1> HIDE DEF h
<1> QED
  BY <1>2, <1>6, <1>7 DEF T, h

(* A statute that is named has a first mention.                            *)
LEMMA NamedStatute ==
  ASSUME NEW u, IsSeq(u), NEW title, NamedIn(u, title) # {}
  PROVE  /\ IsSeq(MentionsOf(u, title)) /\ ToSet(MentionsOf(u, title)) = NamedIn(u, title)
         /\ MentionsOf(u, title) # <<>> /\ MentionsOf(u, title)[1] \in NamedIn(u, title)
<1> DEFINE r == MentionsOf(u, title)
<1>1. IsSeq(r) /\ ToSet(r) = NamedIn(u, title)
  BY MentionsOfIs
<1> HIDE DEF r
<1>2. r # <<>>
  BY <1>1, EmptyIs
<1>3. r[1] \in ToSet(r)
  BY <1>1, <1>2, NonEmptyIs DEF ToSet
<1> QED
  BY <1>1, <1>2, <1>3 DEF r

Alike(b, c) ==
  /\ c.kind = b.kind /\ c.table = b.table /\ c.cell = b.cell /\ c.note = b.note /\ c.refs = b.refs
  /\ b.kind = "cell" => c.group = b.group

(* The articles of a text have the shape of articles.                      *)
LEMMA ArticlesInAre ==
  ASSUME NEW text, IsSeq(text)
  PROVE  AreArticles(ArticlesIn(text))
<1>1. IsSeq(ArticlesIn(text))
      /\ \A r \in ToSet(ArticlesIn(text)) : \E i \in DOMAIN text : r \in ToSet(RefsAt(text, i))
  BY ArticlesInHas
<1>2. \A i \in DOMAIN text : \A r \in ToSet(RefsAt(text, i)) : IsArticle(r)
  BY RefsAtIs DEF AreArticles
<1> QED
  BY <1>1, <1>2 DEF AreArticles

(* So has the paragraph that a mention cites alone.                        *)
LEMMA CitedByAre ==
  ASSUME NEW u, IsSeq(u), NEW m \in Mentions(u)
  PROVE  AreArticles(CitedBy(u, m))
<1> DEFINE g == Governed(u, m)
           r == Ref(AsArticle[g[1]], <<>>, g[1])
<1>1. AreArticles(ArticlesIn(g))
  BY GovernedIs, ArticlesInAre
<1>2. ASSUME StandsAlone(g) PROVE AreArticles(<<r>>)
  <2>1. AsArticle[g[1]] \in Articles
    BY <1>2, CitationAssumption DEF StandsAlone
  <2>2. IsArticle(r)
    BY <2>1, RefIs
  <2> HIDE DEF r
  <2>3. IsSeq(<<r>>) /\ ToSet(<<r>>) = {r}
    BY SingleIs
  <2> QED
    BY <2>2, <2>3 DEF AreArticles
<1>3. CitedBy(u, m) = ArticlesIn(g) \/ (StandsAlone(g) /\ CitedBy(u, m) = <<r>>)
  BY DEF CitedBy
<1> HIDE DEF g, r
<1> QED
  BY <1>1, <1>2, <1>3

(* So they have when one more is merged in.                                *)
LEMMA MergeRefAre ==
  ASSUME NEW refs, AreArticles(refs), NEW ref, IsArticle(ref)
  PROVE  AreArticles(MergeRef(refs, ref))
<1> DEFINE same == {k \in DOMAIN refs : refs[k].art = ref.art}
           L == Len(refs)
<1>0. IsSeq(refs) /\ \A r \in ToSet(refs) : IsArticle(r)
  BY DEF AreArticles
<1>1. L \in Nat /\ DOMAIN refs = 1 .. L /\ refs = [k \in 1 .. L |-> refs[k]]
  BY <1>0, SeqDomain
<1>2. CASE same = {}
  <2>1. MergeRef(refs, ref) = Append(refs, ref)
    BY <1>2 DEF MergeRef
  <2> QED
    BY <1>0, <2>1, AppendIs DEF AreArticles
<1>3. CASE same # {}
  <2> DEFINE k == Min(same)
  <2>1. PICK p : MergeRef(refs, ref) = [refs EXCEPT ![k] = [refs[k] EXCEPT !.paras = p]]
    BY <1>3 DEF MergeRef
  <2> DEFINE t == [refs EXCEPT ![k] = [refs[k] EXCEPT !.paras = p]]
  <2>2. t = [n \in 1 .. L |-> t[n]] /\ \A n \in 1 .. L : t[n] = IF n = k THEN [refs[k] EXCEPT !.paras = p] ELSE refs[n]
    BY <1>1
  <2>3. \A n \in 1 .. L : IsArticle(refs[n])
    BY <1>0, <1>1 DEF ToSet
  <2> HIDE DEF t, k
  <2>4. \A n \in 1 .. L : IsArticle(t[n])
    BY <2>2, <2>3 DEF IsArticle, Ref
  <2>5. IsSeq(t) /\ Len(t) = L
    BY <1>1, <2>2, FunctionIsSeq
  <2>6. \A r \in ToSet(t) : IsArticle(r)
    BY <2>2, <2>4 DEF ToSet
  <2> QED
    BY <2>1, <2>5, <2>6 DEF AreArticles, t
<1> QED
  BY <1>2, <1>3

(* So they have when those of a mention are.                               *)
LEMMA MergeAre ==
  ASSUME NEW refs, AreArticles(refs), NEW more, IsSeq(more), AreArticles(more)
  PROVE  AreArticles(MergeArticles(refs, more))
<1>1. PICK g : /\ g[0] = refs
               /\ \A n \in 1 .. Len(more) : g[n] = MergeRef(g[n - 1], more[n])
               /\ MergeArticles(refs, more) = g[Len(more)]
  BY MergeSteps
<1> DEFINE L == Len(more)
<1>11. /\ g[0] = refs
       /\ \A n \in 1 .. L : g[n] = MergeRef(g[n - 1], more[n])
       /\ MergeArticles(refs, more) = g[L]
  BY <1>1
<1>2. L \in Nat /\ DOMAIN more = 1 .. L
  BY SeqDomain
<1>3. \A n \in 1 .. L : IsArticle(more[n])
  BY <1>2 DEF ToSet, AreArticles
<1> DEFINE T == {n \in Nat : n <= L => AreArticles(g[n])}
<1> HIDE DEF L
<1>4. 0 \in T
  BY <1>11
<1>5. ASSUME NEW n \in T PROVE n + 1 \in T
  <2>1. SUFFICES ASSUME n + 1 <= L PROVE AreArticles(g[n + 1])
    OBVIOUS
  <2>2. n + 1 \in 1 .. L /\ (n + 1) - 1 = n /\ n <= L
    BY <1>2, <2>1
  <2>3. AreArticles(g[n])
    BY <2>2
  <2>4. g[n + 1] = MergeRef(g[n], more[n + 1]) /\ IsArticle(more[n + 1])
    BY <1>11, <1>3, <2>2
  <2> QED
    BY <2>3, <2>4, MergeRefAre
<1> HIDE DEF T
<1>6. Nat \subseteq T
  BY <1>4, <1>5, Rises
<1> QED
  BY <1>11, <1>2, <1>6 DEF T

(* So they have when those of all mentions are.                            *)
LEMMA GatherAre ==
  ASSUME NEW refs, AreArticles(refs), NEW rest, IsSeq(rest),
         \A n \in 1 .. Len(rest) : AreArticles(rest[n])
  PROVE  AreArticles(FoldLeft(MergeArticles, refs, rest))
<1>1. PICK g : Gathered(refs, rest, g)
  BY GatherSteps
<1> DEFINE L == Len(rest)
<1>11. /\ g[0] = refs
       /\ \A n \in 1 .. L : g[n] = MergeArticles(g[n - 1], rest[n])
       /\ FoldLeft(MergeArticles, refs, rest) = g[L]
  BY <1>1 DEF Gathered
<1>2. L \in Nat /\ DOMAIN rest = 1 .. L
  BY SeqDomain
<1>3. \A n \in 1 .. L : AreArticles(rest[n])
  OBVIOUS
<1> DEFINE T == {n \in Nat : n <= L => AreArticles(g[n])}
<1> HIDE DEF L
<1>4. 0 \in T
  BY <1>11
<1>5. ASSUME NEW n \in T PROVE n + 1 \in T
  <2>1. SUFFICES ASSUME n + 1 <= L PROVE AreArticles(g[n + 1])
    OBVIOUS
  <2>2. n + 1 \in 1 .. L /\ (n + 1) - 1 = n /\ n <= L
    BY <1>2, <2>1
  <2>3. AreArticles(g[n])
    BY <2>2
  <2>4. g[n + 1] = MergeArticles(g[n], rest[n + 1]) /\ AreArticles(rest[n + 1])
    BY <1>11, <1>3, <2>2
  <2> QED
    BY <2>3, <2>4, MergeAre DEF AreArticles
<1> HIDE DEF T
<1>6. Nat \subseteq T
  BY <1>4, <1>5, Rises
<1> DEFINE h == FoldLeft(MergeArticles, refs, rest)
<1>7. h = g[L]
  BY <1>11
<1> HIDE DEF h
<1> QED
  BY <1>2, <1>6, <1>7 DEF T, h

(* So they have in the source of a statute.                                *)
LEMMA SourceOfAre ==
  ASSUME NEW u, IsSeq(u), NEW title, NamedIn(u, title) # {}
  PROVE  AreArticles(SourceOf(u, title).articles)
<1> DEFINE M == MentionsOf(u, title)
           refs == [n \in DOMAIN M |-> CitedBy(u, M[n])]
           s == SourceOf(u, title)
<1>1. s.articles = FoldLeft(MergeArticles, refs[1], Tail(refs))
  BY DEF SourceOf
<1>2. IsSeq(M) /\ ToSet(M) = NamedIn(u, title) /\ M # <<>>
  BY NamedStatute
<1>4. ASSUME NEW n \in DOMAIN M PROVE AreArticles(refs[n])
  <2>1. M[n] \in Mentions(u)
    BY <1>2 DEF ToSet, NamedIn
  <2>2. refs[n] = CitedBy(u, M[n])
    OBVIOUS
  <2> HIDE DEF M, refs
  <2> QED
    BY <2>1, <2>2, CitedByAre
<1>5. IsSeq(refs) /\ Len(refs) = Len(M) /\ DOMAIN refs = DOMAIN M
  <2>1. Len(M) \in Nat /\ DOMAIN M = 1 .. Len(M)
    BY <1>2, SeqDomain
  <2>2. refs = [n \in 1 .. Len(M) |-> refs[n]]
    BY <2>1
  <2> HIDE DEF refs
  <2>3. IsSeq(refs) /\ Len(refs) = Len(M)
    BY <2>1, <2>2, FunctionIsSeq
  <2> QED
    BY <2>1, <2>3, SeqDomain
<1> HIDE DEF M, refs, s
<1>6. 1 \in DOMAIN M /\ Len(M) \in Nat \ {0}
  BY <1>2, NonEmptyIs
<1>7. refs # <<>>
  BY <1>5, <1>6, EmptyIs
<1> DEFINE t == Tail(refs)
<1>8. IsSeq(t) /\ ToSet(refs) = {Head(refs)} \cup ToSet(t)
  BY <1>5, <1>7, TailIs
<1> HIDE DEF t
<1>9. ASSUME NEW n \in 1 .. Len(t) PROVE AreArticles(t[n])
  <2>2. t[n] \in ToSet(t)
    BY <1>8, SeqDomain DEF ToSet
  <2>3. PICK k \in DOMAIN refs : t[n] = refs[k]
    BY <1>8, <2>2 DEF ToSet
  <2> QED
    BY <1>4, <1>5, <2>3
<1>10. AreArticles(refs[1])
  BY <1>4, <1>6
<1>11. AreArticles(FoldLeft(MergeArticles, refs[1], t))
  BY <1>8, <1>9, <1>10, GatherAre
<1> QED
  BY <1>1, <1>11 DEF t, s

(* And so in all sources of a text.                                        *)
LEMMA LegalSourcesCite ==
  ASSUME NEW u, IsSeq(u)
  PROVE  \A k \in DOMAIN LegalSources(u) : AreArticles(LegalSources(u)[k].articles)
<1> DEFINE S == Statutes(u)
           key == [t \in S |-> Place(u, MentionsOf(u, t)[1])]
           order == Ranked(S, key)
           n == Cardinality(S)
           L == LegalSources(u)
<1>1. IsFiniteSet(S) /\ n \in Nat
  BY CitationAssumption, FS_Subset, FS_CardinalityType DEF Statutes
<1>2. ASSUME NEW t \in S
      PROVE  /\ NamedIn(u, t) # {} /\ MentionsOf(u, t)[1] \in NamedIn(u, t)
             /\ MentionsOf(u, t)[1] \in Mentions(u) /\ TitleAt(u, MentionsOf(u, t)[1]) = t
             /\ key[t] = Place(u, MentionsOf(u, t)[1])
  <2>1. NamedIn(u, t) # {}
    BY DEF Statutes, NamedIn
  <2>2. MentionsOf(u, t)[1] \in NamedIn(u, t)
    BY <2>1, NamedStatute
  <2> QED
    BY <2>1, <2>2 DEF NamedIn
<1>3. L = [k \in 1 .. n |-> SourceOf(u, order[k])]
  BY DEF LegalSources
<1> HIDE DEF S, key, order, L
<1>4. \A t \in S : key[t] \in Int
  BY <1>2, PlaceIs
<1>5. \A t, v \in S : key[t] = key[v] => t = v
  <2>1. SUFFICES ASSUME NEW t \in S, NEW v \in S, key[t] = key[v] PROVE t = v
    OBVIOUS
  <2>2. MentionsOf(u, t)[1] = MentionsOf(u, v)[1]
    BY <1>2, <2>1, PlaceIs
  <2> QED
    BY <1>2, <2>2
<1>6. DOMAIN order = 1 .. n /\ ToSet(order) = S
  BY <1>1, <1>4, <1>5, RankedIs DEF order
<1> HIDE DEF n
<1>7. ASSUME NEW k \in 1 .. n PROVE AreArticles(L[k].articles)
  <2>1. order[k] \in S
    BY <1>6 DEF ToSet
  <2>2. L[k] = SourceOf(u, order[k])
    BY <1>3
  <2> QED
    BY <1>2, <2>1, <2>2, SourceOfAre
<1> QED
  BY <1>3, <1>7 DEF L

(* A text and what is put behind it are within the two together.           *)
LEMMA FirstInside ==
  ASSUME NEW u, IsSeq(u), NEW v, IsSeq(v)
  PROVE  Inside(u \o v, u, 0) /\ Inside(u \o v, v, Len(u)) /\ (u # <<>> => u \o v # <<>>)
<1> DEFINE t == u \o v
<1>1. /\ IsSeq(t) /\ Len(t) = Len(u) + Len(v)
      /\ \A k \in 1 .. Len(u) : t[k] = u[k]
      /\ \A k \in 1 .. Len(v) : t[Len(u) + k] = v[k]
  BY ConcatIs
<1>2. Len(u) \in Nat /\ Len(v) \in Nat
  BY SeqDomain
<1>3. u # <<>> => Len(u) # 0
  BY NonEmptyIs
<1> HIDE DEF t
<1>4. Inside(t, u, 0)
  BY <1>1, <1>2 DEF Inside
<1>5. Inside(t, v, Len(u))
  BY <1>1, <1>2 DEF Inside
<1>6. u # <<>> => t # <<>>
  BY <1>1, <1>2, <1>3, EmptyIs
<1> QED
  BY <1>4, <1>5, <1>6 DEF t

-----------------------------------------------------------------------------
(* What an article takes over from elsewhere.                              *)
Takes(u, refs) ==
  \/ refs = ArticlesIn(u)
  \/ /\ PartialParagraphs(u) # <<>>
     /\ \E a \in Articles : refs = <<WholeArticle(a, PartialParagraphs(u))>>
Borrowed(s, u) == s.span = 0 /\ Takes(u, s.articles)
Singly(text) == \A i, j \in NumberPositions(text) : text[i] = text[j] => i = j

(* A single source.                                                        *)
LEMMA OneSourced ==
  ASSUME NEW s, OnceEach(s.articles), \A r \in ToSet(s.articles) : IsWholeArticle(r)
  PROVE  /\ Sourced(<<s>>) /\ DOMAIN <<s>> = {1} /\ <<s>>[1] = s
         /\ \A w \in Want(<<s>>) : w.source = 1 /\ w.ref \in ToSet(s.articles)
                                   /\ w = [source |-> 1, ref |-> w.ref]
         /\ \A r \in ToSet(s.articles) : [source |-> 1, ref |-> r] \in Want(<<s>>)
<1> DEFINE ss == <<s>>
<1>1. IsSeq(ss) /\ DOMAIN ss = 1 .. 1 /\ ss[1] = s
  BY SingleIs
<1>2. 1 .. 1 = {1}
  OBVIOUS
<1> HIDE DEF ss
<1>3. Sourced(ss)
  BY <1>1, <1>2 DEF Sourced
<1> QED
  BY <1>1, <1>2, <1>3, WantedIs DEF ss

(* Articles of its own.                                                    *)
LEMMA BorrowedArticles ==
  ASSUME NEW text, NEW u, NEW d, Inside(text, u, d), PlainWords(text), Singly(text),
         NEW s, s.span = 0, s.articles = ArticlesIn(u)
  PROVE  CitationsIntact(<<s>>, Occurrences(text, <<s>>))
<1> DEFINE ss == <<s>>
           P == [w \in Want(ss) |-> d + (CHOOSE q \in NumberPositions(u) : w.ref = ArticleRef(u, q))]
<1>0. /\ IsSeq(text) /\ IsSeq(u) /\ d \in Nat
      /\ DOMAIN text = 1 .. Len(text) /\ DOMAIN u = 1 .. Len(u) /\ Len(u) \in Nat
      /\ \A i \in DOMAIN u : d + i \in DOMAIN text /\ text[d + i] = u[i]
  BY InsideIs DEF Inside
<1>1. Singly(u)
  <2>1. SUFFICES ASSUME NEW i \in NumberPositions(u), NEW j \in NumberPositions(u), u[i] = u[j]
                 PROVE  i = j
    BY DEF Singly
  <2>2. d + i = d + j
    BY <2>1, NumbersInside DEF Singly
  <2> QED
    BY <1>0, <2>2 DEF NumberPositions
<1>2. OnceEach(s.articles)
        /\ \A r \in ToSet(s.articles) : \E q \in NumberPositions(u) : r = ArticleRef(u, q)
  BY <1>0, <1>1, PlainInside, ArticlesInIs DEF Singly
<1>20. \A r \in ToSet(s.articles) : IsWholeArticle(r)
  BY <1>0, <1>2, ArticleRefIs
<1>3. /\ Sourced(ss) /\ DOMAIN ss = {1} /\ ss[1] = s
      /\ \A w \in Want(ss) : w.source = 1 /\ w.ref \in ToSet(s.articles)
                             /\ w = [source |-> 1, ref |-> w.ref]
  BY <1>2, <1>20, OneSourced
<1> HIDE DEF ss
<1>4. ASSUME NEW w \in Want(ss)
      PROVE  \E q \in NumberPositions(u) :
               /\ w.ref = ArticleRef(u, q) /\ P[w] = d + q /\ w.ref.art = u[q]
               /\ d + q \in NumberPositions(text) /\ text[d + q] = u[q]
  <2> DEFINE q == CHOOSE q \in NumberPositions(u) : w.ref = ArticleRef(u, q)
  <2>1. q \in NumberPositions(u) /\ w.ref = ArticleRef(u, q)
    BY <1>2, <1>3
  <2>2. P[w] = d + q
    OBVIOUS
  <2> HIDE DEF q, P
  <2>3. w.ref.art = u[q]
    BY <1>0, <2>1, ArticleRefIs
  <2>4. d + q \in NumberPositions(text) /\ text[d + q] = u[q]
    BY <2>1, NumbersInside
  <2> QED
    BY <2>1, <2>2, <2>3, <2>4
<1> HIDE DEF P
<1>5. Places(text, ss, P)
  <2>1. \A w \in Want(ss) : P[w] \in NumberPositions(text) /\ text[P[w]] = w.ref.art
    BY <1>4
  <2>2. ASSUME NEW w \in Want(ss), NEW v \in Want(ss), P[w] = P[v] PROVE w = v
    <3>1. PICK p \in NumberPositions(u) : w.ref = ArticleRef(u, p) /\ P[w] = d + p
      BY <1>4
    <3>2. PICK q \in NumberPositions(u) : v.ref = ArticleRef(u, q) /\ P[v] = d + q
      BY <1>4
    <3>3. p = q
      <4>1. p \in Int /\ q \in Int
        BY <1>0 DEF NumberPositions
      <4>2. d + p = d + q
        BY <2>2, <3>1, <3>2
      <4> QED
        BY <1>0, <4>1, <4>2
    <3> QED
      BY <1>3, <3>1, <3>2, <3>3
  <2> QED
    BY <2>1, <2>2 DEF Places
<1>6. SoughtAt(text, ss, P)
  <2>1. ASSUME NEW w \in Want(ss)
        PROVE  \A i \in DOMAIN text : text[i] = w.ref.art => i = P[w]
    <3>1. PICK q \in NumberPositions(u) :
            /\ P[w] = d + q /\ w.ref.art = u[q] /\ d + q \in NumberPositions(text) /\ text[d + q] = u[q]
      BY <1>4
    <3>2. u[q] \in Numbers
      BY <3>1 DEF NumberPositions
    <3> QED
      BY <3>1, <3>2 DEF Singly, NumberPositions
  <2> QED
    BY <1>3, <2>1 DEF SoughtAt
<1>7. ParagraphsFollow(text, ss, P)
  <2>1. SUFFICES ASSUME NEW w \in Want(ss), NEW x \in ToSet(w.ref.paras)
                 PROVE  \E i \in DOMAIN text : /\ i > P[w] /\ text[i] = x
                                               /\ \A v \in Want(ss) : P[v] > P[w] => i < P[v]
    BY DEF ParagraphsFollow
  <2>2. PICK q \in NumberPositions(u) : w.ref = ArticleRef(u, q) /\ P[w] = d + q
    BY <1>4
  <2>3. PICK j \in DOMAIN u : /\ j > q /\ u[j] = x
                              /\ \A p \in NumberPositions(u) : p > q => j < p
    BY <1>0, <2>2, ArticleRefIs
  <2>4. d + j \in DOMAIN text /\ text[d + j] = x /\ d + j > P[w]
    BY <1>0, <2>2, <2>3 DEF NumberPositions
  <2>5. ASSUME NEW v \in Want(ss), P[v] > P[w] PROVE d + j < P[v]
    <3>1. PICK p \in NumberPositions(u) : P[v] = d + p
      BY <1>4
    <3>2. p \in DOMAIN u /\ q \in DOMAIN u
      BY <2>2, <3>1 DEF NumberPositions
    <3>3. p > q
      BY <1>0, <2>2, <2>5, <3>1, <3>2
    <3> QED
      BY <1>0, <2>3, <3>1, <3>2, <3>3
  <2> QED
    BY <2>4, <2>5
<1>8. Fits(text, ss, P)
  BY <1>0, <1>3, <1>5, <1>6, <1>7 DEF Fits
<1> QED
  BY <1>8, FitsIntact DEF ss

(* Paragraphs of an article that is found in the text.                     *)
LEMMA BorrowedFound ==
  ASSUME NEW text, NEW u, NEW d, Inside(text, u, d), PlainWords(text), Singly(text),
         NEW a \in Articles, NEW paras, IsSeq(paras), ToSet(paras) \subseteq ToSet(u),
         NEW s, s.span = 0, s.articles = <<WholeArticle(a, paras)>>,
         NEW p \in 1 .. d, p \in DOMAIN text, text[p] = a
  PROVE  CitationsIntact(<<s>>, Occurrences(text, <<s>>))
<1> DEFINE ss == <<s>>
           r == WholeArticle(a, paras)
           P == [w \in Want(ss) |-> p]
<1>0. /\ IsSeq(text) /\ IsSeq(u) /\ d \in Nat
      /\ DOMAIN text = 1 .. Len(text) /\ DOMAIN u = 1 .. Len(u) /\ Len(u) \in Nat
      /\ \A i \in DOMAIN u : d + i \in DOMAIN text /\ text[d + i] = u[i]
  BY InsideIs DEF Inside
<1>1. r.art = a /\ r.paras = paras /\ IsWholeArticle(r) /\ s.articles = <<r>>
  BY WholeArticleIs
<1> HIDE DEF r
<1>2. OnceEach(s.articles) /\ ToSet(s.articles) = {r}
  <2> DEFINE t == <<r>>
  <2>1. IsSeq(t) /\ Len(t) = 1 /\ ToSet(t) = {r}
    BY SingleIs
  <2> HIDE DEF t
  <2>2. OnceEach(t)
    BY <1>1, <2>1 DEF OnceEach
  <2> QED
    BY <1>1, <2>1, <2>2 DEF t
<1>3. /\ Sourced(ss) /\ DOMAIN ss = {1} /\ ss[1] = s
      /\ \A w \in Want(ss) : w = [source |-> 1, ref |-> r] /\ w.source = 1 /\ w.ref = r
  BY <1>1, <1>2, OneSourced
<1> HIDE DEF ss
<1>4. \A w \in Want(ss) : P[w] = p
  OBVIOUS
<1> HIDE DEF P
<1>40. p \in NumberPositions(text) /\ \A i \in DOMAIN text : text[i] = a => i \in NumberPositions(text)
  BY DEF NumberPositions, Numbers
<1>5. Places(text, ss, P)
  BY <1>1, <1>3, <1>4, <1>40 DEF Places
<1>6. SoughtAt(text, ss, P)
  <2>1. \A i \in DOMAIN text : text[i] = a => i = p
    BY <1>40 DEF Singly
  <2> QED
    BY <1>1, <1>3, <1>4, <2>1 DEF SoughtAt
<1>7. ParagraphsFollow(text, ss, P)
  <2>1. SUFFICES ASSUME NEW w \in Want(ss), NEW x \in ToSet(w.ref.paras)
                 PROVE  \E i \in DOMAIN text : /\ i > P[w] /\ text[i] = x
                                               /\ \A v \in Want(ss) : P[v] > P[w] => i < P[v]
    BY DEF ParagraphsFollow
  <2>2. PICK j \in DOMAIN u : u[j] = x
    BY <1>1, <1>3, <2>1 DEF ToSet
  <2>3. d + j \in DOMAIN text /\ text[d + j] = x /\ d + j > p
    BY <1>0, <2>2
  <2> QED
    BY <1>4, <2>3
<1>8. Fits(text, ss, P)
  BY <1>0, <1>3, <1>5, <1>6, <1>7 DEF Fits
<1> QED
  BY <1>8, FitsIntact DEF ss

(* An article that is nowhere in the text is not located.                  *)
LEMMA NoneLocated ==
  ASSUME NEW text, PlainWords(text), NEW sources, Sourced(sources),
         \A w \in Want(sources) : \A i \in DOMAIN text : text[i] # w.ref.art
  PROVE  Located(text, sources) = <<>>
<1> DEFINE L == Len(Wanted(sources))
<1>0. IsSeq(Wanted(sources)) /\ L \in Nat /\ DOMAIN Wanted(sources) = 1 .. L
  BY WantedIs, SeqDomain
<1>1. PICK g : /\ g[0] = <<>>
               /\ \A n \in 1 .. L : g[n] = Take(text, sources, g[n - 1], Wanted(sources)[n])
               /\ Located(text, sources) = g[L]
  BY <1>0, TakeSteps
<1>2. ASSUME NEW found, NEW w \in Want(sources) PROVE Take(text, sources, found, w) = found
  <2>1. {m \in Mentioned(text, sources) : m.art = w.ref.art} = {}
    <3>1. ASSUME NEW m \in Mentioned(text, sources) PROVE m.art # w.ref.art
      <4>1. PICK i \in NumberPositions(text) : m = NumberMention(text, sources, i)
        BY MentionedIs
      <4>2. m.art = text[i] /\ i \in DOMAIN text
        BY <4>1 DEF NumberMention, NumberPositions
      <4> QED
        BY <4>2
    <3> QED
      BY <3>1
  <2>2. \A used : MentionFor(text, sources, w, used) = {}
    BY <2>1 DEF MentionFor
  <2> QED
    BY <2>2 DEF Take
<1>3. \A n \in 1 .. L : Wanted(sources)[n] \in Want(sources)
  BY <1>0 DEF Want, ToSet
<1> DEFINE T == {n \in Nat : n <= L => g[n] = <<>>}
<1> HIDE DEF L
<1>4. 0 \in T
  BY <1>1
<1>5. ASSUME NEW n \in T PROVE n + 1 \in T
  <2>1. SUFFICES ASSUME n + 1 <= L PROVE g[n + 1] = <<>>
    OBVIOUS
  <2>2. n + 1 \in 1 .. L /\ (n + 1) - 1 = n /\ n <= L
    BY <1>0, <2>1
  <2>3. g[n] = <<>>
    BY <2>2
  <2> QED
    BY <1>1, <1>2, <1>3, <2>2, <2>3
<1> HIDE DEF T
<1>6. Nat \subseteq T
  BY <1>4, <1>5, Rises
<1> QED
  BY <1>0, <1>1, <1>6 DEF T

(* Where one article is wanted and not located.                           *)
LEMMA OnlyLost ==
  ASSUME NEW text, NEW sources, Located(text, sources) = <<>>,
         NEW w0, Lost(sources, <<>>) = {w0},
         NEW cited, cited = CiteParagraphs(text, sources[w0.source], w0.ref.art, ToSet(w0.ref.paras),
                                           DOMAIN text)
  PROVE  Occurrences(text, sources) = cited
<1>1. Occurrences(text, sources) = FoundCitations(text, sources, <<>>) \cup LostCitations(text, sources, <<>>)
  BY DEF Occurrences
<1>2. FoundCitations(text, sources, <<>>) = {}
  BY EmptyIs, SeqDomain DEF FoundCitations
<1>3. LostCitations(text, sources, <<>>) = cited
  BY DEF LostCitations
<1> QED
  BY <1>1, <1>2, <1>3

(* Paragraphs of an article that the text does not have.                   *)
LEMMA BorrowedLost ==
  ASSUME NEW text, IsSeq(text), PlainWords(text), NEW a, NEW paras, IsSeq(paras), paras # <<>>,
         ToSet(paras) \subseteq ToSet(text),
         NEW s, s.articles = <<WholeArticle(a, paras)>>,
         \A i \in DOMAIN text : text[i] # a
  PROVE  CitationsIntact(<<s>>, Occurrences(text, <<s>>))
<1> DEFINE ss == <<s>>
           r == WholeArticle(a, paras)
           w0 == [source |-> 1, ref |-> r]
           cs == Occurrences(text, ss)
           cited == CiteParagraphs(text, s, a, ToSet(paras), DOMAIN text)
<1>1. r.art = a /\ r.paras = paras /\ IsWholeArticle(r) /\ s.articles = <<r>>
  BY WholeArticleIs
<1> HIDE DEF r
<1>2. /\ OnceEach(s.articles) /\ ToSet(s.articles) = {r} /\ DOMAIN s.articles = {1}
      /\ s.articles[1] = r
  <2> DEFINE t == <<r>>
  <2>1. IsSeq(t) /\ Len(t) = 1 /\ ToSet(t) = {r} /\ DOMAIN t = 1 .. 1 /\ t[1] = r
    BY SingleIs
  <2> HIDE DEF t
  <2>2. OnceEach(t)
    BY <1>1, <2>1 DEF OnceEach
  <2>3. 1 .. 1 = {1}
    OBVIOUS
  <2> QED
    BY <1>1, <2>1, <2>2, <2>3 DEF t
<1>3. /\ Sourced(ss) /\ DOMAIN ss = {1} /\ ss[1] = s
      /\ \A w \in Want(ss) : w = w0 /\ w.source = 1 /\ w.ref = r
      /\ w0 \in Want(ss)
  BY <1>1, <1>2, OneSourced
<1>4. w0.source = 1 /\ w0.ref = r
  OBVIOUS
<1>5. Located(text, ss) = <<>>
  <2> HIDE DEF ss, w0
  <2>1. \A w \in Want(ss) : \A i \in DOMAIN text : text[i] # w.ref.art
    BY <1>1, <1>3
  <2> QED
    BY <1>3, <2>1, NoneLocated
<1> HIDE DEF ss, w0
<1>6. Lost(ss, <<>>) = {w0}
  BY <1>3, EmptyIs DEF Lost, Want
<1>7. cs = cited
  <2>3. CiteParagraphs(text, ss[w0.source], w0.ref.art, ToSet(w0.ref.paras), DOMAIN text) = cited
    BY <1>1, <1>3, <1>4
  <2> HIDE DEF cited
  <2> QED
    BY <1>5, <1>6, <2>3, OnlyLost
<1>8. /\ \A c \in cited : c.title = s.title /\ c.art = a /\ c.para \in ToSet(paras)
      /\ \A i \in DOMAIN text : text[i] \in ToSet(paras) => \E c \in cited : c.para = text[i]
  BY CiteParagraphsIs
<1> HIDE DEF cited, cs
<1>9. ASSUME NEW c \in cited PROVE \E k \in DOMAIN ss : IsRecognised(ss[k], c)
  <2>1. {n \in DOMAIN s.articles : s.articles[n].art = c.art} = {1}
    BY <1>1, <1>2, <1>8
  <2>2. Min({1}) = 1
    BY NatMinIs
  <2>3. c.para \in ToSet(paras) /\ c.title = s.title
    BY <1>8
  <2>4. Contains(s.articles[1].paras, c.para)
    <3>1. PICK m \in DOMAIN paras : paras[m] = c.para
      BY <2>3 DEF ToSet
    <3>2. DOMAIN paras = 1 .. Len(paras)
      BY SeqDomain
    <3>3. s.articles[1].paras = paras
      BY <1>1, <1>2
    <3> QED
      BY <3>1, <3>2, <3>3 DEF Contains
  <2>5. IsRecognised(s, c)
    BY <2>1, <2>2, <2>3, <2>4 DEF IsRecognised
  <2> QED
    BY <1>3, <2>5
<1>10. ASSUME NEW x \in ToSet(paras) PROVE \E c \in cited : c.para = x
  <2>1. PICK i \in DOMAIN text : text[i] = x
    BY DEF ToSet
  <2> QED
    BY <1>8, <2>1
<1>11. IsCited(s, r, cited)
  <2>1. {c \in cited : c.title = s.title /\ c.art = r.art} = cited
    BY <1>1, <1>8
  <2>2. ToSet(paras) # {}
    BY NonEmptyIs DEF ToSet
  <2>3. cited # {}
    BY <1>10, <2>2
  <2>4. ToSet(r.paras) \subseteq {c.para : c \in cited}
    BY <1>1, <1>10
  <2> QED
    BY <2>1, <2>3, <2>4 DEF IsCited
<1>12. CitationsIntact(ss, cited)
  BY <1>2, <1>3, <1>9, <1>11 DEF CitationsIntact
<1> QED
  BY <1>7, <1>12 DEF cs, ss

(* All of them.                                                            *)
LEMMA BorrowedIntact ==
  ASSUME NEW v, IsSeq(v), NEW u, IsSeq(u), NEW text, text = v \o u, PlainWords(text), Singly(text),
         NEW s, Borrowed(s, u)
  PROVE  CitationsIntact(<<s>>, Occurrences(text, <<s>>))
<1>0. IsSeq(text) /\ Inside(text, u, Len(v)) /\ Len(text) = Len(v) + Len(u)
  BY FirstInside, ConcatIs
<1>1. CASE s.articles = ArticlesIn(u)
  BY <1>0, <1>1, BorrowedArticles DEF Borrowed
<1>2. CASE /\ PartialParagraphs(u) # <<>>
           /\ \E a \in Articles : s.articles = <<WholeArticle(a, PartialParagraphs(u))>>
  <2> DEFINE paras == PartialParagraphs(u)
  <2>1. PICK a \in Articles : s.articles = <<WholeArticle(a, paras)>>
    BY <1>2
  <2>2. paras # <<>> /\ paras = Only(u, Paragraphs) /\ ToSet(u) \cap Numbers = {}
    BY <1>2 DEF PartialParagraphs
  <2> HIDE DEF paras
  <2>3. IsSeq(paras) /\ ToSet(paras) \subseteq ToSet(u)
    BY <2>2, OnlyIs
  <2>4. ToSet(u) \subseteq ToSet(text)
    BY ConcatIs
  <2>5. CASE \A i \in DOMAIN text : text[i] # a
    BY <1>0, <2>1, <2>2, <2>3, <2>4, <2>5, BorrowedLost
  <2>6. CASE \E i \in DOMAIN text : text[i] = a
    <3>1. PICK p \in DOMAIN text : text[p] = a
      BY <2>6
    <3>2. p \in 1 .. Len(v)
      <4>1. SUFFICES ASSUME p \notin 1 .. Len(v) PROVE FALSE
        OBVIOUS
      <4>2. Len(v) \in Nat /\ Len(u) \in Nat /\ DOMAIN text = 1 .. Len(v) + Len(u) /\ DOMAIN u = 1 .. Len(u)
        BY <1>0, SeqDomain
      <4>3. p - Len(v) \in 1 .. Len(u) /\ Len(v) + (p - Len(v)) = p
        BY <4>1, <4>2
      <4>4. u[p - Len(v)] = a
        BY <1>0, <3>1, <4>3 DEF Inside
      <4> QED
        BY <2>2, <4>2, <4>3, <4>4 DEF ToSet, Numbers
    <3> QED
      BY <1>0, <2>1, <2>3, <3>1, <3>2, BorrowedFound DEF Borrowed
  <2> QED
    BY <2>5, <2>6
<1> QED
  BY <1>1, <1>2 DEF Borrowed, Takes

(* A single article.                                                       *)
LEMMA OneArticle ==
  ASSUME NEW a \in Articles, NEW p
  PROVE  AreArticles(<<WholeArticle(a, p)>>)
<1> DEFINE r == WholeArticle(a, p)
<1>1. IsArticle(r)
  BY WholeArticleIs
<1> HIDE DEF r
<1>2. IsSeq(<<r>>) /\ ToSet(<<r>>) = {r}
  BY SingleIs
<1>3. AreArticles(<<r>>)
  BY <1>1, <1>2 DEF AreArticles
<1> QED
  BY <1>3 DEF r
=============================================================================
