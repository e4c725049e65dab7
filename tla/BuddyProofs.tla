---------------------------- MODULE BuddyProofs -----------------------------
(***************************************************************************)
(* Proofs about Buddy, for any MAX_ORDER and any number of pages: no page  *)
(* is lost or handed out twice, buddies are always merged, requests are    *)
(* refused only when they must be, the lists are queues, and the allocator *)
(* keeps the promise of PageAllocator.                                     *)
(*                                                                         *)
(* Splits and merges are one thing seen from two sides: a chunk is         *)
(* exchanged for the smaller chunk around one of its pages and the buddies *)
(* passed on the way, or the other way round (Chain, Exchange).            *)
(*                                                                         *)
(* The last part is about BuddyHeap: its linked lists stay well formed and *)
(* do what the sequences of Buddy do, and no cell leaks.                   *)
(***************************************************************************)
EXTENDS BuddyHeap, FiniteSetTheorems, SequenceTheorems, WellFoundedInduction, TLAPS

-----------------------------------------------------------------------------
(* Powers of two.  The provers know nothing of ^; the library's theorem on *)
(* the number of subsets says enough.                                      *)

LEMMA PowerCounts ==
  ASSUME NEW S, IsFiniteSet(S), NEW n \in Nat, Cardinality(S) = n
  PROVE  /\ IsFiniteSet(SUBSET S)
         /\ Cardinality(SUBSET S) = 2^n
         /\ 2^n \in Nat \ {0}
PROOF
  <1>1. IsFiniteSet(SUBSET S) /\ Cardinality(SUBSET S) = 2^n
    BY FS_SUBSET
  <1>2. {} \in SUBSET S
    OBVIOUS
  <1>3. Cardinality(SUBSET S) \in Nat /\ Cardinality(SUBSET S) # 0
    BY <1>1, <1>2, FS_CardinalityType, FS_EmptySet
  <1> QED
    BY <1>1, <1>3

\* The subsets of a + b numbers are the pairs of a subset of the first a and one
\* of the last b.
LEMMA PowerSum ==
  ASSUME NEW a \in Nat, NEW b \in Nat
  PROVE  2^(a + b) = 2^a * 2^b
PROOF
  <1> DEFINE A == 1..a
             B == (a + 1)..(a + b)
  <1>1. IsFiniteSet(A) /\ Cardinality(A) = a /\ IsFiniteSet(B) /\ Cardinality(B) = b
    BY FS_Interval
  <1>2. IsFiniteSet(1..(a + b)) /\ Cardinality(1..(a + b)) = a + b /\ a + b \in Nat
    BY FS_Interval
  <1>3. A \cap B = {} /\ 1..(a + b) = A \cup B
    OBVIOUS
  <1> HIDE DEF A, B
  <1>4. /\ IsFiniteSet(SUBSET A) /\ Cardinality(SUBSET A) = 2^a
        /\ IsFiniteSet(SUBSET B) /\ Cardinality(SUBSET B) = 2^b
        /\ Cardinality(SUBSET (1..(a + b))) = 2^(a + b)
    BY <1>1, <1>2, PowerCounts
  <1> DEFINE SA == SUBSET A
             SB == SUBSET B
             All == SUBSET (1..(a + b))
  <1>5. \A s : /\ s \in SA <=> s \subseteq A
               /\ s \in SB <=> s \subseteq B
               /\ s \in All <=> s \subseteq A \cup B
    BY <1>3
  <1> HIDE DEF SA, SB, All
  <1>6. ExistsBijection(SA \X SB, All)
    <2> DEFINE join == [p \in SA \X SB |-> p[1] \cup p[2]]
    <2>1. join \in [SA \X SB -> All]
      <3>1. ASSUME NEW p \in SA \X SB PROVE p[1] \cup p[2] \in All
        <4>1. p[1] \in SA /\ p[2] \in SB
          OBVIOUS
        <4> QED
          BY <1>5, <4>1
      <3> QED
        BY <3>1
    <2>2. ASSUME NEW p \in SA \X SB
          PROVE  p = <<p[1], p[2]>> /\ p[1] = join[p] \cap A /\ p[2] = join[p] \cap B
      <3>1. p[1] \in SA /\ p[2] \in SB /\ p = <<p[1], p[2]>>
        OBVIOUS
      <3>2. p[1] \subseteq A /\ p[2] \subseteq B
        BY <1>5, <3>1
      <3>3. join[p] = p[1] \cup p[2]
        OBVIOUS
      <3> HIDE DEF join
      <3> QED
        BY <1>3, <3>1, <3>2, <3>3
    <2>3. ASSUME NEW s \in All PROVE \E p \in SA \X SB : join[p] = s
      <3> DEFINE p == <<s \cap A, s \cap B>>
      <3>1. s \cap A \in SA /\ s \cap B \in SB /\ (s \cap A) \cup (s \cap B) = s
        BY <1>5
      <3>2. p \in SA \X SB
        BY <3>1
      <3>3. join[p] = (s \cap A) \cup (s \cap B)
        BY <3>2
      <3> QED
        BY <3>1, <3>2, <3>3
    <2> HIDE DEF join
    <2>4. ASSUME NEW p \in SA \X SB, NEW q \in SA \X SB, join[p] = join[q]
          PROVE  p = q
      BY <2>2, <2>4
    <2>5. IsInjective(join)
      BY <2>1, <2>4 DEF IsInjective
    <2>6. join \in Injection(SA \X SB, All)
      BY <2>1, <2>5 DEF Injection
    <2>7. join \in Surjection(SA \X SB, All)
      BY <2>1, <2>3 DEF Surjection
    <2>8. join \in Bijection(SA \X SB, All)
      BY <2>6, <2>7 DEF Bijection
    <2> QED
      BY <2>8 DEF ExistsBijection
  <1>7. /\ IsFiniteSet(SA) /\ Cardinality(SA) = 2^a
        /\ IsFiniteSet(SB) /\ Cardinality(SB) = 2^b
        /\ Cardinality(All) = 2^(a + b)
    BY <1>4 DEF SA, SB, All
  <1>8. IsFiniteSet(SA \X SB) /\ Cardinality(SA \X SB) = Cardinality(SA) * Cardinality(SB)
    BY <1>7, FS_Product
  <1>9. Cardinality(All) = Cardinality(SA \X SB)
    BY <1>6, <1>8, FS_Bijection
  <1> QED
    BY <1>7, <1>8, <1>9

LEMMA PowerNat == \A n \in Nat : 2^n \in Nat \ {0}
PROOF
  <1> SUFFICES ASSUME NEW n \in Nat PROVE 2^n \in Nat \ {0}
    OBVIOUS
  <1>1. IsFiniteSet(1..n) /\ Cardinality(1..n) = n
    BY FS_Interval
  <1> QED
    BY <1>1, PowerCounts

LEMMA PowerStep == 2^0 = 1 /\ \A n \in Nat : 2^(n + 1) = 2 * 2^n
PROOF
  <1>1. 2^0 = 1
    <2>1. 2^0 * 2^0 = 2^0
      BY PowerSum
    <2> QED
      BY <2>1, PowerNat
  <1>2. 2^1 = 2
    <2>1. IsFiniteSet({1}) /\ Cardinality({1}) = 1
      BY FS_Singleton
    <2>2. SUBSET {1} = {{}} \cup {{1}}
      OBVIOUS
    <2>3. IsFiniteSet({{}}) /\ Cardinality({{}}) = 1 /\ {1} \notin {{}}
      BY FS_Singleton
    <2>4. Cardinality({{}} \cup {{1}}) = 1 + 1
      BY <2>3, FS_AddElement, Zenon
    <2>5. Cardinality(SUBSET {1}) = 1 + 1
      BY <2>2, <2>4, Zenon
    <2>6. Cardinality(SUBSET {1}) = 2^1
      BY <2>1, PowerCounts
    <2> QED
      BY <2>5, <2>6
  <1>3. ASSUME NEW n \in Nat PROVE 2^(n + 1) = 2 * 2^n
    <2>1. 2^(n + 1) = 2^n * 2^1
      BY PowerSum
    <2> QED
      BY <1>2, <2>1, PowerNat
  <1> QED
    BY <1>1, <1>3

\* 2^j is a multiple of 2^i, and as large, when i is at most j.
LEMMA PowerDivides ==
  ASSUME NEW i \in Nat, NEW j \in Nat, i <= j
  PROVE  2^j = 2^(j - i) * 2^i /\ 2^(j - i) \in Nat \ {0} /\ 2^i <= 2^j
PROOF
  <1> DEFINE k == j - i
  <1>1. k \in Nat /\ j = k + i
    OBVIOUS
  <1> HIDE DEF k
  <1>2. 2^j = 2^k * 2^i /\ 2^k \in Nat \ {0} /\ 2^i \in Nat \ {0}
    BY <1>1, PowerSum, PowerNat
  <1>3. ASSUME NEW x \in Nat \ {0}, NEW y \in Nat \ {0} PROVE y <= x * y
    BY <1>3
  <1> QED
    BY <1>2, <1>3 DEF k

-----------------------------------------------------------------------------
(* Least elements, which stand for an induction over the orders.           *)

LEMMA Least ==
  ASSUME NEW S, S \subseteq Nat, S # {}
  PROVE  \E x \in S : \A y \in S : x <= y
PROOF
  <1>1. IsWellFoundedOn(OpToRel(<, Nat), Nat)
    BY NatLessThanWellFounded
  <1>2. PICK x \in S : \A y \in S : ~(<<y, x>> \in OpToRel(<, Nat))
    BY <1>1, WFMin
  <1>3. ASSUME NEW y \in S PROVE x <= y
    <2>1. ~(y < x)
      BY <1>2 DEF OpToRel
    <2> QED
      BY <2>1
  <1> QED
    BY <1>3

LEMMA MinIsLeast ==
  ASSUME NEW S, S \subseteq Nat, S # {}
  PROVE  Min(S) \in S /\ \A y \in S : Min(S) <= y
PROOF
  BY Least DEF Min

-----------------------------------------------------------------------------
(* Alignment.                                                              *)

\* page is the start of a chunk of order i.
IsAligned(page, i) == page \in Nat /\ page % 2^i = 0

LEMMA Remainder ==
  ASSUME NEW x \in Nat, NEW m \in Nat \ {0}
  PROVE  /\ x % m \in 0..(m - 1)
         /\ x \div m \in Nat
         /\ x = (x \div m) * m + (x % m)
PROOF
  <1>1. x % m \in 0..(m - 1) /\ x \div m \in Int
    OBVIOUS
  <1>2. x = m * (x \div m) + (x % m)
    OBVIOUS
  <1> DEFINE q == x \div m
             r == x % m
  <1> HIDE DEF q, r
  <1>3. x = m * q + r /\ q \in Int /\ r \in 0..(m - 1)
    BY <1>1, <1>2 DEF q, r
  <1>4. q \in Nat
    <2>1. ASSUME q < 0 PROVE FALSE
      <3>1. m * (q + 1) <= 0 /\ m * (q + 1) = m * q + m
        BY <2>1, <1>3
      <3> QED
        BY <3>1, <1>3
    <2> QED
      BY <2>1, <1>3
  <1> QED
    BY <1>3, <1>4 DEF q, r

\* Between two multiples of m there is room for m.
LEMMA Gap ==
  ASSUME NEW u \in Int, NEW v \in Int, NEW m \in Nat \ {0}, u * m < v * m
  PROVE  u < v /\ u * m + m <= v * m
PROOF
  <1>1. u < v
    <2> SUFFICES ASSUME v <= u PROVE FALSE
      OBVIOUS
    <2>1. v * m <= u * m
      OBVIOUS
    <2> QED
      BY <2>1
  <1>2. (u + 1) * m <= v * m
    BY <1>1
  <1>3. (u + 1) * m = u * m + m
    OBVIOUS
  <1> QED
    BY <1>1, <1>2, <1>3

LEMMA MultipleRemainder ==
  ASSUME NEW q \in Nat, NEW m \in Nat \ {0}, NEW r \in 0..(m - 1)
  PROVE  (q * m + r) % m = r
PROOF
  <1> DEFINE x == q * m + r
             k == x \div m
  <1>0. x \in Nat /\ x = q * m + r
    OBVIOUS
  <1> HIDE DEF x
  <1>1. x \in Nat /\ x % m \in 0..(m - 1) /\ k \in Nat /\ x = k * m + (x % m)
    BY <1>0, Remainder
  <1> HIDE DEF k
  <1>2. ~(k * m < q * m)
    BY <1>0, <1>1, Gap
  <1>3. ~(q * m < k * m)
    BY <1>0, <1>1, Gap
  <1>4. k * m = q * m
    BY <1>1, <1>2, <1>3
  <1>5. x % m = r
    BY <1>0, <1>1, <1>4
  <1> QED
    BY <1>5 DEF x

LEMMA AlignedIsMultiple ==
  ASSUME NEW page, NEW i \in Nat
  PROVE  IsAligned(page, i) <=> \E q \in Nat : page = q * 2^i
PROOF
  <1>1. 2^i \in Nat \ {0}
    BY PowerNat
  <1> DEFINE m == 2^i
  <1>2. ASSUME page \in Nat, page % m = 0 PROVE \E q \in Nat : page = q * m
    <2>1. page \div m \in Nat /\ page = (page \div m) * m + (page % m)
      BY <1>1, <1>2, Remainder
    <2>2. page = (page \div m) * m
      BY <1>1, <1>2, <2>1
    <2> QED
      BY <2>1, <2>2
  <1>3. ASSUME NEW q \in Nat, page = q * m PROVE page \in Nat /\ page % m = 0
    BY <1>1, <1>3, MultipleRemainder
  <1> QED
    BY <1>2, <1>3 DEF IsAligned

\* What lies below an aligned page ends there, if it is no larger.
LEMMA AlignedGap ==
  ASSUME NEW i \in Nat, NEW j \in Nat, i <= j, NEW p, NEW q,
         IsAligned(p, i), IsAligned(q, j)
  PROVE  (p < q => p + 2^i <= q) /\ (q < p => q + 2^i <= p)
         /\ (p < q + 2^j => p + 2^i <= q + 2^j)
PROOF
  <1> DEFINE m == 2^i
  <1>1. PICK k \in Nat : 2^j = k * m
    BY PowerDivides
  <1>2. PICK a \in Nat : p = a * m
    BY AlignedIsMultiple
  <1>3. PICK b \in Nat : q = b * 2^j
    BY AlignedIsMultiple
  <1>4. m \in Nat \ {0}
    BY PowerNat
  <1> HIDE DEF m
  <1>5. q = (b * k) * m /\ b * k \in Nat
    BY <1>1, <1>3, <1>4
  <1>6. q + 2^j = (b * k + k) * m /\ b * k + k \in Nat
    BY <1>1, <1>4, <1>5
  <1> DEFINE c == b * k
             d == b * k + k
  <1> HIDE DEF c, d
  <1>7. a \in Int /\ c \in Int /\ d \in Int /\ p = a * m /\ q = c * m /\ q + 2^j = d * m
    BY <1>2, <1>5, <1>6 DEF c, d, m
  <1>8. p < q => p + m <= q
    BY <1>4, <1>7, Gap
  <1>9. q < p => q + m <= p
    BY <1>4, <1>7, Gap
  <1>10. p < q + 2^j => p + m <= q + 2^j
    BY <1>4, <1>7, Gap
  <1> QED
    BY <1>8, <1>9, <1>10 DEF m

\* A page aligned for a large chunk is aligned for a small one.
LEMMA AlignedToo ==
  ASSUME NEW i \in Nat, NEW j \in Nat, i <= j, NEW p, IsAligned(p, j)
  PROVE  IsAligned(p, i) /\ IsAligned(p + 2^i, i) /\ p \in Nat
PROOF
  <1> DEFINE m == 2^i
  <1>1. PICK k \in Nat : 2^j = k * m
    BY PowerDivides
  <1>2. PICK b \in Nat : p = b * 2^j
    BY AlignedIsMultiple
  <1>3. m \in Nat \ {0}
    BY PowerNat
  <1> HIDE DEF m
  <1>4. p = (b * k) * m /\ b * k \in Nat
    BY <1>1, <1>2, <1>3
  <1>5. p + m = (b * k + 1) * m /\ b * k + 1 \in Nat
    BY <1>3, <1>4
  <1>6. IsAligned(p, i)
    BY <1>4, AlignedIsMultiple DEF m
  <1>7. IsAligned(p + m, i)
    BY <1>5, AlignedIsMultiple DEF m
  <1> QED
    BY <1>6, <1>7 DEF IsAligned, m

\* StartAt is the start of the aligned chunk around a page, and the only one.
LEMMA StartIs ==
  ASSUME NEW p \in Nat, NEW i \in Nat
  PROVE  /\ IsAligned(StartAt(p, i), i)
         /\ StartAt(p, i) <= p /\ p < StartAt(p, i) + 2^i
PROOF
  <1> DEFINE m == 2^i
             q == p \div m
             r == p % m
  <1>1. m \in Nat \ {0}
    BY PowerNat
  <1>2. r \in 0..(m - 1) /\ q \in Nat /\ p = q * m + r
    BY <1>1, Remainder
  <1>3. StartAt(p, i) = p - r
    BY DEF StartAt
  <1> HIDE DEF m, q, r
  <1>4. StartAt(p, i) = q * m
    BY <1>1, <1>2, <1>3
  <1>5. IsAligned(StartAt(p, i), i)
    BY <1>2, <1>4, AlignedIsMultiple DEF m
  <1>6. StartAt(p, i) <= p /\ p < StartAt(p, i) + m
    BY <1>1, <1>2, <1>3
  <1> QED
    BY <1>5, <1>6 DEF m

LEMMA StartUnique ==
  ASSUME NEW p \in Nat, NEW i \in Nat, NEW s, IsAligned(s, i), s <= p, p < s + 2^i
  PROVE  StartAt(p, i) = s
PROOF
  <1> DEFINE t == StartAt(p, i)
  <1>1. IsAligned(t, i) /\ t <= p /\ p < t + 2^i
    BY StartIs
  <1>2. 2^i \in Nat /\ s \in Nat /\ t \in Nat
    BY <1>1, PowerNat DEF IsAligned
  <1> HIDE DEF t
  <1>3. (s < t => s + 2^i <= t) /\ (t < s => t + 2^i <= s)
    BY <1>1, AlignedGap
  <1>4. s = t
    BY <1>1, <1>2, <1>3
  <1> QED
    BY <1>4 DEF t

\* The chunk around a page grows with the order.
LEMMA StartNests ==
  ASSUME NEW p \in Nat, NEW i \in Nat, NEW j \in Nat, i <= j
  PROVE  /\ StartAt(p, j) <= StartAt(p, i)
         /\ StartAt(p, i) + 2^i <= StartAt(p, j) + 2^j
PROOF
  <1> DEFINE s == StartAt(p, i)
             t == StartAt(p, j)
  <1>1. IsAligned(s, i) /\ s <= p /\ p < s + 2^i
    BY StartIs
  <1>2. IsAligned(t, j) /\ t <= p /\ p < t + 2^j
    BY StartIs
  <1>3. 2^i \in Nat /\ 2^j \in Nat /\ s \in Nat /\ t \in Nat
    BY <1>1, <1>2, PowerNat DEF IsAligned
  <1> HIDE DEF s, t
  <1>4. ~(s < t)
    BY <1>1, <1>2, <1>3, AlignedGap
  <1>5. s < t + 2^j
    BY <1>1, <1>2, <1>3
  <1>6. s + 2^i <= t + 2^j
    BY <1>1, <1>2, <1>5, AlignedGap
  <1> QED
    BY <1>3, <1>4, <1>6 DEF s, t

LEMMA StartStep ==
  ASSUME NEW p \in Nat, NEW i \in Nat
  PROVE  StartAt(StartAt(p, i), i + 1) = StartAt(p, i + 1)
PROOF
  <1> DEFINE s == StartAt(p, i)
             t == StartAt(p, i + 1)
  <1>1. IsAligned(s, i) /\ s <= p /\ p < s + 2^i
    BY StartIs
  <1>2. IsAligned(t, i + 1) /\ t <= p /\ p < t + 2^(i + 1)
    BY StartIs
  <1>3. t <= s
    BY StartNests
  <1>4. 2^(i + 1) \in Nat /\ s \in Nat /\ t \in Nat
    BY <1>1, <1>2, PowerNat DEF IsAligned
  <1> HIDE DEF s, t
  <1>5. s < t + 2^(i + 1)
    BY <1>1, <1>2, <1>4
  <1>6. StartAt(s, i + 1) = t
    BY <1>2, <1>3, <1>4, <1>5, StartUnique
  <1> QED
    BY <1>6 DEF s, t

\* A chunk and its buddy are the halves of the chunk they merge into.
LEMMA BuddyHalves ==
  ASSUME NEW i \in Nat, NEW s, IsAligned(s, i)
  PROVE  LET b == BuddyOf(s, i)
             t == StartAt(s, i + 1)
         IN /\ IsAligned(b, i) /\ IsAligned(t, i + 1) /\ 2^(i + 1) = 2^i + 2^i
            /\ \/ s = t /\ b = t + 2^i
               \/ s = t + 2^i /\ b = t
PROOF
  <1> DEFINE b == BuddyOf(s, i)
             t == StartAt(s, i + 1)
             m == 2^i
  <1>1. m \in Nat \ {0} /\ 2^(i + 1) = m + m /\ s \in Nat
    BY PowerNat, PowerStep DEF IsAligned
  <1>2. IsAligned(t, i + 1) /\ t <= s /\ s < t + (m + m)
    BY <1>1, StartIs
  <1>3. IsAligned(t, i) /\ IsAligned(t + m, i) /\ t \in Nat
    BY <1>2, AlignedToo
  <1>4. CASE s % 2^(i + 1) = 0
    <2>1. IsAligned(s, i + 1)
      BY <1>1, <1>4 DEF IsAligned
    <2>2. s = t
      BY <1>1, <2>1, StartUnique
    <2>3. b = s + m
      BY <1>4 DEF BuddyOf
    <2> QED
      BY <1>1, <1>2, <1>3, <2>2, <2>3
  <1>5. CASE s % 2^(i + 1) # 0
    <2>1. s # t
      BY <1>2, <1>5 DEF IsAligned
    <2>2. b = s - m
      BY <1>5 DEF BuddyOf
    <2> HIDE DEF b, t, m
    <2>3. t + m <= s
      BY <1>1, <1>2, <1>3, <2>1, AlignedGap DEF m
    <2>4. s < (t + m) + m
      BY <1>1, <1>2, <1>3
    <2>5. s < (t + m) + 2^i => s + 2^i <= (t + m) + 2^i
      BY <1>3, AlignedGap
    <2>6. s = t + m /\ b = t
      BY <1>1, <1>3, <2>2, <2>3, <2>4, <2>5 DEF m
    <2> QED
      BY <1>1, <1>2, <1>3, <2>6 DEF b, t, m
  <1> QED
    BY <1>4, <1>5

\* The buddy of the buddy is the chunk itself.
LEMMA BuddyBack ==
  ASSUME NEW i \in Nat, NEW s, IsAligned(s, i)
  PROVE  /\ BuddyOf(s, i) # s /\ BuddyOf(BuddyOf(s, i), i) = s
         /\ StartAt(BuddyOf(s, i), i + 1) = StartAt(s, i + 1)
PROOF
  <1> DEFINE b == BuddyOf(s, i)
             t == StartAt(s, i + 1)
             m == 2^i
  <1>1. /\ IsAligned(b, i) /\ IsAligned(t, i + 1) /\ 2^(i + 1) = m + m
        /\ (s = t /\ b = t + m) \/ (s = t + m /\ b = t)
    BY BuddyHalves
  <1>2. m \in Nat \ {0} /\ s \in Nat /\ t \in Nat /\ b \in Nat
    BY <1>1, PowerNat DEF IsAligned
  <1>3. t <= b /\ b < t + 2^(i + 1)
    <2> HIDE DEF b, t, m
    <2> QED
      BY <1>1, <1>2
  <1>4. StartAt(b, i + 1) = t
    <2> HIDE DEF b, t, m
    <2> QED
      BY <1>1, <1>2, <1>3, StartUnique
  <1>5. (b = t /\ BuddyOf(b, i) = t + m) \/ (b = t + m /\ BuddyOf(b, i) = t)
    BY <1>1, <1>4, BuddyHalves
  <1>6. b # s /\ BuddyOf(b, i) = s
    <2> DEFINE c == BuddyOf(b, i)
    <2>1. (b = t /\ c = t + m) \/ (b = t + m /\ c = t)
      BY <1>5
    <2> HIDE DEF b, c, t, m
    <2> QED
      BY <1>1, <1>2, <2>1 DEF c
  <1> QED
    BY <1>4, <1>6

-----------------------------------------------------------------------------
(* Lists without repetition.                                               *)

IsList(s) == s \in Seq(Nat) /\ IsInjective(s)

LEMMA ListPlaces ==
  ASSUME NEW s \in Seq(Nat)
  PROVE  IsInjective(s) <=> \A j, k \in 1..Len(s) : s[j] = s[k] => j = k
PROOF
  BY DEF IsInjective

LEMMA TailOfList ==
  ASSUME NEW s, IsList(s), s # <<>>
  PROVE  /\ Head(s) = s[1] /\ Contains(s, Head(s)) /\ Head(s) \in Nat
         /\ IsList(Tail(s)) /\ Len(Tail(s)) = Len(s) - 1
         /\ \A j \in 1..(Len(s) - 1) : Tail(s)[j] = s[j + 1]
         /\ \A x : Contains(Tail(s), x) <=> Contains(s, x) /\ x # Head(s)
PROOF
  <1>1. s \in Seq(Nat) /\ \A j, k \in 1..Len(s) : s[j] = s[k] => j = k
    BY ListPlaces DEF IsList
  <1>2. /\ Len(s) \in Nat \ {0} /\ Head(s) = s[1] /\ Head(s) \in Nat
        /\ Tail(s) \in Seq(Nat) /\ Len(Tail(s)) = Len(s) - 1
        /\ \A j \in 1..(Len(s) - 1) : Tail(s)[j] = s[j + 1]
    BY <1>1, HeadTailProperties, EmptySeq, LenProperties
  <1>3. Contains(s, Head(s))
    BY <1>2 DEF Contains
  <1>4. IsList(Tail(s))
    <2>1. ASSUME NEW j \in 1..(Len(s) - 1), NEW k \in 1..(Len(s) - 1), Tail(s)[j] = Tail(s)[k]
          PROVE  j = k
      <3>1. j + 1 \in 1..Len(s) /\ k + 1 \in 1..Len(s) /\ s[j + 1] = s[k + 1]
        BY <1>2, <2>1
      <3>2. j + 1 = k + 1
        BY <1>1, <3>1
      <3> QED
        BY <3>2
    <2> QED
      BY <1>2, <2>1, ListPlaces DEF IsList
  <1>5. ASSUME NEW x, Contains(Tail(s), x) PROVE Contains(s, x) /\ x # Head(s)
    <2>1. PICK j \in 1..(Len(s) - 1) : s[j + 1] = x
      BY <1>2, <1>5 DEF Contains
    <2> QED
      BY <1>1, <1>2, <2>1 DEF Contains
  <1>6. ASSUME NEW x, Contains(s, x), x # Head(s) PROVE Contains(Tail(s), x)
    <2>1. PICK j \in 1..Len(s) : s[j] = x
      BY <1>6 DEF Contains
    <2>2. j # 1
      BY <1>2, <1>6, <2>1
    <2>3. j - 1 \in 1..(Len(s) - 1) /\ Tail(s)[j - 1] = x
      BY <1>2, <2>1, <2>2
    <2> QED
      BY <1>2, <2>3 DEF Contains
  <1> QED
    BY <1>2, <1>3, <1>4, <1>5, <1>6

LEMMA AppendToList ==
  ASSUME NEW s, IsList(s), NEW e \in Nat
  PROVE  /\ Append(s, e) \in Seq(Nat) /\ Len(Append(s, e)) = Len(s) + 1
         /\ ~Contains(s, e) => IsList(Append(s, e))
         /\ \A j \in 1..Len(s) : Append(s, e)[j] = s[j]
         /\ Append(s, e)[Len(s) + 1] = e
         /\ \A x : Contains(Append(s, e), x) <=> Contains(s, x) \/ x = e
PROOF
  <1>1. s \in Seq(Nat) /\ \A j, k \in 1..Len(s) : s[j] = s[k] => j = k
    BY ListPlaces DEF IsList
  <1>2. /\ Len(s) \in Nat /\ Append(s, e) \in Seq(Nat) /\ Len(Append(s, e)) = Len(s) + 1
        /\ \A j \in 1..Len(s) : Append(s, e)[j] = s[j]
        /\ Append(s, e)[Len(s) + 1] = e
    BY <1>1, AppendProperties, LenProperties
  <1>3. ASSUME ~Contains(s, e) PROVE IsList(Append(s, e))
    <2>1. ASSUME NEW j \in 1..(Len(s) + 1), NEW k \in 1..(Len(s) + 1),
                 Append(s, e)[j] = Append(s, e)[k]
          PROVE  j = k
      BY <1>1, <1>2, <1>3, <2>1 DEF Contains
    <2> QED
      BY <1>2, <2>1, ListPlaces DEF IsList
  <1>4. ASSUME NEW x PROVE Contains(Append(s, e), x) <=> Contains(s, x) \/ x = e
    BY <1>2 DEF Contains
  <1> QED
    BY <1>2, <1>3, <1>4

LEMMA RemoveAtPlace ==
  ASSUME NEW T, NEW s \in Seq(T), NEW n \in 1..Len(s)
  PROVE  /\ RemoveAt(s, n) \in Seq(T) /\ Len(RemoveAt(s, n)) = Len(s) - 1
         /\ \A j \in 1..(Len(s) - 1) : RemoveAt(s, n)[j] = IF j < n THEN s[j] ELSE s[j + 1]
PROOF
  <1> DEFINE u == SubSeq(s, 1, n - 1)
             v == SubSeq(s, n + 1, Len(s))
  <1>1. Len(s) \in Nat
    BY LenProperties
  <1>2. u \in Seq(T) /\ Len(u) = n - 1 /\ \A j \in 1..(n - 1) : u[j] = s[j]
    BY <1>1, SubSeqProperties
  <1>3. v \in Seq(T) /\ Len(v) = Len(s) - n /\ \A j \in 1..(Len(s) - n) : v[j] = s[n + j]
    BY <1>1, SubSeqProperties
  <1>4. RemoveAt(s, n) = u \o v
    BY DEF RemoveAt
  <1> HIDE DEF u, v
  <1>5. /\ u \o v \in Seq(T) /\ Len(u \o v) = Len(u) + Len(v)
        /\ \A j \in 1..(Len(u) + Len(v)) :
             (u \o v)[j] = IF j <= Len(u) THEN u[j] ELSE v[j - Len(u)]
    BY <1>2, <1>3, ConcatProperties
  <1>6. ASSUME NEW j \in 1..(Len(s) - 1)
        PROVE  (u \o v)[j] = IF j < n THEN s[j] ELSE s[j + 1]
    <2>1. CASE j < n
      BY <1>1, <1>2, <1>3, <1>5, <2>1
    <2>2. CASE ~(j < n)
      <3>1. j - (n - 1) \in 1..(Len(s) - n) /\ n + (j - (n - 1)) = j + 1
        BY <1>1, <2>2
      <3>2. j \in 1..(Len(u) + Len(v)) /\ ~(j <= Len(u)) /\ Len(u) = n - 1
        BY <1>1, <1>2, <1>3, <2>2
      <3>3. (u \o v)[j] = v[j - (n - 1)]
        BY <1>5, <3>2
      <3> QED
        BY <1>3, <2>2, <3>1, <3>3
    <2> QED
      BY <2>1, <2>2
  <1> QED
    BY <1>1, <1>2, <1>3, <1>4, <1>5, <1>6

LEMMA RemoveFromList ==
  ASSUME NEW s, IsList(s), NEW e, Contains(s, e)
  PROVE  /\ IsList(RemoveFirst(s, e))
         /\ \A x : Contains(RemoveFirst(s, e), x) <=> Contains(s, x) /\ x # e
         /\ \E n \in 1..Len(s) : RemoveFirst(s, e) = RemoveAt(s, n)
PROOF
  <1> DEFINE I == {j \in 1..Len(s) : s[j] = e}
             n == Min(I)
  <1>1. s \in Seq(Nat) /\ \A j, k \in 1..Len(s) : s[j] = s[k] => j = k
    BY ListPlaces DEF IsList
  <1>2. I # {} /\ I \subseteq Nat
    BY DEF Contains
  <1>3. n \in I
    BY <1>2, MinIsLeast
  <1>4. SelectInSeq(s, LAMBDA v : v = e) = IF I # {} THEN Min(I) ELSE 0
    BY DEF SelectInSeq
  <1>5. RemoveFirst(s, e) = RemoveAt(s, n)
    BY <1>2, <1>4, Zenon DEF RemoveFirst, Contains
  <1>6. n \in 1..Len(s) /\ s[n] = e
    BY <1>3
  <1> HIDE DEF I, n
  <1> DEFINE r == RemoveAt(s, n)
  <1>7. /\ Len(s) \in Nat /\ r \in Seq(Nat) /\ Len(r) = Len(s) - 1
        /\ \A j \in 1..(Len(s) - 1) : r[j] = IF j < n THEN s[j] ELSE s[j + 1]
    BY <1>1, <1>6, RemoveAtPlace, LenProperties
  <1> HIDE DEF r
  <1>8. IsList(r)
    <2>1. ASSUME NEW j \in 1..Len(r), NEW k \in 1..Len(r), r[j] = r[k] PROVE j = k
      <3>1. /\ j \in 1..(Len(s) - 1) /\ k \in 1..(Len(s) - 1)
            /\ j \in 1..Len(s) /\ j + 1 \in 1..Len(s)
            /\ k \in 1..Len(s) /\ k + 1 \in 1..Len(s)
        BY <1>7
      <3>2. /\ r[j] = IF j < n THEN s[j] ELSE s[j + 1]
            /\ r[k] = IF k < n THEN s[k] ELSE s[k + 1]
        BY <1>7, <3>1
      <3>3. CASE j < n /\ k < n
        BY <1>1, <2>1, <3>1, <3>2, <3>3
      <3>4. CASE ~(j < n) /\ ~(k < n)
        <4>1. j + 1 = k + 1
          BY <1>1, <2>1, <3>1, <3>2, <3>4
        <4> QED
          BY <4>1
      <3>5. CASE j < n /\ ~(k < n)
        <4>1. j = k + 1
          BY <1>1, <2>1, <3>1, <3>2, <3>5
        <4> QED
          BY <1>6, <3>5, <4>1
      <3>6. CASE ~(j < n) /\ k < n
        <4>1. j + 1 = k
          BY <1>1, <2>1, <3>1, <3>2, <3>6
        <4> QED
          BY <1>6, <3>6, <4>1
      <3> QED
        BY <3>3, <3>4, <3>5, <3>6
    <2> QED
      BY <1>7, <2>1, ListPlaces DEF IsList
  <1>9. ASSUME NEW x, Contains(r, x) PROVE Contains(s, x) /\ x # e
    <2>1. PICK j \in 1..(Len(s) - 1) : r[j] = x
      BY <1>7, <1>9 DEF Contains
    <2>2. x = IF j < n THEN s[j] ELSE s[j + 1]
      BY <1>7, <2>1
    <2>3. j \in 1..Len(s) /\ j + 1 \in 1..Len(s)
      BY <1>7
    <2> QED
      BY <1>1, <1>6, <2>2, <2>3 DEF Contains
  <1>10. ASSUME NEW x, Contains(s, x), x # e PROVE Contains(r, x)
    <2>1. PICK j \in 1..Len(s) : s[j] = x
      BY <1>10 DEF Contains
    <2>2. j # n
      BY <1>6, <1>10, <2>1
    <2>3. CASE j < n
      <3>1. j \in 1..(Len(s) - 1) /\ r[j] = x
        BY <1>6, <1>7, <2>1, <2>3
      <3> QED
        BY <1>7, <3>1 DEF Contains
    <2>4. CASE n < j
      <3>1. j - 1 \in 1..(Len(s) - 1) /\ r[j - 1] = x
        BY <1>6, <1>7, <2>1, <2>4
      <3> QED
        BY <1>7, <3>1 DEF Contains
    <2> QED
      BY <1>6, <2>2, <2>3, <2>4
  <1> QED
    BY <1>5, <1>6, <1>8, <1>9, <1>10 DEF r

-----------------------------------------------------------------------------
(* Chunks and their halves.                                                *)

Chunk(page, i) == [page |-> page, order |-> i]

LEMMA PagesAre ==
  ASSUME NEW page \in Nat, NEW i \in Nat
  PROVE  /\ \A x : x \in Allocator!PagesOf(Chunk(page, i))
                     <=> x \in Int /\ page <= x /\ x < page + 2^i
         /\ page \in Allocator!PagesOf(Chunk(page, i))
PROOF
  <1> DEFINE m == 2^i
  <1>1. m \in Nat \ {0}
    BY PowerNat
  <1>2. Allocator!PagesOf(Chunk(page, i)) = page..(page + m - 1)
    BY DEF Allocator!PagesOf, Chunk
  <1> HIDE DEF m
  <1>3. ASSUME NEW x PROVE x \in page..(page + m - 1) <=> x \in Int /\ page <= x /\ x < page + m
    BY <1>1
  <1> QED
    BY <1>1, <1>2, <1>3 DEF m

\* The chunk of order i around page p, its buddy, and the buddies of the chunks
\* around p from order lo to below hi.
Around(p, i) == Chunk(StartAt(p, i), i)
BuddyAround(p, i) == Chunk(BuddyOf(StartAt(p, i), i), i)
Buddies(p, lo, hi) == {BuddyAround(p, i) : i \in lo..(hi - 1)}

LEMMA Halves ==
  ASSUME NEW p \in Nat, NEW i \in Nat
  PROVE  /\ Allocator!PagesOf(Around(p, i + 1))
              = Allocator!PagesOf(Around(p, i)) \cup Allocator!PagesOf(BuddyAround(p, i))
         /\ Allocator!PagesOf(Around(p, i)) \cap Allocator!PagesOf(BuddyAround(p, i)) = {}
         /\ Around(p, i) # BuddyAround(p, i)
PROOF
  <1> DEFINE s == StartAt(p, i)
             b == BuddyOf(s, i)
             t == StartAt(p, i + 1)
             m == 2^i
             A == Allocator!PagesOf(Around(p, i))
             B == Allocator!PagesOf(BuddyAround(p, i))
             T == Allocator!PagesOf(Around(p, i + 1))
  <1>1. IsAligned(s, i) /\ StartAt(s, i + 1) = t
    BY StartIs, StartStep
  <1>2. /\ IsAligned(b, i) /\ IsAligned(t, i + 1) /\ 2^(i + 1) = m + m
        /\ (s = t /\ b = t + m) \/ (s = t + m /\ b = t)
    <2> HIDE DEF s, t
    <2> QED
      BY <1>1, BuddyHalves
  <1>3. s \in Nat /\ b \in Nat /\ t \in Nat /\ m \in Nat \ {0}
    BY <1>1, <1>2, PowerNat DEF IsAligned
  <1>4. /\ \A x : x \in A <=> x \in Int /\ s <= x /\ x < s + m
        /\ \A x : x \in B <=> x \in Int /\ b <= x /\ x < b + m
    BY <1>3, PagesAre DEF Around, BuddyAround
  <1>5. \A x : x \in T <=> x \in Int /\ t <= x /\ x < t + (m + m)
    <2>1. i + 1 \in Nat
      OBVIOUS
    <2>2. \A x : x \in T <=> x \in Int /\ t <= x /\ x < t + 2^(i + 1)
      BY <1>3, <2>1, PagesAre DEF Around
    <2> HIDE DEF t, m, T
    <2> QED
      BY <1>2, <2>2
  <1>6. b # s
    <2> HIDE DEF s, b, t, m
    <2> QED
      BY <1>2, <1>3
  <1>7. Around(p, i) # BuddyAround(p, i)
    BY <1>6 DEF Around, BuddyAround, Chunk
  <1> HIDE DEF s, b, t, m, A, B, T
  <1>8. ASSUME NEW x PROVE x \in T <=> x \in A \cup B
    BY <1>2, <1>3, <1>4, <1>5
  <1>9. ASSUME NEW x, x \in A, x \in B PROVE FALSE
    BY <1>2, <1>3, <1>4, <1>9
  <1> QED
    BY <1>7, <1>8, <1>9 DEF A, B, T

LEMMA AroundGrows ==
  ASSUME NEW p \in Nat, NEW i \in Nat, NEW j \in Nat, i <= j
  PROVE  Allocator!PagesOf(Around(p, i)) \subseteq Allocator!PagesOf(Around(p, j))
PROOF
  <1> DEFINE s == StartAt(p, i)
             t == StartAt(p, j)
             m == 2^i
             n == 2^j
  <1>1. s \in Nat /\ t \in Nat /\ m \in Nat /\ n \in Nat
    BY StartIs, PowerNat DEF IsAligned
  <1>2. t <= s /\ s + m <= t + n
    BY StartNests
  <1>3. /\ \A x : x \in Allocator!PagesOf(Around(p, i)) <=> x \in Int /\ s <= x /\ x < s + m
        /\ \A x : x \in Allocator!PagesOf(Around(p, j)) <=> x \in Int /\ t <= x /\ x < t + n
    BY <1>1, PagesAre DEF Around
  <1> HIDE DEF s, t, m, n
  <1> QED
    BY <1>1, <1>2, <1>3

\* Splitting the chunk of order hi around p down to order lo, and merging back,
\* neither loses a page nor has one twice.
LEMMA Chain ==
  ASSUME NEW p \in Nat, NEW lo \in Nat, NEW hi \in Nat, lo <= hi
  PROVE  LET N == Buddies(p, lo, hi) \cup {Around(p, lo)}
         IN /\ UNION {Allocator!PagesOf(c) : c \in N} = Allocator!PagesOf(Around(p, hi))
            /\ \A c, d \in N : c # d => Allocator!Disjoint(c, d)
            /\ Around(p, lo) \notin Buddies(p, lo, hi)
PROOF
  <1> DEFINE Pg(c) == Allocator!PagesOf(c)
             N == Buddies(p, lo, hi) \cup {Around(p, lo)}
  <1> HIDE DEF Pg
  <1>1. \A i \in Nat : /\ Pg(Around(p, i + 1)) = Pg(Around(p, i)) \cup Pg(BuddyAround(p, i))
                       /\ Pg(Around(p, i)) \cap Pg(BuddyAround(p, i)) = {}
                       /\ Around(p, i) # BuddyAround(p, i)
    BY Halves DEF Pg
  <1>2. \A i, j \in Nat : i <= j => Pg(Around(p, i)) \subseteq Pg(Around(p, j))
    BY AroundGrows DEF Pg
  <1>3. ASSUME NEW i \in lo..(hi - 1)
        PROVE  /\ i \in Nat /\ i + 1 \in Nat
               /\ Pg(BuddyAround(p, i)) \subseteq Pg(Around(p, hi))
               /\ \A j \in Nat : i < j => Pg(BuddyAround(p, i)) \subseteq Pg(Around(p, j))
    <2>1. i \in Nat /\ i + 1 \in Nat /\ i + 1 <= hi
      OBVIOUS
    <2>2. Pg(BuddyAround(p, i)) \subseteq Pg(Around(p, i + 1))
      BY <1>1, <2>1
    <2>3. ASSUME NEW j \in Nat, i < j PROVE Pg(BuddyAround(p, i)) \subseteq Pg(Around(p, j))
      <3>1. i + 1 <= j
        BY <2>1, <2>3
      <3> QED
        BY <1>2, <2>1, <2>2, <3>1
    <2>4. i < hi
      BY <2>1
    <2> QED
      BY <2>1, <2>3, <2>4
  <1>4. UNION {Pg(c) : c \in N} = Pg(Around(p, hi))
    <2>1. ASSUME NEW c \in N PROVE Pg(c) \subseteq Pg(Around(p, hi))
      <3>1. CASE c = Around(p, lo)
        BY <1>2, <3>1
      <3>2. CASE c \in Buddies(p, lo, hi)
        BY <1>3, <3>2 DEF Buddies
      <3> QED
        BY <3>1, <3>2
    <2>2. ASSUME NEW x \in Pg(Around(p, hi)) PROVE \E c \in N : x \in Pg(c)
      <3> DEFINE S == {i \in lo..hi : x \in Pg(Around(p, i))}
      <3>1. hi \in S /\ S \subseteq Nat
        OBVIOUS
      <3>2. PICK i \in S : \A j \in S : i <= j
        BY <3>1, Least
      <3>3. CASE i = lo
        BY <3>2, <3>3
      <3>4. CASE i # lo
        <4>1. i - 1 \in lo..(hi - 1) /\ i - 1 \in lo..hi /\ i - 1 \in Nat /\ (i - 1) + 1 = i
          BY <3>2, <3>4
        <4>2. i - 1 \notin S
          BY <3>2, <4>1
        <4>3. x \in Pg(Around(p, (i - 1) + 1)) /\ x \notin Pg(Around(p, i - 1))
          BY <3>2, <4>1, <4>2
        <4>4. x \in Pg(BuddyAround(p, i - 1))
          BY <1>1, <4>1, <4>3
        <4>5. BuddyAround(p, i - 1) \in N
          BY <4>1 DEF Buddies
        <4> QED
          BY <4>4, <4>5
      <3> QED
        BY <3>3, <3>4
    <2> QED
      BY <2>1, <2>2
  <1>5. ASSUME NEW i \in lo..(hi - 1), NEW j \in lo..(hi - 1), i < j
        PROVE  Pg(BuddyAround(p, i)) \cap Pg(BuddyAround(p, j)) = {}
    BY <1>1, <1>3, <1>5
  <1>6. ASSUME NEW i \in lo..(hi - 1)
        PROVE  Pg(BuddyAround(p, i)) \cap Pg(Around(p, lo)) = {}
    BY <1>1, <1>2, <1>3
  <1>7. ASSUME NEW c \in N, NEW d \in N, c # d PROVE Pg(c) \cap Pg(d) = {}
    <2>1. CASE c \in Buddies(p, lo, hi) /\ d \in Buddies(p, lo, hi)
      <3>1. PICK i \in lo..(hi - 1), j \in lo..(hi - 1) :
              c = BuddyAround(p, i) /\ d = BuddyAround(p, j)
        BY <2>1 DEF Buddies
      <3>2. i < j \/ j < i
        BY <1>7, <3>1
      <3> QED
        BY <1>5, <3>1, <3>2
    <2>2. CASE c \in Buddies(p, lo, hi) /\ d = Around(p, lo)
      BY <1>6, <2>2 DEF Buddies
    <2>3. CASE c = Around(p, lo) /\ d \in Buddies(p, lo, hi)
      BY <1>6, <2>3 DEF Buddies
    <2> QED
      BY <1>7, <2>1, <2>2, <2>3
  <1>8. Around(p, lo) \notin Buddies(p, lo, hi)
    <2> SUFFICES ASSUME NEW i \in lo..(hi - 1), Around(p, lo) = BuddyAround(p, i) PROVE FALSE
      BY DEF Buddies
    <2>1. i = lo
      BY DEF Around, BuddyAround, Chunk
    <2> QED
      BY <1>1, <2>1
  <1> QED
    BY <1>4, <1>7, <1>8 DEF Pg, Allocator!Disjoint

\* Chunks R of a partition B make room for chunks N with the same pages.
LEMMA Exchange ==
  ASSUME NEW B, NEW R, NEW N, R \subseteq B,
         \A c \in B \cup N : Allocator!PagesOf(c) # {},
         \A c, d \in B : c # d => Allocator!Disjoint(c, d),
         \A c, d \in N : c # d => Allocator!Disjoint(c, d),
         UNION {Allocator!PagesOf(c) : c \in N} = UNION {Allocator!PagesOf(c) : c \in R}
  PROVE  LET C == (B \ R) \cup N
         IN /\ \A c, d \in C : c # d => Allocator!Disjoint(c, d)
            /\ UNION {Allocator!PagesOf(c) : c \in C} = UNION {Allocator!PagesOf(c) : c \in B}
            /\ (B \ R) \cap N = {}
PROOF
  <1> DEFINE Pg(c) == Allocator!PagesOf(c)
  <1>1. \A c \in N : \A x \in Pg(c) : \E d \in R : x \in Pg(d)
    OBVIOUS
  <1>2. \A d \in R : \A x \in Pg(d) : \E c \in N : x \in Pg(c)
    OBVIOUS
  <1>3. /\ \A c \in B \cup N : Pg(c) # {}
        /\ \A c, d \in B : c # d => Pg(c) \cap Pg(d) = {}
        /\ \A c, d \in N : c # d => Pg(c) \cap Pg(d) = {}
    BY DEF Allocator!Disjoint
  <1> HIDE DEF Pg
  <1>4. ASSUME NEW c \in B \ R, NEW d \in N PROVE Pg(c) \cap Pg(d) = {}
    <2> SUFFICES ASSUME NEW x, x \in Pg(c), x \in Pg(d) PROVE FALSE
      OBVIOUS
    <2>1. PICK e \in R : x \in Pg(e)
      BY <1>1
    <2>2. c # e /\ c \in B /\ e \in B
      OBVIOUS
    <2> QED
      BY <1>3, <2>1, <2>2
  <1>5. ASSUME NEW c \in (B \ R) \cup N, NEW d \in (B \ R) \cup N, c # d
        PROVE  Pg(c) \cap Pg(d) = {}
    BY <1>3, <1>4, <1>5
  <1>6. UNION {Pg(c) : c \in (B \ R) \cup N} = UNION {Pg(c) : c \in B}
    <2>1. ASSUME NEW c \in (B \ R) \cup N, NEW x \in Pg(c) PROVE \E d \in B : x \in Pg(d)
      BY <1>1
    <2>2. ASSUME NEW d \in B, NEW x \in Pg(d) PROVE \E c \in (B \ R) \cup N : x \in Pg(c)
      BY <1>2
    <2> QED
      BY <2>1, <2>2
  <1>7. (B \ R) \cap N = {}
    BY <1>3, <1>4
  <1> QED
    BY <1>5, <1>6, <1>7 DEF Pg, Allocator!Disjoint

-----------------------------------------------------------------------------
(* The inductive invariant.                                                *)

TypeInv == chunks \in [Orders -> Seq(Nat)] /\ ops \subseteq [page : Nat, order : Orders]

\* Only an aligned chunk has its buddy beside it, and overlaps another aligned
\* chunk only when one lies in the other.
AlignedInv == \A c \in AllChunks : c.page % 2^c.order = 0

BuddyInv == TypeInv /\ AlignedInv /\ Partition /\ Coalesced

LEMMA OrdersAre == Orders \subseteq Nat /\ MAX_ORDER \in Orders /\ \A i \in Orders : i <= MAX_ORDER
PROOF
  BY BuddyAssumption DEF Orders

\* The chunks in lists.
ListedIn(lists) == UNION {{Chunk(lists[i][j], i) : j \in 1..Len(lists[i])} : i \in Orders}

LEMMA FreeChunksAre == FreeChunks = ListedIn(chunks) /\ FreeChunks' = ListedIn(chunks')
PROOF
  BY DEF FreeChunks, ListedIn, Chunk

LEMMA ListedIs ==
  ASSUME NEW lists \in [Orders -> Seq(Nat)]
  PROVE  /\ \A i \in Orders : \A x : Chunk(x, i) \in ListedIn(lists) <=> Contains(lists[i], x)
         /\ \A i \in Orders : \A x : Contains(lists[i], x) => x \in Nat
         /\ \A c \in ListedIn(lists) : /\ c \in [page : Nat, order : Orders]
                                       /\ c = Chunk(c.page, c.order)
                                       /\ Contains(lists[c.order], c.page)
PROOF
  <1>1. ASSUME NEW i \in Orders PROVE lists[i] \in Seq(Nat)
    OBVIOUS
  <1>2. ASSUME NEW i \in Orders, NEW x, Contains(lists[i], x) PROVE x \in Nat
    BY <1>1, <1>2, ElementOfSeq DEF Contains
  <1>3. ASSUME NEW i \in Orders, NEW x, Contains(lists[i], x) PROVE Chunk(x, i) \in ListedIn(lists)
    BY <1>3 DEF Contains, ListedIn, Chunk
  <1>4. ASSUME NEW c \in ListedIn(lists)
        PROVE  /\ c \in [page : Nat, order : Orders]
               /\ c = Chunk(c.page, c.order)
               /\ Contains(lists[c.order], c.page)
    <2>1. PICK i \in Orders : \E j \in 1..Len(lists[i]) : c = Chunk(lists[i][j], i)
      BY DEF ListedIn
    <2>2. PICK j \in 1..Len(lists[i]) : c = Chunk(lists[i][j], i)
      BY <2>1
    <2>3. c.page = lists[i][j] /\ c.order = i /\ Contains(lists[i], lists[i][j])
      BY <2>2 DEF Contains, Chunk
    <2> QED
      BY <1>2, <2>2, <2>3 DEF Chunk
  <1>5. ASSUME NEW i \in Orders, NEW x, Chunk(x, i) \in ListedIn(lists) PROVE Contains(lists[i], x)
    <2>1. Chunk(x, i).page = x /\ Chunk(x, i).order = i
      BY DEF Chunk
    <2> QED
      BY <1>4, <1>5, <2>1
  <1> QED
    BY <1>2, <1>3, <1>4, <1>5

LEMMA FreeIs ==
  ASSUME chunks \in [Orders -> Seq(Nat)]
  PROVE  /\ \A i \in Orders : \A x : Chunk(x, i) \in FreeChunks <=> Contains(chunks[i], x)
         /\ \A i \in Orders : \A x : Contains(chunks[i], x) => x \in Nat
         /\ \A c \in FreeChunks : /\ c \in [page : Nat, order : Orders]
                                  /\ c = Chunk(c.page, c.order)
                                  /\ Contains(chunks[c.order], c.page)
PROOF
  BY ListedIs, FreeChunksAre

LEMMA FreeIsThen ==
  ASSUME chunks' \in [Orders -> Seq(Nat)]
  PROVE  /\ \A i \in Orders : \A x : Chunk(x, i) \in FreeChunks' <=> Contains(chunks'[i], x)
         /\ \A i \in Orders : \A x : Contains(chunks'[i], x) => x \in Nat
         /\ \A c \in FreeChunks' : /\ c \in [page : Nat, order : Orders]
                                   /\ c = Chunk(c.page, c.order)
                                   /\ Contains(chunks'[c.order], c.page)
PROOF
  BY ListedIs, FreeChunksAre

\* What the invariant says of a chunk.
LEMMA ChunkFacts ==
  ASSUME BuddyInv
  PROVE  /\ \A c \in AllChunks : /\ c.page \in Nat /\ c.order \in Orders
                                 /\ c = Chunk(c.page, c.order)
                                 /\ IsAligned(c.page, c.order)
                                 /\ c.page \in Allocator!PagesOf(c)
                                 /\ Allocator!PagesOf(c) \subseteq Allocator!Pages
         /\ \A i \in Orders : IsList(chunks[i])
         /\ \A c \in ops : c.page \in Nat /\ c.order \in Orders /\ c = Chunk(c.page, c.order)
PROOF
  <1>1. chunks \in [Orders -> Seq(Nat)] /\ ops \subseteq [page : Nat, order : Orders]
    BY DEF BuddyInv, TypeInv
  <1>2. ASSUME NEW c \in ops
        PROVE  c.page \in Nat /\ c.order \in Orders /\ c = Chunk(c.page, c.order)
    BY <1>1 DEF Chunk
  <1>3. ASSUME NEW c \in AllChunks
        PROVE  c.page \in Nat /\ c.order \in Orders /\ c = Chunk(c.page, c.order)
    <2>1. CASE c \in FreeChunks
      BY <1>1, <2>1, FreeIs
    <2> QED
      BY <1>2, <2>1 DEF AllChunks
  <1>4. ASSUME NEW c \in AllChunks
        PROVE  c.page \in Allocator!PagesOf(c)
    <2>1. c.order \in Nat
      BY <1>3, OrdersAre
    <2>2. c.page \in Allocator!PagesOf(Chunk(c.page, c.order))
      BY <1>3, <2>1, PagesAre
    <2> QED
      BY <1>3, <2>2
  <1>5. ASSUME NEW c \in AllChunks
        PROVE  Allocator!PagesOf(c) \subseteq Allocator!Pages
    BY DEF BuddyInv, Partition
  <1>6. ASSUME NEW i \in Orders PROVE IsList(chunks[i])
    BY <1>1 DEF BuddyInv, Partition, IsList
  <1>7. ASSUME NEW c \in AllChunks PROVE IsAligned(c.page, c.order)
    BY <1>3 DEF BuddyInv, AlignedInv, IsAligned
  <1> QED
    BY <1>2, <1>3, <1>4, <1>5, <1>6, <1>7

\* Coalesced, by the members of the lists.
LEMMA CoalescedIs ==
  ASSUME chunks \in [Orders -> Seq(Nat)]
  PROVE  Coalesced <=> \A i \in Orders \ {MAX_ORDER} : \A x :
           Contains(chunks[i], x) => ~Contains(chunks[i], BuddyOf(x, i))
PROOF
  BY DEF Coalesced, Contains

LEMMA BuddyInvInit == Init => BuddyInv
PROOF
  <1> SUFFICES ASSUME Init PROVE BuddyInv
    OBVIOUS
  <1> DEFINE m == 2^MAX_ORDER
             k == 2^(nr_pages_in_order - MAX_ORDER)
             list == [j \in 1..k |-> (j - 1) * m]
  <1>1. /\ m \in Nat \ {0} /\ k \in Nat \ {0} /\ 2^nr_pages_in_order = k * m
        /\ MAX_ORDER \in Nat /\ nr_pages_in_order \in Nat
    BY BuddyAssumption, PowerNat, PowerDivides
  <1>2. chunks = [i \in Orders |-> IF i = MAX_ORDER THEN list ELSE <<>>] /\ ops = {}
    BY DEF Init
  <1>3. MAX_ORDER \in Orders
    BY OrdersAre
  <1> HIDE DEF m, k
  <1>4. ASSUME NEW j \in 1..k
        PROVE  /\ (j - 1) * m \in Nat /\ IsAligned((j - 1) * m, MAX_ORDER)
               /\ (j - 1) * m + m <= k * m
    <2>1. j - 1 \in Nat /\ j - 1 + 1 <= k
      BY <1>1
    <2>2. (j - 1) * m \in Nat
      BY <1>1, <2>1
    <2>3. IsAligned((j - 1) * m, MAX_ORDER)
      BY <1>1, <2>1, AlignedIsMultiple DEF m
    <2>4. (j - 1) * m + m = j * m
      BY <1>1
    <2>5. j * m <= k * m
      BY <1>1
    <2> QED
      BY <2>2, <2>3, <2>4, <2>5
  <1>5. list \in Seq(Nat) /\ Len(list) = k /\ \A j \in 1..k : list[j] = (j - 1) * m
    BY <1>1, <1>4, IsASeq
  <1>6. ASSUME NEW j \in 1..k, NEW n \in 1..k, (j - 1) * m = (n - 1) * m PROVE j = n
    <2>1. ~((j - 1) < (n - 1))
      <3>1. ASSUME j - 1 < n - 1 PROVE FALSE
        <4>1. (j - 1 + 1) * m <= (n - 1) * m /\ (j - 1 + 1) * m = (j - 1) * m + m
          BY <1>1, <3>1
        <4> QED
          BY <1>1, <1>4, <1>6, <4>1
      <3> QED
        BY <3>1
    <2>2. ~((n - 1) < (j - 1))
      <3>1. ASSUME n - 1 < j - 1 PROVE FALSE
        <4>1. (n - 1 + 1) * m <= (j - 1) * m /\ (n - 1 + 1) * m = (n - 1) * m + m
          BY <1>1, <3>1
        <4> QED
          BY <1>1, <1>4, <1>6, <4>1
      <3> QED
        BY <3>1
    <2> QED
      BY <2>1, <2>2
  <1>7. IsInjective(list)
    BY <1>5, <1>6, ListPlaces
  <1>8. <<>> \in Seq(Nat) /\ IsInjective(<<>>) /\ Len(<<>>) = 0
    <2>1. <<>> \in Seq(Nat) /\ Len(<<>>) = 0
      BY EmptySeq
    <2> DEFINE e == <<>>
    <2>2. e \in Seq(Nat) /\ Len(e) = 0
      BY <2>1
    <2> HIDE DEF e
    <2>3. ASSUME NEW j \in 1..Len(e), NEW n \in 1..Len(e), e[j] = e[n] PROVE j = n
      BY <2>2
    <2>4. IsInjective(e)
      BY <2>2, <2>3, ListPlaces
    <2> QED
      BY <2>1, <2>4 DEF e
  <1> HIDE DEF list
  <1>9. /\ chunks \in [Orders -> Seq(Nat)] /\ \A i \in Orders : IsInjective(chunks[i])
        /\ chunks[MAX_ORDER] = list /\ \A i \in Orders \ {MAX_ORDER} : chunks[i] = <<>>
    BY <1>2, <1>3, <1>5, <1>7, <1>8
  <1>10. TypeInv
    BY <1>2, <1>9 DEF TypeInv
  <1>11. Coalesced
    BY <1>8, <1>9 DEF Coalesced
  <1>12. FreeChunks = {Chunk((j - 1) * m, MAX_ORDER) : j \in 1..k}
    <2>1. ASSUME NEW c \in FreeChunks PROVE \E j \in 1..k : c = Chunk((j - 1) * m, MAX_ORDER)
      <3>1. PICK i \in Orders : \E j \in 1..Len(chunks[i]) : c = [page |-> chunks[i][j], order |-> i]
        BY DEF FreeChunks
      <3>2. PICK j \in 1..Len(chunks[i]) : c = [page |-> chunks[i][j], order |-> i]
        BY <3>1
      <3>3. i = MAX_ORDER
        BY <1>8, <1>9, <3>2
      <3> QED
        BY <1>5, <1>9, <3>2, <3>3 DEF Chunk
    <2>2. ASSUME NEW j \in 1..k PROVE Chunk((j - 1) * m, MAX_ORDER) \in FreeChunks
      BY <1>3, <1>5, <1>9 DEF FreeChunks, Chunk
    <2> QED
      BY <2>1, <2>2
  <1>13. AllChunks = {Chunk((j - 1) * m, MAX_ORDER) : j \in 1..k}
    BY <1>2, <1>12 DEF AllChunks
  <1>14. AlignedInv
    <2>1. ASSUME NEW j \in 1..k
          PROVE  Chunk((j - 1) * m, MAX_ORDER).page % 2^(Chunk((j - 1) * m, MAX_ORDER).order) = 0
      BY <1>4 DEF IsAligned, Chunk
    <2> QED
      BY <1>13, <2>1 DEF AlignedInv
  <1>15. ASSUME NEW j \in 1..k
         PROVE  \A x : x \in Allocator!PagesOf(Chunk((j - 1) * m, MAX_ORDER))
                          <=> x \in Int /\ (j - 1) * m <= x /\ x < (j - 1) * m + m
    BY <1>1, <1>4, PagesAre DEF m
  <1>16. \A x : x \in Allocator!Pages <=> x \in Int /\ 0 <= x /\ x < k * m
    BY <1>1 DEF Allocator!Pages
  <1>17. UNION {Allocator!PagesOf(c) : c \in AllChunks} = Allocator!Pages
    <2>1. ASSUME NEW j \in 1..k, NEW x \in Allocator!PagesOf(Chunk((j - 1) * m, MAX_ORDER))
          PROVE  x \in Allocator!Pages
      BY <1>1, <1>4, <1>15, <1>16
    <2>2. ASSUME NEW x \in Allocator!Pages
          PROVE  \E j \in 1..k : x \in Allocator!PagesOf(Chunk((j - 1) * m, MAX_ORDER))
      <3> DEFINE q == x \div m
                 r == x % m
      <3>1. x \in Nat /\ x < k * m
        BY <1>16
      <3>2. q \in Nat /\ r \in 0..(m - 1) /\ x = q * m + r
        BY <1>1, <3>1, Remainder
      <3> HIDE DEF q, r
      <3>3. q * m < k * m
        BY <1>1, <3>1, <3>2
      <3>4. q < k
        BY <1>1, <3>2, <3>3, Gap
      <3>5. q + 1 \in 1..k /\ (q + 1) - 1 = q
        BY <1>1, <3>2, <3>4
      <3>6. x \in Int /\ q * m <= x /\ x < q * m + m
        BY <1>1, <3>1, <3>2
      <3>7. x \in Allocator!PagesOf(Chunk(((q + 1) - 1) * m, MAX_ORDER))
        BY <1>15, <3>5, <3>6
      <3> QED
        BY <3>5, <3>7
    <2> QED
      BY <1>13, <2>1, <2>2
  <1>18. \A c, d \in AllChunks : c # d => Allocator!Disjoint(c, d)
    <2>1. ASSUME NEW j \in 1..k, NEW n \in 1..k, j < n,
                 NEW x \in Allocator!PagesOf(Chunk((j - 1) * m, MAX_ORDER)),
                 x \in Allocator!PagesOf(Chunk((n - 1) * m, MAX_ORDER))
          PROVE  FALSE
      <3>1. x \in Int /\ x < (j - 1) * m + m /\ (n - 1) * m <= x
        BY <1>15, <2>1
      <3>2. (j - 1) * m + m = j * m /\ j * m <= (n - 1) * m
        BY <1>1, <2>1
      <3> QED
        BY <1>1, <1>4, <3>1, <3>2
    <2>2. ASSUME NEW j \in 1..k, NEW n \in 1..k,
                 Chunk((j - 1) * m, MAX_ORDER) # Chunk((n - 1) * m, MAX_ORDER)
          PROVE  Allocator!Disjoint(Chunk((j - 1) * m, MAX_ORDER), Chunk((n - 1) * m, MAX_ORDER))
      <3>1. j < n \/ n < j
        BY <2>2
      <3> QED
        BY <2>1, <3>1 DEF Allocator!Disjoint
    <2> QED
      BY <1>13, <2>2
  <1>19. Partition
    BY <1>2, <1>9, <1>17, <1>18 DEF Partition
  <1> QED
    BY <1>10, <1>11, <1>14, <1>19 DEF BuddyInv

-----------------------------------------------------------------------------
(* An allocation.                                                          *)

\* What alloc_pages takes: the first chunk of the first list, from order on,
\* that has one.
LEMMA Taken ==
  ASSUME BuddyInv, NEW order \in Orders, alloc_result(order) = 0
  PROVE  LET high == highOrder(order)
             page == Head(chunks[high])
         IN /\ high \in Orders /\ order <= high /\ chunks[high] # <<>>
            /\ \A i \in order..(high - 1) : i \in Orders /\ chunks[i] = <<>>
            /\ page \in Nat /\ Chunk(page, high) \in FreeChunks
            /\ \A i \in 0..high : StartAt(page, i) = page
            /\ \A i \in 0..(high - 1) : BuddyOf(page, i) = page + 2^i
PROOF
  <1> DEFINE high == highOrder(order)
             page == Head(chunks[high])
  <1>1. chunks[order] # <<>> \/ HigherOrders(order) # {}
    BY DEF alloc_result, ENOMEM, EINVAL
  <1>2. order \in Nat /\ MAX_ORDER \in Nat /\ order <= MAX_ORDER
    BY OrdersAre
  <1>3. /\ high \in Orders /\ order <= high /\ chunks[high] # <<>>
        /\ \A i \in order..(high - 1) : i \in Orders /\ chunks[i] = <<>>
    <2>1. CASE chunks[order] # <<>>
      <3>1. high = order
        BY <2>1 DEF highOrder
      <3> QED
        BY <1>2, <2>1, <3>1
    <2>2. CASE chunks[order] = <<>>
      <3> DEFINE S == HigherOrders(order)
      <3>1. S # {} /\ S \subseteq Nat
        BY <1>1, <1>2, <2>2 DEF HigherOrders
      <3>2. high = Min(S)
        BY <2>2 DEF highOrder
      <3>3. high \in S /\ \A i \in S : high <= i
        BY <3>1, <3>2, MinIsLeast
      <3>4. high \in (order + 1)..MAX_ORDER /\ chunks[high] # <<>>
        BY <3>3 DEF HigherOrders
      <3> HIDE DEF high
      <3>5. ASSUME NEW i \in order..(high - 1) PROVE i \in Orders /\ chunks[i] = <<>>
        <4>1. i \in Orders /\ (i = order \/ i \in (order + 1)..MAX_ORDER) /\ ~(high <= i)
          BY <1>2, <3>4 DEF Orders
        <4>2. i \notin S
          BY <3>3, <4>1
        <4> QED
          BY <2>2, <4>1, <4>2 DEF HigherOrders
      <3> QED
        BY <1>2, <3>4, <3>5 DEF Orders
    <2> QED
      BY <2>1, <2>2
  <1> HIDE DEF high
  <1>4. chunks \in [Orders -> Seq(Nat)] /\ IsList(chunks[high])
    BY <1>3, ChunkFacts DEF BuddyInv, TypeInv
  <1>5. page \in Nat /\ Contains(chunks[high], page)
    BY <1>3, <1>4, TailOfList
  <1>6. Chunk(page, high) \in FreeChunks
    BY <1>3, <1>4, <1>5, FreeIs
  <1>7. IsAligned(page, high)
    BY <1>6, ChunkFacts DEF AllChunks, Chunk
  <1>8. high \in Nat
    BY <1>3, OrdersAre
  <1> HIDE DEF page
  <1>9. ASSUME NEW i \in 0..high PROVE StartAt(page, i) = page
    <2>1. i \in Nat /\ i <= high
      BY <1>8
    <2>2. IsAligned(page, i)
      BY <1>7, <1>8, <2>1, AlignedToo
    <2>3. 2^i \in Nat \ {0}
      BY <2>1, PowerNat
    <2>4. page <= page /\ page < page + 2^i
      BY <1>5, <2>3
    <2> QED
      BY <1>5, <2>1, <2>2, <2>4, StartUnique
  <1>10. ASSUME NEW i \in 0..(high - 1) PROVE BuddyOf(page, i) = page + 2^i
    <2>1. i + 1 \in Nat /\ i + 1 <= high
      BY <1>8
    <2>2. IsAligned(page, i + 1)
      BY <1>7, <1>8, <2>1, AlignedToo
    <2> QED
      BY <2>2 DEF BuddyOf, IsAligned
  <1> QED
    BY <1>3, <1>5, <1>6, <1>9, <1>10 DEF high, page

\* What a split does to the lists.
LEMMA SplitLists ==
  ASSUME BuddyInv, NEW order \in Orders, alloc_result(order) = 0, chunks' = Split(order)
  PROVE  LET high == highOrder(order)
             page == Head(chunks[high])
         IN /\ chunks' \in [Orders -> Seq(Nat)]
            /\ \A i \in Orders : IsInjective(chunks'[i])
            /\ \A i \in Orders : \A x : Contains(chunks'[i], x) <=>
                 \/ Contains(chunks[i], x) /\ ~(i = high /\ x = page)
                 \/ i \in order..(high - 1) /\ x = page + 2^i
            /\ FreeChunks' = (FreeChunks \ {Chunk(page, high)}) \cup Buddies(page, order, high)
PROOF
  <1> DEFINE high == highOrder(order)
             page == Head(chunks[high])
             Added == order..(high - 1)
  <1>1. /\ high \in Orders /\ order <= high /\ chunks[high] # <<>>
        /\ \A i \in Added : i \in Orders /\ chunks[i] = <<>>
        /\ page \in Nat /\ Chunk(page, high) \in FreeChunks
        /\ \A i \in 0..high : StartAt(page, i) = page
        /\ \A i \in 0..(high - 1) : BuddyOf(page, i) = page + 2^i
    BY Taken
  <1>2. chunks' = [i \in Orders |-> IF i = high THEN Tail(chunks[i])
                                    ELSE IF i \in Added THEN Append(chunks[i], page + 2^i)
                                    ELSE chunks[i]]
    BY DEF Split
  <1>3. /\ chunks \in [Orders -> Seq(Nat)]
        /\ \A i \in Orders : IsList(chunks[i])
    BY ChunkFacts DEF BuddyInv, TypeInv
  <1>4. page = Head(chunks[high])
    OBVIOUS
  <1>5. high \in Nat /\ order \in Nat
    BY <1>1, OrdersAre
  <1>6. <<>> \in Seq(Nat) /\ \A x : ~Contains(<<>>, x)
    BY EmptySeq DEF Contains
  <1> HIDE DEF high, page
  <1>7. ASSUME NEW i \in Orders
        PROVE  /\ IsList(chunks'[i])
               /\ \A x : Contains(chunks'[i], x) <=>
                    \/ Contains(chunks[i], x) /\ ~(i = high /\ x = page)
                    \/ i \in Added /\ x = page + 2^i
    <2>1. CASE i = high
      <3>1. chunks'[i] = Tail(chunks[i]) /\ i \notin Added
        BY <1>2, <1>5, <2>1
      <3> QED
        BY <1>1, <1>3, <1>4, <2>1, <3>1, TailOfList
    <2>2. CASE i \in Added
      <3>1. i # high /\ chunks[i] = <<>> /\ i \in Nat
        BY <1>1, <1>5, <2>2
      <3> DEFINE e == page + 2^i
      <3>2. e \in Nat
        BY <1>1, <3>1, PowerNat
      <3>3. chunks'[i] = Append(chunks[i], e)
        BY <1>2, <2>2, <3>1
      <3>4. ~Contains(chunks[i], e) /\ IsList(chunks[i])
        BY <1>3, <1>6, <3>1
      <3> HIDE DEF e
      <3>5. IsList(chunks'[i]) /\ \A x : Contains(chunks'[i], x) <=> Contains(chunks[i], x) \/ x = e
        BY <3>2, <3>3, <3>4, AppendToList
      <3> QED
        BY <2>2, <3>1, <3>5 DEF e
    <2>3. CASE i # high /\ i \notin Added
      BY <1>2, <1>3, <2>3
    <2> QED
      BY <2>1, <2>2, <2>3
  <1>8. chunks' \in [Orders -> Seq(Nat)] /\ \A i \in Orders : IsInjective(chunks'[i])
    <2>1. \A i \in Orders : chunks'[i] \in Seq(Nat) /\ IsInjective(chunks'[i])
      BY <1>7 DEF IsList
    <2>2. chunks' = [i \in Orders |-> chunks'[i]]
      BY <1>2
    <2> QED
      BY <2>1, <2>2
  <1>9. FreeChunks' = (FreeChunks \ {Chunk(page, high)}) \cup Buddies(page, order, high)
    <2>1. ASSUME NEW i \in Added
          PROVE  BuddyAround(page, i) = Chunk(page + 2^i, i) /\ i \in Orders
      BY <1>1, <1>5 DEF BuddyAround
    <2>2. Buddies(page, order, high) = {Chunk(page + 2^i, i) : i \in Added}
      BY <2>1 DEF Buddies
    <2>3. ASSUME NEW i \in Orders, NEW x
          PROVE  Chunk(x, i) \in FreeChunks' <=>
                   Chunk(x, i) \in (FreeChunks \ {Chunk(page, high)}) \cup Buddies(page, order, high)
      <3>1. Chunk(x, i) \in FreeChunks' <=> Contains(chunks'[i], x)
        BY <1>8, FreeIsThen
      <3>2. Chunk(x, i) \in FreeChunks <=> Contains(chunks[i], x)
        BY <1>3, FreeIs
      <3>3. Chunk(x, i) = Chunk(page, high) <=> i = high /\ x = page
        BY DEF Chunk
      <3>4. Chunk(x, i) \in Buddies(page, order, high) <=> i \in Added /\ x = page + 2^i
        BY <2>2 DEF Chunk
      <3> QED
        BY <1>7, <3>1, <3>2, <3>3, <3>4
    <2>4. ASSUME NEW c \in FreeChunks' PROVE c = Chunk(c.page, c.order) /\ c.order \in Orders
      BY <1>8, FreeIsThen
    <2>5. ASSUME NEW c \in (FreeChunks \ {Chunk(page, high)}) \cup Buddies(page, order, high)
          PROVE  c = Chunk(c.page, c.order) /\ c.order \in Orders
      <3>1. CASE c \in FreeChunks
        BY <1>3, <3>1, FreeIs
      <3>2. CASE c \in Buddies(page, order, high)
        BY <2>1, <2>2, <3>2 DEF Chunk
      <3> QED
        BY <3>1, <3>2
    <2> QED
      BY <2>3, <2>4, <2>5
  <1> QED
    BY <1>7, <1>8, <1>9 DEF high, page

\* The checker finds no record of the new chunk: what was in the lists is in no
\* record.
LEMMA NotMarked ==
  ASSUME BuddyInv, NEW order \in Orders, Alloc(order)
  PROVE  ops' = ops \cup {Chunk(Head(chunks[highOrder(order)]), order)}
PROOF
  <1> DEFINE high == highOrder(order)
             page == Head(chunks[high])
             taken == Chunk(page, high)
  <1>1. alloc_result(order) = 0
    BY DEF Alloc
  <1>2. page \in Nat /\ taken \in FreeChunks
    BY <1>1, Taken
  <1>3. taken.page = page
    BY DEF Chunk
  <1>4. page \in Allocator!PagesOf(taken)
    BY <1>2, <1>3, ChunkFacts DEF AllChunks
  <1>5. ASSUME AlreadyMarked(page) PROVE FALSE
    <2>1. PICK op \in ops : op.page <= page /\ page < op.page + 2^op.order
      BY <1>5 DEF AlreadyMarked
    <2>2. op.page \in Nat /\ op.order \in Nat /\ op = Chunk(op.page, op.order)
      BY ChunkFacts, OrdersAre
    <2>3. page \in Allocator!PagesOf(Chunk(op.page, op.order))
      BY <1>2, <2>1, <2>2, PagesAre
    <2>4. op # taken
      BY <1>2 DEF BuddyInv, Partition
    <2>5. Allocator!Disjoint(op, taken)
      BY <1>2, <2>4 DEF BuddyInv, Partition, AllChunks
    <2> QED
      BY <1>4, <2>2, <2>3, <2>5 DEF Allocator!Disjoint
  <1> QED
    BY <1>5 DEF Alloc, Chunk

\* An allocation exchanges the chunk it takes for its parts.
LEMMA AllocExchanges ==
  ASSUME BuddyInv, NEW order \in Orders, Alloc(order)
  PROVE  LET high == highOrder(order)
             page == Head(chunks[high])
             N == Buddies(page, order, high) \cup {Around(page, order)}
         IN /\ AllChunks' = (AllChunks \ {Chunk(page, high)}) \cup N
            /\ UNION {Allocator!PagesOf(c) : c \in N} = Allocator!PagesOf(Chunk(page, high))
            /\ \A c, d \in N : c # d => Allocator!Disjoint(c, d)
            /\ Around(page, order) = Chunk(page, order)
            /\ Around(page, order) \notin Buddies(page, order, high)
            /\ \A c \in N : /\ c.page \in Nat /\ c.order \in Orders
                            /\ c = Chunk(c.page, c.order) /\ IsAligned(c.page, c.order)
PROOF
  <1> DEFINE high == highOrder(order)
             page == Head(chunks[high])
             N == Buddies(page, order, high) \cup {Around(page, order)}
  <1>1. alloc_result(order) = 0 /\ chunks' = Split(order)
    BY DEF Alloc
  <1>2. /\ high \in Orders /\ order <= high /\ page \in Nat
        /\ Chunk(page, high) \in FreeChunks
        /\ \A i \in 0..high : StartAt(page, i) = page
        /\ \A i \in order..(high - 1) : i \in Orders
    BY <1>1, Taken
  <1>3. FreeChunks' = (FreeChunks \ {Chunk(page, high)}) \cup Buddies(page, order, high)
    BY <1>1, SplitLists
  <1>4. ops' = ops \cup {Chunk(page, order)}
    BY NotMarked
  <1>5. order \in Nat /\ high \in Nat
    BY <1>2, OrdersAre
  <1>6. Chunk(page, high) \notin ops
    BY <1>2 DEF BuddyInv, Partition
  <1> HIDE DEF high, page
  <1>7. Around(page, order) = Chunk(page, order) /\ Around(page, high) = Chunk(page, high)
    BY <1>2, <1>5 DEF Around
  <1>8. AllChunks' = (AllChunks \ {Chunk(page, high)}) \cup N
    BY <1>3, <1>4, <1>6, <1>7 DEF AllChunks
  <1>9. /\ UNION {Allocator!PagesOf(c) : c \in N} = Allocator!PagesOf(Chunk(page, high))
        /\ \A c, d \in N : c # d => Allocator!Disjoint(c, d)
        /\ Around(page, order) \notin Buddies(page, order, high)
    BY <1>2, <1>5, <1>7, Chain
  <1>10. ASSUME NEW i \in Nat
         PROVE  IsAligned(StartAt(page, i), i) /\ IsAligned(BuddyOf(StartAt(page, i), i), i)
    BY <1>2, StartIs, BuddyHalves
  <1>11. ASSUME NEW c \in N
         PROVE  /\ c.page \in Nat /\ c.order \in Orders
                /\ c = Chunk(c.page, c.order) /\ IsAligned(c.page, c.order)
    <2>1. CASE c = Around(page, order)
      BY <1>5, <1>10, <2>1 DEF Around, Chunk, IsAligned
    <2>2. CASE c \in Buddies(page, order, high)
      <3>1. PICK i \in order..(high - 1) : c = Chunk(BuddyOf(StartAt(page, i), i), i)
        BY <2>2 DEF Buddies, BuddyAround
      <3>2. i \in Nat /\ i \in Orders
        BY <1>2, <1>5
      <3>3. c.page = BuddyOf(StartAt(page, i), i) /\ c.order = i
        BY <3>1 DEF Chunk
      <3> QED
        BY <1>10, <3>1, <3>2, <3>3 DEF IsAligned
    <2> QED
      BY <2>1, <2>2
  <1> QED
    BY <1>7, <1>8, <1>9, <1>11 DEF high, page

LEMMA AllocKeeps ==
  ASSUME BuddyInv, NEW order \in Orders, Alloc(order)
  PROVE  BuddyInv'
PROOF
  <1> DEFINE high == highOrder(order)
             page == Head(chunks[high])
             Bs == Buddies(page, order, high)
             A == Around(page, order)
             N == Bs \cup {A}
             R == {Chunk(page, high)}
  <1>1. /\ AllChunks' = (AllChunks \ R) \cup N
        /\ UNION {Allocator!PagesOf(c) : c \in N} = UNION {Allocator!PagesOf(c) : c \in R}
        /\ \A c, d \in N : c # d => Allocator!Disjoint(c, d)
        /\ A = Chunk(page, order) /\ A \notin Bs
        /\ \A c \in N : /\ c.page \in Nat /\ c.order \in Orders
                        /\ c = Chunk(c.page, c.order) /\ IsAligned(c.page, c.order)
    BY AllocExchanges
  <1>2. alloc_result(order) = 0 /\ chunks' = Split(order)
    BY DEF Alloc
  <1>3. /\ high \in Orders /\ order <= high /\ page \in Nat
        /\ Chunk(page, high) \in FreeChunks
        /\ \A i \in order..(high - 1) : i \in Orders /\ chunks[i] = <<>>
    BY <1>2, Taken
  <1>4. /\ chunks' \in [Orders -> Seq(Nat)]
        /\ \A i \in Orders : IsInjective(chunks'[i])
        /\ \A i \in Orders : \A x : Contains(chunks'[i], x) <=>
             \/ Contains(chunks[i], x) /\ ~(i = high /\ x = page)
             \/ i \in order..(high - 1) /\ x = page + 2^i
        /\ FreeChunks' = (FreeChunks \ R) \cup Bs
    BY <1>2, SplitLists
  <1>5. ops' = ops \cup {A}
    BY <1>1, NotMarked
  <1>6. chunks \in [Orders -> Seq(Nat)] /\ ops \subseteq [page : Nat, order : Orders]
    BY DEF BuddyInv, TypeInv
  <1>7. order \in Nat /\ high \in Nat
    BY <1>3, OrdersAre
  <1> HIDE DEF high, page, Bs, A
  <1>8. TypeInv'
    <2>1. A \in [page : Nat, order : Orders]
      BY <1>1, <1>3 DEF Chunk
    <2> QED
      BY <1>4, <1>5, <1>6, <2>1 DEF TypeInv
  <1>9. AlignedInv'
    <2>1. \A c \in AllChunks' : c.page % 2^c.order = 0
      BY <1>1 DEF BuddyInv, AlignedInv, IsAligned
    <2> QED
      BY <2>1 DEF AlignedInv
  <1>10. Coalesced'
    <2>1. ASSUME NEW i \in Orders \ {MAX_ORDER}, NEW x, Contains(chunks'[i], x),
                 Contains(chunks'[i], BuddyOf(x, i))
          PROVE  FALSE
      <3>1. CASE i \in order..(high - 1)
        <4>1. ~Contains(chunks[i], x) /\ ~Contains(chunks[i], BuddyOf(x, i))
          BY <1>3, <3>1, EmptySeq DEF Contains
        <4>2. x = page + 2^i /\ BuddyOf(x, i) = x
          BY <1>4, <2>1, <4>1
        <4>3. Chunk(x, i) \in N
          <5>1. Chunk(x, i) \in FreeChunks'
            BY <1>4, <2>1, FreeIsThen
          <5>2. Chunk(x, i) \notin FreeChunks
            BY <1>6, <4>1, FreeIs
          <5> QED
            BY <1>4, <5>1, <5>2
        <4>4. IsAligned(x, i) /\ i \in Nat
          BY <1>1, <4>3, OrdersAre DEF Chunk
        <4> QED
          BY <4>2, <4>4, BuddyBack
      <3>2. CASE i \notin order..(high - 1)
        <4>1. Contains(chunks[i], x) /\ Contains(chunks[i], BuddyOf(x, i))
          BY <1>4, <2>1, <3>2
        <4> QED
          BY <1>6, <4>1, CoalescedIs DEF BuddyInv
      <3> QED
        BY <3>1, <3>2
    <2> QED
      BY <1>4, <2>1 DEF Coalesced, Contains
  <1>11. Partition'
    <2> DEFINE B == AllChunks
    <2>1. R \subseteq B
      BY <1>3 DEF AllChunks
    <2>2. \A c \in B \cup N : Allocator!PagesOf(c) # {}
      <3>1. ASSUME NEW c \in B PROVE Allocator!PagesOf(c) # {}
        BY ChunkFacts
      <3>2. ASSUME NEW c \in N PROVE Allocator!PagesOf(c) # {}
        <4>1. c.page \in Nat /\ c.order \in Nat /\ c = Chunk(c.page, c.order)
          BY <1>1, OrdersAre
        <4> QED
          BY <4>1, PagesAre
      <3> QED
        BY <3>1, <3>2
    <2>3. \A c, d \in B : c # d => Allocator!Disjoint(c, d)
      BY DEF BuddyInv, Partition
    <2> HIDE DEF B, R, N
    <2>4. /\ \A c, d \in (B \ R) \cup N : c # d => Allocator!Disjoint(c, d)
          /\ UNION {Allocator!PagesOf(c) : c \in (B \ R) \cup N} = UNION {Allocator!PagesOf(c) : c \in B}
          /\ (B \ R) \cap N = {}
      <3>1. /\ \A c, d \in N : c # d => Allocator!Disjoint(c, d)
            /\ UNION {Allocator!PagesOf(c) : c \in N} = UNION {Allocator!PagesOf(c) : c \in R}
        BY <1>1 DEF R, N
      <3> QED
        BY <2>1, <2>2, <2>3, <3>1, Exchange, ZenonT(30)
    <2>5. UNION {Allocator!PagesOf(c) : c \in AllChunks'} = Allocator!Pages
      BY <1>1, <2>4 DEF BuddyInv, Partition, B
    <2>6. \A c, d \in AllChunks' : c # d => Allocator!Disjoint(c, d)
      BY <1>1, <2>4 DEF B
    <2>7. FreeChunks' \cap ops' = {}
      <3>1. FreeChunks \cap ops = {} /\ Chunk(page, high) \notin ops
        BY <1>3 DEF BuddyInv, Partition
      <3> QED
        BY <1>1, <1>4, <1>5, <2>4, <3>1 DEF AllChunks, B, R, N
    <2> QED
      BY <1>4, <2>5, <2>6, <2>7 DEF Partition
  <1> QED
    BY <1>8, <1>9, <1>10, <1>11 DEF BuddyInv

-----------------------------------------------------------------------------
(* A free.                                                                 *)

\* How far the merges go, and what they take.
LEMMA Merged ==
  ASSUME BuddyInv, NEW op \in ops
  PROVE  LET p == op.page
             top == MergedOrder(p, op.order)
         IN /\ p \in Nat /\ op.order \in Orders /\ top \in Orders /\ op.order <= top
            /\ ~MergesAt(p, top)
            /\ \A i \in op.order..(top - 1) :
                 /\ i \in Orders \ {MAX_ORDER}
                 /\ Contains(chunks[i], BuddyOf(StartAt(p, i), i))
            /\ Around(p, op.order) = op
            /\ ~Contains(chunks[top], StartAt(p, top))
PROOF
  <1> DEFINE p == op.page
             o == op.order
             top == MergedOrder(p, o)
             S == {i \in o..MAX_ORDER : ~MergesAt(p, i)}
  <1>1. p \in Nat /\ o \in Orders /\ op = Chunk(p, o) /\ op \in AllChunks
    BY ChunkFacts DEF AllChunks
  <1>2. o \in Nat /\ MAX_ORDER \in Nat /\ o <= MAX_ORDER
    BY <1>1, OrdersAre
  <1>3. MAX_ORDER \in S
    BY <1>2 DEF MergesAt
  <1>4. S \subseteq Nat /\ S # {}
    BY <1>2, <1>3
  <1>5. top = Min(S)
    BY DEF MergedOrder
  <1>6. top \in S /\ \A i \in S : top <= i
    BY <1>4, <1>5, MinIsLeast
  <1> HIDE DEF top
  <1>7. top \in o..MAX_ORDER /\ ~MergesAt(p, top)
    BY <1>6
  <1>8. top \in Orders /\ top \in Nat /\ o <= top
    BY <1>2, <1>7 DEF Orders
  <1>9. ASSUME NEW i \in o..(top - 1)
        PROVE  i \in Orders \ {MAX_ORDER} /\ Contains(chunks[i], BuddyOf(StartAt(p, i), i))
    <2>1. i \in o..MAX_ORDER /\ ~(top <= i)
      BY <1>2, <1>7
    <2>2. MergesAt(p, i)
      BY <1>6, <2>1
    <2> QED
      BY <1>2, <2>1, <2>2 DEF MergesAt, Orders
  <1>10. Around(p, o) = op
    <2>1. IsAligned(p, o) /\ 2^o \in Nat \ {0}
      BY <1>1, <1>2, ChunkFacts, PowerNat
    <2>2. StartAt(p, o) = p
      <3>1. p <= p /\ p < p + 2^o
        BY <1>1, <2>1
      <3> QED
        BY <1>1, <1>2, <2>1, <3>1, StartUnique
    <2> QED
      BY <1>1, <2>2 DEF Around
  <1>11. ASSUME Contains(chunks[top], StartAt(p, top)) PROVE FALSE
    <2>1. Around(p, top) \in FreeChunks
      BY <1>8, <1>11, FreeIs DEF Around, BuddyInv, TypeInv
    <2>2. Allocator!PagesOf(op) \subseteq Allocator!PagesOf(Around(p, top))
      BY <1>1, <1>2, <1>8, <1>10, AroundGrows
    <2>3. op.page \in Allocator!PagesOf(op)
      BY <1>1, ChunkFacts
    <2>4. op # Around(p, top) /\ Around(p, top) \in AllChunks
      BY <2>1 DEF BuddyInv, Partition, AllChunks
    <2>5. Allocator!Disjoint(op, Around(p, top))
      BY <1>1, <2>4 DEF BuddyInv, Partition
    <2> QED
      BY <2>2, <2>3, <2>5 DEF Allocator!Disjoint
  <1> QED
    BY <1>1, <1>7, <1>8, <1>9, <1>10, <1>11 DEF top

\* What the merges do to the lists.
LEMMA MergeLists ==
  ASSUME BuddyInv, NEW op \in ops, chunks' = Merge(op.page, op.order)
  PROVE  LET p == op.page
             top == MergedOrder(p, op.order)
         IN /\ chunks' \in [Orders -> Seq(Nat)]
            /\ \A i \in Orders : IsInjective(chunks'[i])
            /\ \A i \in Orders : \A x : Contains(chunks'[i], x) <=>
                 \/ /\ Contains(chunks[i], x)
                    /\ ~(i \in op.order..(top - 1) /\ x = BuddyOf(StartAt(p, i), i))
                 \/ i = top /\ x = StartAt(p, top)
            /\ FreeChunks' = (FreeChunks \ Buddies(p, op.order, top)) \cup {Around(p, top)}
PROOF
  <1> DEFINE p == op.page
             top == MergedOrder(p, op.order)
             Gone == op.order..(top - 1)
             start == StartAt(p, top)
             buddy(i) == BuddyOf(StartAt(p, i), i)
  <1>1. /\ p \in Nat /\ op.order \in Orders /\ top \in Orders /\ op.order <= top
        /\ \A i \in Gone : i \in Orders \ {MAX_ORDER} /\ Contains(chunks[i], buddy(i))
        /\ ~Contains(chunks[top], start)
    BY Merged
  <1>2. chunks' = [i \in Orders |-> IF i \in Gone THEN RemoveFirst(chunks[i], buddy(i))
                                    ELSE IF i = top THEN Append(chunks[i], start)
                                    ELSE chunks[i]]
    BY DEF Merge
  <1>3. /\ chunks \in [Orders -> Seq(Nat)]
        /\ \A i \in Orders : IsList(chunks[i])
    BY ChunkFacts DEF BuddyInv, TypeInv
  <1>4. op.order \in Nat /\ top \in Nat
    BY <1>1, OrdersAre
  <1>5. start \in Nat
    BY <1>1, <1>4, StartIs DEF IsAligned
  <1>6. \A i : i \in Gone => i # top
    BY <1>4
  <1>7. Around(p, top) = Chunk(start, top) /\ Buddies(p, op.order, top) = {Chunk(buddy(i), i) : i \in Gone}
    BY DEF Around, Buddies, BuddyAround
  <1> HIDE DEF top, start, buddy, Gone
  <1>8. ASSUME NEW i \in Orders
        PROVE  /\ IsList(chunks'[i])
               /\ \A x : Contains(chunks'[i], x) <=>
                    \/ Contains(chunks[i], x) /\ ~(i \in Gone /\ x = buddy(i))
                    \/ i = top /\ x = start
    <2>1. CASE i \in Gone
      <3>1. chunks'[i] = RemoveFirst(chunks[i], buddy(i)) /\ i # top
        BY <1>2, <1>6, <2>1
      <3>2. Contains(chunks[i], buddy(i)) /\ IsList(chunks[i])
        BY <1>1, <1>3, <2>1
      <3> QED
        BY <2>1, <3>1, <3>2, RemoveFromList
    <2>2. CASE i = top
      <3>1. chunks'[i] = Append(chunks[i], start) /\ i \notin Gone
        BY <1>2, <1>6, <2>2
      <3>2. ~Contains(chunks[i], start) /\ IsList(chunks[i])
        BY <1>1, <1>3, <2>2
      <3> QED
        BY <1>5, <2>2, <3>1, <3>2, AppendToList
    <2>3. CASE i # top /\ i \notin Gone
      BY <1>2, <1>3, <2>3
    <2> QED
      BY <2>1, <2>2, <2>3
  <1>9. chunks' \in [Orders -> Seq(Nat)] /\ \A i \in Orders : IsInjective(chunks'[i])
    <2>1. \A i \in Orders : chunks'[i] \in Seq(Nat) /\ IsInjective(chunks'[i])
      BY <1>8 DEF IsList
    <2>2. chunks' = [i \in Orders |-> chunks'[i]]
      BY <1>2
    <2> QED
      BY <2>1, <2>2
  <1>10. FreeChunks' = (FreeChunks \ Buddies(p, op.order, top)) \cup {Around(p, top)}
    <2> DEFINE F == (FreeChunks \ Buddies(p, op.order, top)) \cup {Around(p, top)}
    <2>1. ASSUME NEW i \in Orders, NEW x PROVE Chunk(x, i) \in FreeChunks' <=> Chunk(x, i) \in F
      <3>1. Chunk(x, i) \in FreeChunks' <=> Contains(chunks'[i], x)
        BY <1>9, FreeIsThen
      <3>2. Chunk(x, i) \in FreeChunks <=> Contains(chunks[i], x)
        BY <1>3, FreeIs
      <3>3. Chunk(x, i) = Around(p, top) <=> i = top /\ x = start
        BY <1>7 DEF Chunk
      <3>4. Chunk(x, i) \in Buddies(p, op.order, top) <=> i \in Gone /\ x = buddy(i)
        BY <1>7 DEF Chunk
      <3> QED
        BY <1>8, <3>1, <3>2, <3>3, <3>4
    <2>2. ASSUME NEW c \in FreeChunks' PROVE c = Chunk(c.page, c.order) /\ c.order \in Orders
      BY <1>9, FreeIsThen
    <2>3. ASSUME NEW c \in F PROVE c = Chunk(c.page, c.order) /\ c.order \in Orders
      <3>1. CASE c \in FreeChunks
        BY <1>3, <3>1, FreeIs
      <3>2. CASE c = Around(p, top)
        BY <1>1, <1>7, <3>2 DEF Chunk
      <3> QED
        BY <3>1, <3>2
    <2> QED
      BY <2>1, <2>2, <2>3
  <1> QED
    BY <1>8, <1>9, <1>10 DEF top, start, buddy, Gone

\* A free exchanges the freed chunk and its buddies for what they merge into.
LEMMA FreeKeeps ==
  ASSUME BuddyInv, NEW op \in ops, Free(op)
  PROVE  BuddyInv'
PROOF
  <1> DEFINE p == op.page
             o == op.order
             top == MergedOrder(p, o)
             start == StartAt(p, top)
             Bs == Buddies(p, o, top)
             N == {Around(p, top)}
             R == Bs \cup {op}
             B == AllChunks
  <1>1. /\ p \in Nat /\ o \in Orders /\ top \in Orders /\ o <= top
        /\ ~MergesAt(p, top)
        /\ \A i \in o..(top - 1) :
             /\ i \in Orders \ {MAX_ORDER}
             /\ Contains(chunks[i], BuddyOf(StartAt(p, i), i))
        /\ Around(p, o) = op
    BY Merged
  <1>2. chunks' = Merge(p, o) /\ ops' = ops \ {op}
    BY DEF Free
  <1>3. /\ chunks' \in [Orders -> Seq(Nat)]
        /\ \A i \in Orders : IsInjective(chunks'[i])
        /\ \A i \in Orders : \A x : Contains(chunks'[i], x) =>
             Contains(chunks[i], x) \/ (i = top /\ x = start)
        /\ FreeChunks' = (FreeChunks \ Bs) \cup N
    BY <1>2, MergeLists
  <1>4. chunks \in [Orders -> Seq(Nat)] /\ ops \subseteq [page : Nat, order : Orders]
    BY DEF BuddyInv, TypeInv
  <1>5. o \in Nat /\ top \in Nat
    BY <1>1, OrdersAre
  <1>6. /\ UNION {Allocator!PagesOf(c) : c \in R} = UNION {Allocator!PagesOf(c) : c \in N}
        /\ op \notin Bs
    BY <1>1, <1>5, Chain
  <1>7. Bs \subseteq FreeChunks
    <2>1. ASSUME NEW i \in o..(top - 1) PROVE BuddyAround(p, i) \in FreeChunks
      BY <1>1, <1>4, FreeIs DEF BuddyAround
    <2> QED
      BY <2>1 DEF Buddies
  <1>8. FreeChunks \cap ops = {}
    BY DEF BuddyInv, Partition
  <1>9. AllChunks' = (B \ R) \cup N
    BY <1>2, <1>3, <1>7, <1>8 DEF AllChunks
  <1>10. IsAligned(start, top) /\ Around(p, top) = Chunk(start, top)
    BY <1>1, <1>5, StartIs DEF Around
  <1> HIDE DEF p, o, top, start, Bs
  <1>11. TypeInv'
    BY <1>2, <1>3, <1>4 DEF TypeInv
  <1>12. AlignedInv'
    <2>1. \A c \in AllChunks' : c.page % 2^c.order = 0
      BY <1>9, <1>10 DEF BuddyInv, AlignedInv, IsAligned, Chunk
    <2> QED
      BY <2>1 DEF AlignedInv
  <1>13. Coalesced'
    <2>1. ASSUME NEW i \in Orders \ {MAX_ORDER}, NEW x, Contains(chunks'[i], x),
                 Contains(chunks'[i], BuddyOf(x, i))
          PROVE  FALSE
      <3> DEFINE b == BuddyOf(x, i)
      <3>1. ~(Contains(chunks[i], x) /\ Contains(chunks[i], b))
        BY <1>4, CoalescedIs DEF BuddyInv
      <3>2. i = top /\ (x = start \/ b = start)
        BY <1>3, <2>1, <3>1
      <3>3. i < MAX_ORDER
        BY <3>2, OrdersAre
      <3>4. ~Contains(chunks[i], BuddyOf(start, i))
        BY <1>1, <3>2, <3>3 DEF MergesAt, start
      <3>5. BuddyOf(start, i) # start /\ i \in Nat
        BY <1>5, <1>10, <3>2, BuddyBack
      <3>6. CASE x = start
        BY <1>3, <2>1, <3>4, <3>5, <3>6
      <3>7. CASE x # start
        <4>1. b = start /\ Contains(chunks[i], x)
          BY <1>3, <2>1, <3>2, <3>7
        <4>2. Chunk(x, i) \in AllChunks
          BY <1>4, <4>1, FreeIs DEF AllChunks
        <4>3. IsAligned(x, i)
          BY <4>2, ChunkFacts DEF Chunk
        <4>4. BuddyOf(start, i) = x
          BY <3>5, <4>1, <4>3, BuddyBack
        <4> QED
          BY <3>4, <4>1, <4>4
      <3> QED
        BY <3>6, <3>7
    <2> QED
      BY <1>3, <2>1 DEF Coalesced, Contains
  <1>14. Partition'
    <2>1. R \subseteq B
      BY <1>7 DEF AllChunks
    <2>2. \A c \in B \cup N : Allocator!PagesOf(c) # {}
      <3>1. ASSUME NEW c \in B PROVE Allocator!PagesOf(c) # {}
        BY ChunkFacts
      <3>2. start \in Nat
        BY <1>10 DEF IsAligned
      <3> QED
        BY <1>5, <1>10, <3>1, <3>2, PagesAre
    <2>3. \A c, d \in B : c # d => Allocator!Disjoint(c, d)
      BY DEF BuddyInv, Partition
    <2>4. \A c, d \in N : c # d => Allocator!Disjoint(c, d)
      OBVIOUS
    <2>5. UNION {Allocator!PagesOf(c) : c \in N} = UNION {Allocator!PagesOf(c) : c \in R}
      BY <1>6
    <2> HIDE DEF B, R, N
    <2>6. /\ \A c, d \in (B \ R) \cup N : c # d => Allocator!Disjoint(c, d)
          /\ UNION {Allocator!PagesOf(c) : c \in (B \ R) \cup N} = UNION {Allocator!PagesOf(c) : c \in B}
          /\ (B \ R) \cap N = {}
      BY <2>1, <2>2, <2>3, <2>4, <2>5, Exchange, ZenonT(30)
    <2>7. UNION {Allocator!PagesOf(c) : c \in AllChunks'} = Allocator!Pages
      BY <1>9, <2>6 DEF BuddyInv, Partition, B
    <2>8. \A c, d \in AllChunks' : c # d => Allocator!Disjoint(c, d)
      BY <1>9, <2>6
    <2>9. FreeChunks' \cap ops' = {}
      BY <1>2, <1>3, <1>7, <1>8, <2>6 DEF AllChunks, B, R
    <2> QED
      BY <1>3, <2>7, <2>8, <2>9 DEF Partition
  <1> QED
    BY <1>11, <1>12, <1>13, <1>14 DEF BuddyInv

-----------------------------------------------------------------------------

LEMMA BuddyInvNext == BuddyInv /\ [Next]_vars => BuddyInv'
PROOF
  <1> SUFFICES ASSUME BuddyInv, [Next]_vars PROVE BuddyInv'
    OBVIOUS
  <1>1. ASSUME NEW order \in Orders, Alloc(order) PROVE BuddyInv'
    BY <1>1, AllocKeeps
  <1>2. ASSUME NEW op \in ops, Free(op) PROVE BuddyInv'
    BY <1>2, FreeKeeps
  <1>3. CASE UNCHANGED vars
    BY <1>3 DEF vars, BuddyInv, TypeInv, AlignedInv, Partition, Coalesced, AllChunks, FreeChunks
  <1> QED
    BY <1>1, <1>2, <1>3 DEF Next

\* What the allocator keeps true for any numbers of orders and pages.
THEOREM BuddyInvariance == Spec => []BuddyInv
PROOF
  <1> QED
    BY BuddyInvInit, BuddyInvNext, PTL DEF Spec

\* No page is lost, none is in two chunks: the splits of alloc_pages and the
\* merges of free_pages keep the pages of buddy.chunks and of the records apart.
THEOREM PagesPartitioned == Spec => []Partition
PROOF
  <1>1. BuddyInv => Partition
    BY DEF BuddyInv
  <1> QED
    BY <1>1, BuddyInvariance, PTL

\* free_pages leaves no two buddies apart.
THEOREM BuddiesMerged == Spec => []Coalesced
PROOF
  <1>1. BuddyInv => Coalesced
    BY DEF BuddyInv
  <1> QED
    BY <1>1, BuddyInvariance, PTL

-----------------------------------------------------------------------------
(* What can be had, and what is had.                                       *)

\* Of two aligned chunks that share a page one lies in the other.
LEMMA Inside ==
  ASSUME NEW i \in Nat, NEW j \in Nat, i <= j, NEW p, NEW q,
         IsAligned(p, i), IsAligned(q, j),
         NEW x, x \in Allocator!PagesOf(Chunk(p, i)), x \in Allocator!PagesOf(Chunk(q, j))
  PROVE  Allocator!PagesOf(Chunk(p, i)) \subseteq Allocator!PagesOf(Chunk(q, j))
PROOF
  <1> DEFINE m == 2^i
             n == 2^j
  <1>1. p \in Nat /\ q \in Nat /\ m \in Nat /\ n \in Nat
    BY PowerNat DEF IsAligned
  <1>2. /\ \A y : y \in Allocator!PagesOf(Chunk(p, i)) <=> y \in Int /\ p <= y /\ y < p + m
        /\ \A y : y \in Allocator!PagesOf(Chunk(q, j)) <=> y \in Int /\ q <= y /\ y < q + n
    BY <1>1, PagesAre
  <1>3. (p < q => p + m <= q) /\ (p < q + n => p + m <= q + n)
    BY AlignedGap
  <1> HIDE DEF m, n
  <1>4. q <= p /\ p + m <= q + n
    BY <1>1, <1>2, <1>3
  <1> QED
    BY <1>1, <1>2, <1>4

\* A free chunk has room for a request of its order, or of a smaller one.
LEMMA FreeServes ==
  ASSUME BuddyInv, NEW order \in Orders, NEW f \in FreeChunks, order <= f.order
  PROVE  Chunk(f.page, order) \in Allocator!Available(order)
PROOF
  <1> DEFINE c == Chunk(f.page, order)
  <1>1. /\ f \in AllChunks /\ f.page \in Nat /\ f = Chunk(f.page, f.order)
        /\ IsAligned(f.page, f.order) /\ f.page \in Allocator!PagesOf(f)
        /\ Allocator!PagesOf(f) \subseteq Allocator!Pages
    BY ChunkFacts DEF AllChunks
  <1>2. order \in Nat /\ f.order \in Nat
    BY <1>1, ChunkFacts, OrdersAre
  <1>3. IsAligned(f.page, order)
    BY <1>1, <1>2, AlignedToo
  <1>4. f.page \in Allocator!PagesOf(c)
    BY <1>1, <1>2, PagesAre
  <1>5. Allocator!PagesOf(c) \subseteq Allocator!PagesOf(f)
    BY <1>1, <1>2, <1>3, <1>4, Inside
  <1>6. ASSUME NEW d \in ops PROVE Allocator!Disjoint(c, d)
    <2>1. f # d /\ d \in AllChunks
      BY DEF BuddyInv, Partition, AllChunks
    <2>2. Allocator!Disjoint(f, d)
      BY <1>1, <2>1 DEF BuddyInv, Partition
    <2> QED
      BY <1>5, <2>2 DEF Allocator!Disjoint
  <1>7. c.page = f.page /\ c.order = order /\ c \in [page : Allocator!Pages, order : {order}]
    BY <1>1 DEF Chunk
  <1>8. c \in Allocator!AlignedChunks(order)
    BY <1>1, <1>3, <1>5, <1>7 DEF Allocator!AlignedChunks, IsAligned
  <1> QED
    BY <1>6, <1>8 DEF Allocator!Available

\* Why merging pays: when the lists from the order on are empty, the smallest
\* free chunk within a free aligned chunk of the order would have its buddy
\* beside it.
LEMMA NoneFree ==
  ASSUME BuddyInv, NEW order \in Orders, \A i \in Orders : order <= i => chunks[i] = <<>>,
         NEW c \in Allocator!Available(order)
  PROVE  FALSE
PROOF
  <1> DEFINE Pg(d) == Allocator!PagesOf(d)
  <1>1. /\ c.order = order /\ c = Chunk(c.page, order)
        /\ IsAligned(c.page, order) /\ Pg(c) \subseteq Allocator!Pages
        /\ \A d \in ops : Pg(c) \cap Pg(d) = {}
    BY DEF Allocator!Available, Allocator!AlignedChunks, Allocator!Disjoint, Allocator!Pages,
           IsAligned, Chunk
  <1>2. order \in Nat
    BY OrdersAre
  <1>3. c.page \in Pg(c)
    <2>1. c.page \in Nat
      BY <1>1 DEF IsAligned
    <2>2. c.page \in Pg(Chunk(c.page, order))
      BY <1>2, <2>1, PagesAre
    <2> QED
      BY <1>1, <2>2
  <1>4. ASSUME NEW f \in FreeChunks
        PROVE  /\ f.page \in Nat /\ f.order \in Nat /\ f.order \in Orders /\ f.order < order
               /\ f = Chunk(f.page, f.order) /\ IsAligned(f.page, f.order)
               /\ f.page \in Pg(f) /\ Contains(chunks[f.order], f.page)
    <2>1. /\ f.page \in Nat /\ f.order \in Orders /\ f = Chunk(f.page, f.order)
          /\ IsAligned(f.page, f.order) /\ f.page \in Pg(f)
      BY ChunkFacts DEF AllChunks
    <2>2. Contains(chunks[f.order], f.page)
      BY FreeIs DEF BuddyInv, TypeInv
    <2>3. chunks[f.order] # <<>>
      BY <2>2, EmptySeq DEF Contains
    <2>4. f.order \in Nat /\ f.order < order
      BY <1>2, <2>1, <2>3, OrdersAre
    <2> QED
      BY <2>1, <2>2, <2>4
  <1> HIDE DEF Pg
  <1>5. ASSUME NEW x \in Pg(c)
        PROVE  \E f \in FreeChunks : x \in Pg(f) /\ Pg(f) \subseteq Pg(c)
    <2>1. PICK f \in AllChunks : x \in Pg(f)
      BY <1>1 DEF BuddyInv, Partition, Pg
    <2>2. f \in FreeChunks
      BY <1>1, <2>1 DEF AllChunks
    <2>3. /\ f.order \in Nat /\ f.order <= order /\ f = Chunk(f.page, f.order)
          /\ IsAligned(f.page, f.order)
      BY <1>2, <1>4, <2>2
    <2>4. x \in Pg(Chunk(f.page, f.order)) /\ x \in Pg(Chunk(c.page, order))
      BY <1>1, <2>1, <2>3
    <2>5. Pg(Chunk(f.page, f.order)) \subseteq Pg(Chunk(c.page, order))
      BY <1>1, <1>2, <2>3, <2>4, Inside DEF Pg
    <2>6. Pg(f) \subseteq Pg(c)
      BY <1>1, <2>3, <2>5
    <2> QED
      BY <2>1, <2>2, <2>6
  <1> DEFINE S == {i \in Nat : \E f \in FreeChunks : f.order = i /\ Pg(f) \subseteq Pg(c)}
  <1>6. S # {}
    BY <1>3, <1>4, <1>5
  <1>7. PICK i \in S : \A j \in S : i <= j
    BY <1>6, Least
  <1>8. PICK f \in FreeChunks : f.order = i /\ Pg(f) \subseteq Pg(c)
    BY <1>7
  <1> DEFINE b == BuddyOf(f.page, i)
             t == StartAt(f.page, i + 1)
  <1>9. /\ f.page \in Nat /\ i \in Nat /\ i \in Orders /\ i < order
        /\ f = Chunk(f.page, i) /\ IsAligned(f.page, i)
        /\ f.page \in Pg(f) /\ Contains(chunks[i], f.page)
    BY <1>4, <1>8
  <1>10. /\ IsAligned(b, i) /\ IsAligned(t, i + 1)
         /\ Pg(Chunk(t, i + 1)) = Pg(f) \cup Pg(Chunk(b, i))
    <2>1. f.page <= f.page /\ f.page < f.page + 2^i
      BY <1>9, PowerNat
    <2>2. StartAt(f.page, i) = f.page
      BY <1>9, <2>1, StartUnique
    <2>3. /\ Around(f.page, i) = f /\ BuddyAround(f.page, i) = Chunk(b, i)
          /\ Around(f.page, i + 1) = Chunk(t, i + 1)
      BY <1>9, <2>2 DEF Around, BuddyAround
    <2>4. Pg(Chunk(t, i + 1)) = Pg(f) \cup Pg(Chunk(b, i))
      BY <1>9, <2>3, Halves DEF Pg
    <2>5. IsAligned(b, i) /\ IsAligned(t, i + 1)
      BY <1>9, BuddyHalves
    <2> QED
      BY <2>4, <2>5
  <1> HIDE DEF b, t
  <1>11. b \in Nat /\ b \in Pg(Chunk(b, i))
    BY <1>9, <1>10, PagesAre DEF IsAligned, Pg
  <1>12. Pg(Chunk(t, i + 1)) \subseteq Pg(c)
    <2>1. i + 1 \in Nat /\ i + 1 <= order
      BY <1>2, <1>9
    <2>2. f.page \in Pg(Chunk(t, i + 1)) /\ f.page \in Pg(Chunk(c.page, order))
      BY <1>1, <1>8, <1>9, <1>10
    <2> QED
      BY <1>1, <1>2, <1>10, <2>1, <2>2, Inside DEF Pg
  <1>13. PICK e \in FreeChunks : b \in Pg(e) /\ Pg(e) \subseteq Pg(c)
    BY <1>5, <1>10, <1>11, <1>12
  <1>14. /\ e.page \in Nat /\ e.order \in Nat /\ e = Chunk(e.page, e.order)
         /\ IsAligned(e.page, e.order) /\ Contains(chunks[e.order], e.page)
    BY <1>4
  <1>15. i <= e.order
    BY <1>7, <1>13, <1>14
  <1>16. CASE e.order = i
    <2>1. /\ b \in Int /\ e.page <= b /\ b < e.page + 2^i
      BY <1>9, <1>13, <1>14, <1>16, PagesAre DEF Pg
    <2>2. StartAt(b, i) = e.page
      BY <1>9, <1>11, <1>14, <1>16, <2>1, StartUnique
    <2>3. b <= b /\ b < b + 2^i
      BY <1>9, <1>11, PowerNat
    <2>4. StartAt(b, i) = b
      BY <1>9, <1>10, <1>11, <2>3, StartUnique
    <2>5. Contains(chunks[i], b)
      BY <1>14, <1>16, <2>2, <2>4
    <2>6. i \in Orders \ {MAX_ORDER}
      BY <1>2, <1>9, OrdersAre
    <2> QED
      BY <1>9, <2>5, <2>6, CoalescedIs DEF BuddyInv, TypeInv, b
  <1>17. CASE i < e.order
    <2>1. i + 1 \in Nat /\ i + 1 <= e.order
      BY <1>9, <1>14, <1>17
    <2>2. b \in Pg(Chunk(t, i + 1)) /\ b \in Pg(Chunk(e.page, e.order))
      BY <1>10, <1>11, <1>13, <1>14
    <2>3. Pg(Chunk(t, i + 1)) \subseteq Pg(Chunk(e.page, e.order))
      BY <1>10, <1>14, <2>1, <2>2, Inside DEF Pg
    <2>4. f.page \in Pg(e) /\ f.page \in Pg(f) /\ e # f
      BY <1>8, <1>9, <1>10, <1>14, <1>17, <2>3
    <2> QED
      BY <2>4 DEF BuddyInv, Partition, AllChunks, Allocator!Disjoint, Pg
  <1> QED
    BY <1>9, <1>14, <1>15, <1>16, <1>17

\* alloc_pages refuses a request only when no aligned chunk of the order is
\* free: nothing is refused for a merge that free_pages has not made.
THEOREM RefusesOnlyWhenNoneFree == Spec => []RefusedOnlyWhenNoneFree
PROOF
  <1>1. BuddyInv => RefusedOnlyWhenNoneFree
    <2> SUFFICES ASSUME BuddyInv, NEW order \in Orders
                 PROVE  alloc_result(order) # 0 <=> Allocator!Available(order) = {}
      BY DEF RefusedOnlyWhenNoneFree
    <2>1. order \in Nat /\ order <= MAX_ORDER /\ MAX_ORDER \in Nat
      BY OrdersAre
    <2>2. ASSUME alloc_result(order) # 0, NEW c \in Allocator!Available(order) PROVE FALSE
      <3>1. chunks[order] = <<>> /\ HigherOrders(order) = {}
        BY <2>1, <2>2 DEF alloc_result
      <3>2. ASSUME NEW i \in Orders, order <= i PROVE chunks[i] = <<>>
        BY <2>1, <3>1, <3>2 DEF HigherOrders, Orders
      <3> QED
        BY <2>2, <3>2, NoneFree
    <2>3. ASSUME alloc_result(order) = 0 PROVE Allocator!Available(order) # {}
      <3> DEFINE high == highOrder(order)
                 f == Chunk(Head(chunks[high]), high)
      <3>1. f \in FreeChunks /\ order <= high
        BY <2>3, Taken
      <3>2. f.order = high
        BY DEF Chunk
      <3> QED
        BY <3>1, <3>2, FreeServes
    <2> QED
      BY <2>2, <2>3
  <1> QED
    BY <1>1, BuddyInvariance, PTL

\* alloc_pages and free_pages keep the promise of PageAllocator.
THEOREM BuddyImplementsAllocator == Spec => ImplementsAllocator
PROOF
  <1>1. Init => Allocator!Init
    BY DEF Init, Allocator!Init
  <1>2. BuddyInv /\ [Next]_vars => [Allocator!Next]_ops
    <2> SUFFICES ASSUME BuddyInv, [Next]_vars PROVE [Allocator!Next]_ops
      OBVIOUS
    <2>1. ASSUME NEW order \in Orders, Alloc(order) PROVE Allocator!Alloc
      <3> DEFINE high == highOrder(order)
                 f == Chunk(Head(chunks[high]), high)
                 c == Chunk(Head(chunks[high]), order)
      <3>1. alloc_result(order) = 0
        BY <2>1 DEF Alloc
      <3>2. f \in FreeChunks /\ order <= high
        BY <3>1, Taken
      <3>3. f.order = high /\ f.page = Head(chunks[high])
        BY DEF Chunk
      <3>4. c \in Allocator!Available(order)
        BY <3>2, <3>3, FreeServes
      <3>5. ops' = ops \cup {c}
        BY <2>1, NotMarked
      <3>6. order \in Allocator!Orders
        BY DEF Orders, Allocator!Orders
      <3> QED
        BY <3>4, <3>5, <3>6 DEF Allocator!Alloc
    <2>2. ASSUME NEW op \in ops, Free(op) PROVE Allocator!Free
      BY <2>2 DEF Free, Allocator!Free
    <2>3. CASE UNCHANGED vars
      BY <2>3 DEF vars
    <2> QED
      BY <2>1, <2>2, <2>3 DEF Next, Allocator!Next
  <1> QED
    BY <1>1, <1>2, BuddyInvariance, PTL DEF Spec, ImplementsAllocator, Allocator!Spec

-----------------------------------------------------------------------------
(* First in, first out.                                                    *)

\* What is left of a list keeps its order, and what is new comes last.
InOrder(old, new) ==
  \A k \in 1..Len(new) : Contains(old, new[k]) =>
    \A j \in 1..(k - 1) : \E a, b \in 1..Len(old) : a < b /\ old[a] = new[j] /\ old[b] = new[k]

LEMMA SameInOrder ==
  ASSUME NEW s, IsList(s)
  PROVE  InOrder(s, s)
PROOF
  <1>1. Len(s) \in Nat
    BY LenProperties DEF IsList
  <1>2. ASSUME NEW k \in 1..Len(s), NEW j \in 1..(k - 1)
        PROVE  \E a, b \in 1..Len(s) : a < b /\ s[a] = s[j] /\ s[b] = s[k]
    <2>1. j \in 1..Len(s) /\ j < k
      BY <1>1
    <2> QED
      BY <2>1
  <1> QED
    BY <1>2 DEF InOrder

LEMMA TailInOrder ==
  ASSUME NEW s, IsList(s), s # <<>>
  PROVE  InOrder(s, Tail(s))
PROOF
  <1>1. /\ Len(s) \in Nat /\ Len(Tail(s)) = Len(s) - 1
        /\ \A j \in 1..(Len(s) - 1) : Tail(s)[j] = s[j + 1]
    BY TailOfList, LenProperties DEF IsList
  <1>2. ASSUME NEW k \in 1..Len(Tail(s)), NEW j \in 1..(k - 1)
        PROVE  \E a, b \in 1..Len(s) : a < b /\ s[a] = Tail(s)[j] /\ s[b] = Tail(s)[k]
    <2>1. j + 1 \in 1..Len(s) /\ k + 1 \in 1..Len(s) /\ j + 1 < k + 1
      BY <1>1
    <2>2. Tail(s)[j] = s[j + 1] /\ Tail(s)[k] = s[k + 1]
      BY <1>1
    <2> QED
      BY <2>1, <2>2
  <1> QED
    BY <1>2 DEF InOrder

LEMMA AppendInOrder ==
  ASSUME NEW s, IsList(s), NEW e \in Nat, ~Contains(s, e)
  PROVE  InOrder(s, Append(s, e))
PROOF
  <1> DEFINE r == Append(s, e)
  <1>1. /\ Len(s) \in Nat /\ Len(r) = Len(s) + 1 /\ r[Len(s) + 1] = e
        /\ \A j \in 1..Len(s) : r[j] = s[j]
    BY AppendToList, LenProperties DEF IsList
  <1> HIDE DEF r
  <1>2. ASSUME NEW k \in 1..Len(r), Contains(s, r[k]), NEW j \in 1..(k - 1)
        PROVE  \E a, b \in 1..Len(s) : a < b /\ s[a] = r[j] /\ s[b] = r[k]
    <2>1. k # Len(s) + 1
      BY <1>1, <1>2
    <2>2. k \in 1..Len(s) /\ j \in 1..Len(s) /\ j < k
      BY <1>1, <2>1
    <2> QED
      BY <1>1, <2>2
  <1> QED
    BY <1>2 DEF InOrder, r

LEMMA RemoveInOrder ==
  ASSUME NEW s, IsList(s), NEW n \in 1..Len(s)
  PROVE  InOrder(s, RemoveAt(s, n))
PROOF
  <1> DEFINE r == RemoveAt(s, n)
             place(j) == IF j < n THEN j ELSE j + 1
  <1>1. /\ Len(s) \in Nat /\ Len(r) = Len(s) - 1
        /\ \A j \in 1..(Len(s) - 1) : r[j] = IF j < n THEN s[j] ELSE s[j + 1]
    BY RemoveAtPlace, LenProperties DEF IsList
  <1> HIDE DEF r
  <1>2. ASSUME NEW k \in 1..Len(r), NEW j \in 1..(k - 1)
        PROVE  \E a, b \in 1..Len(s) : a < b /\ s[a] = r[j] /\ s[b] = r[k]
    <2>1. j \in 1..(Len(s) - 1) /\ k \in 1..(Len(s) - 1) /\ j < k
      BY <1>1
    <2>2. place(j) \in 1..Len(s) /\ place(k) \in 1..Len(s) /\ place(j) < place(k)
      BY <1>1, <2>1
    <2>3. r[j] = s[place(j)] /\ r[k] = s[place(k)]
      BY <1>1, <2>1
    <2> QED
      BY <2>2, <2>3
  <1> QED
    BY <1>2 DEF InOrder, r

LEMMA AllocInOrder ==
  ASSUME BuddyInv, NEW order \in Orders, Alloc(order)
  PROVE  Queues
PROOF
  <1> DEFINE high == highOrder(order)
             page == Head(chunks[high])
  <1>1. alloc_result(order) = 0 /\ chunks' = Split(order)
    BY DEF Alloc
  <1>2. /\ high \in Orders /\ order <= high /\ chunks[high] # <<>>
        /\ \A i \in order..(high - 1) : i \in Orders /\ chunks[i] = <<>>
        /\ page \in Nat
    BY <1>1, Taken
  <1>3. chunks' = [i \in Orders |-> IF i = high THEN Tail(chunks[i])
                                    ELSE IF i \in order..(high - 1) THEN Append(chunks[i], page + 2^i)
                                    ELSE chunks[i]]
    BY <1>1 DEF Split
  <1>4. \A i \in Orders : IsList(chunks[i])
    BY ChunkFacts
  <1>5. \A i \in Orders : \A x : Contains(chunks[i], x) /\ ~(i = high /\ x = page) =>
          Contains(chunks'[i], x)
    BY <1>1, SplitLists
  <1>6. page = chunks[high][1]
    BY <1>2, <1>4, TailOfList
  <1> HIDE DEF high, page
  <1>7. ASSUME NEW i \in Orders PROVE InOrder(chunks[i], chunks'[i])
    <2>1. CASE i = high
      <3>1. chunks'[i] = Tail(chunks[i])
        BY <1>3, <2>1
      <3> QED
        BY <1>2, <1>4, <2>1, <3>1, TailInOrder
    <2>2. CASE i # high /\ i \in order..(high - 1)
      <3> DEFINE e == page + 2^i
      <3>1. e \in Nat
        BY <1>2, OrdersAre, PowerNat
      <3>2. chunks'[i] = Append(chunks[i], e)
        BY <1>3, <2>2
      <3>3. ~Contains(chunks[i], e)
        BY <1>2, <2>2, EmptySeq DEF Contains
      <3> HIDE DEF e
      <3> QED
        BY <1>4, <3>1, <3>2, <3>3, AppendInOrder
    <2>3. CASE i # high /\ i \notin order..(high - 1)
      <3>1. chunks'[i] = chunks[i]
        BY <1>3, <2>3
      <3> QED
        BY <1>4, <3>1, SameInOrder
    <2> QED
      BY <2>1, <2>2, <2>3
  <1>8. ASSUME NEW i \in Orders, NEW j \in 2..Len(chunks[i]) PROVE Contains(chunks'[i], chunks[i][j])
    <2>1. chunks[i] \in Seq(Nat) /\ Len(chunks[i]) \in Nat
      BY <1>4, LenProperties DEF IsList
    <2>2. j \in 1..Len(chunks[i]) /\ 1 \in 1..Len(chunks[i]) /\ j # 1
      BY <2>1
    <2>3. chunks[i][j] # chunks[i][1]
      BY <1>4, <2>1, <2>2, ListPlaces DEF IsList
    <2>4. Contains(chunks[i], chunks[i][j])
      BY <2>2 DEF Contains
    <2> QED
      BY <1>5, <1>6, <2>3, <2>4
  <1> QED
    BY <1>7, <1>8 DEF Queues, InOrder

LEMMA FreeInOrder ==
  ASSUME BuddyInv, NEW op \in ops, Free(op)
  PROVE  Queues
PROOF
  <1> DEFINE p == op.page
             top == MergedOrder(p, op.order)
             start == StartAt(p, top)
             buddy(i) == BuddyOf(StartAt(p, i), i)
             Gone == op.order..(top - 1)
  <1>1. chunks' = Merge(p, op.order) /\ ops' = ops \ {op}
    BY DEF Free
  <1>2. /\ p \in Nat /\ op.order \in Orders /\ top \in Orders
        /\ \A i \in Gone : i \in Orders /\ Contains(chunks[i], buddy(i))
        /\ ~Contains(chunks[top], start)
    BY Merged
  <1>3. chunks' = [i \in Orders |-> IF i \in Gone THEN RemoveFirst(chunks[i], buddy(i))
                                    ELSE IF i = top THEN Append(chunks[i], start)
                                    ELSE chunks[i]]
    BY <1>1 DEF Merge
  <1>4. \A i \in Orders : IsList(chunks[i])
    BY ChunkFacts
  <1>5. start \in Nat
    BY <1>2, OrdersAre, StartIs DEF IsAligned
  <1> HIDE DEF p, top, start, buddy, Gone
  <1>6. ASSUME NEW i \in Orders PROVE InOrder(chunks[i], chunks'[i])
    <2>1. CASE i \in Gone
      <3>1. chunks'[i] = RemoveFirst(chunks[i], buddy(i))
        BY <1>3, <2>1
      <3>2. PICK n \in 1..Len(chunks[i]) : RemoveFirst(chunks[i], buddy(i)) = RemoveAt(chunks[i], n)
        BY <1>2, <1>4, <2>1, RemoveFromList
      <3> QED
        BY <1>4, <3>1, <3>2, RemoveInOrder
    <2>2. CASE i \notin Gone /\ i = top
      <3>1. chunks'[i] = Append(chunks[i], start) /\ ~Contains(chunks[i], start)
        BY <1>2, <1>3, <2>2
      <3> QED
        BY <1>4, <1>5, <3>1, AppendInOrder
    <2>3. CASE i \notin Gone /\ i # top
      <3>1. chunks'[i] = chunks[i]
        BY <1>3, <2>3
      <3> QED
        BY <1>4, <3>1, SameInOrder
    <2> QED
      BY <2>1, <2>2, <2>3
  <1> QED
    BY <1>1, <1>6 DEF Queues, InOrder

\* The lists of buddy.chunks are first-in first-out queues, as the comment on
\* struct chunk's lists asks (buddy.c 42-45): also where free_pages takes a
\* buddy out of the middle.
THEOREM ListsStayQueues == Spec => ListsAreQueues
PROOF
  <1>1. BuddyInv /\ [Next]_vars => [Queues]_vars
    <2> SUFFICES ASSUME BuddyInv, [Next]_vars, ~UNCHANGED vars PROVE Queues
      OBVIOUS
    <2>1. ASSUME NEW order \in Orders, Alloc(order) PROVE Queues
      BY <2>1, AllocInOrder
    <2>2. ASSUME NEW op \in ops, Free(op) PROVE Queues
      BY <2>2, FreeInOrder
    <2> QED
      BY <2>1, <2>2 DEF Next
  <1> QED
    BY <1>1, BuddyInvariance, PTL DEF Spec, ListsAreQueues

-----------------------------------------------------------------------------
(* Sums.  A sum over a set is a recursive function on its subsets, which   *)
(* takes out one element after the other.  Where each number counts the    *)
(* elements of a set and these sets are disjoint, the number of elements   *)
(* in their union solves the recursion, and nothing else does.             *)

Pick(s) == CHOOSE x \in s : TRUE

\* h adds up e over the subsets of S.
Sums(h, e, S) ==
  \A s \in SUBSET S : h[s] = IF s = {} THEN 0 ELSE e[Pick(s)] + h[s \ {Pick(s)}]

Union(F, s) == UNION {F[x] : x \in s}

DisjointSets(F, S) ==
  /\ \A x \in S : IsFiniteSet(F[x])
  /\ \A x, y \in S : x # y => F[x] \cap F[y] = {}

LEMMA UnionFinite ==
  ASSUME NEW S, IsFiniteSet(S), NEW F, DisjointSets(F, S), NEW s \in SUBSET S
  PROVE  IsFiniteSet(s) /\ IsFiniteSet(Union(F, s)) /\ Cardinality(Union(F, s)) \in Nat
PROOF
  <1>1. IsFiniteSet(s)
    BY FS_Subset
  <1> DEFINE f == [x \in s |-> F[x]]
             T == {F[x] : x \in s}
  <1>2. f \in Surjection(s, T)
    BY DEF Surjection
  <1>3. IsFiniteSet(T)
    BY <1>1, <1>2, FS_Surjection
  <1>4. \A t \in T : IsFiniteSet(t)
    BY DEF DisjointSets
  <1>5. IsFiniteSet(UNION T)
    BY <1>3, <1>4, FS_UNION
  <1> QED
    BY <1>1, <1>5, FS_CardinalityType DEF Union

\* One set more.
LEMMA UnionGrows ==
  ASSUME NEW S, IsFiniteSet(S), NEW F, DisjointSets(F, S), NEW s \in SUBSET S, NEW x \in s
  PROVE  Cardinality(Union(F, s)) = Cardinality(F[x]) + Cardinality(Union(F, s \ {x}))
PROOF
  <1> DEFINE A == F[x]
             B == Union(F, s \ {x})
  <1>1. IsFiniteSet(A) /\ IsFiniteSet(B)
    <2>1. s \ {x} \in SUBSET S /\ x \in S
      OBVIOUS
    <2> QED
      BY <2>1, UnionFinite DEF DisjointSets
  <1>2. A \cap B = {}
    <2> SUFFICES ASSUME NEW z \in A, NEW y \in s \ {x}, z \in F[y] PROVE FALSE
      BY DEF Union
    <2>1. x \in S /\ y \in S /\ x # y
      OBVIOUS
    <2> QED
      BY <2>1 DEF DisjointSets
  <1>3. Union(F, s) = A \cup B
    BY DEF Union
  <1> HIDE DEF A, B
  <1>4. Cardinality(A \cup B) = Cardinality(A) + Cardinality(B) - Cardinality(A \cap B)
    BY <1>1, FS_Union
  <1>5. Cardinality(A \cap B) = 0 /\ Cardinality(A) \in Nat /\ Cardinality(B) \in Nat
    BY <1>1, <1>2, FS_EmptySet, FS_CardinalityType
  <1> QED
    BY <1>3, <1>4, <1>5 DEF A, B

LEMMA PickIs ==
  ASSUME NEW s, s # {}
  PROVE  Pick(s) \in s
PROOF
  BY DEF Pick

\* The counts of the unions are such sums.
LEMMA CountsAreSums ==
  ASSUME NEW S, IsFiniteSet(S), NEW F, DisjointSets(F, S), NEW e,
         \A x \in S : e[x] = Cardinality(F[x])
  PROVE  Sums([s \in SUBSET S |-> Cardinality(Union(F, s))], e, S)
PROOF
  <1> DEFINE g == [s \in SUBSET S |-> Cardinality(Union(F, s))]
  <1> SUFFICES ASSUME NEW s \in SUBSET S
               PROVE  g[s] = IF s = {} THEN 0 ELSE e[Pick(s)] + g[s \ {Pick(s)}]
    BY DEF Sums
  <1>1. CASE s = {}
    <2>1. Union(F, s) = {}
      BY <1>1 DEF Union
    <2> QED
      BY <1>1, <2>1, FS_EmptySet
  <1>2. CASE s # {}
    <2>1. Pick(s) \in s /\ Pick(s) \in S /\ s \ {Pick(s)} \in SUBSET S
      BY <1>2, PickIs
    <2>2. Cardinality(Union(F, s))
            = Cardinality(F[Pick(s)]) + Cardinality(Union(F, s \ {Pick(s)}))
      BY <2>1, UnionGrows
    <2> QED
      BY <1>2, <2>1, <2>2
  <1> QED
    BY <1>1, <1>2

\* There is only one: take a smallest set on which two differ.
LEMMA SumsAgree ==
  ASSUME NEW S, IsFiniteSet(S), NEW e, NEW g, Sums(g, e, S), NEW h, Sums(h, e, S)
  PROVE  g[S] = h[S]
PROOF
  <1> SUFFICES ASSUME g[S] # h[S] PROVE FALSE
    OBVIOUS
  <1> DEFINE Bad == {s \in SUBSET S : g[s] # h[s]}
             Sizes == {Cardinality(s) : s \in Bad}
  <1>1. \A s \in SUBSET S : IsFiniteSet(s) /\ Cardinality(s) \in Nat
    BY FS_Subset, FS_CardinalityType
  <1>2. Sizes \subseteq Nat /\ Sizes # {}
    <2>1. S \in Bad
      OBVIOUS
    <2> QED
      BY <1>1, <2>1
  <1>3. PICK n \in Sizes : \A k \in Sizes : n <= k
    <2> HIDE DEF Sizes
    <2> QED
      BY <1>2, Least
  <1>4. PICK s \in Bad : n = Cardinality(s)
    OBVIOUS
  <1>5. s # {}
    BY <1>4 DEF Sums
  <1>6. Pick(s) \in s
    BY <1>5, PickIs
  <1> DEFINE t == s \ {Pick(s)}
  <1>7. t \in SUBSET S /\ Cardinality(t) = Cardinality(s) - 1
    BY <1>1, <1>4, <1>6, FS_RemoveElement
  <1>8. t \notin Bad
    <2>1. Cardinality(s) \in Nat /\ n = Cardinality(s)
      BY <1>1, <1>4
    <2>2. ASSUME t \in Bad PROVE n <= Cardinality(t)
      BY <1>3, <2>2
    <2> QED
      BY <1>7, <2>1, <2>2
  <1>9. g[t] = h[t]
    BY <1>7, <1>8
  <1> QED
    BY <1>4, <1>5, <1>9 DEF Sums

-----------------------------------------------------------------------------
(* The pages counted.                                                      *)

PagesIn(i) == UNION {Allocator!PagesOf(Chunk(chunks[i][j], i)) : j \in 1..Len(chunks[i])}

\* A list of n chunks has n * 2^i pages.
LEMMA ListCounts ==
  ASSUME BuddyInv, NEW i \in Orders
  PROVE  /\ IsFiniteSet(PagesIn(i))
         /\ Cardinality(PagesIn(i)) = Len(chunks[i]) * 2^i
PROOF
  <1> DEFINE list == chunks[i]
             n == Len(list)
             m == 2^i
             A == 1..n
             B == 0..(m - 1)
             f == [p \in A \X B |-> list[p[1]] + p[2]]
             T == PagesIn(i)
  <1>1. i \in Nat /\ m \in Nat \ {0} /\ list \in Seq(Nat) /\ n \in Nat /\ IsInjective(list)
    BY OrdersAre, PowerNat DEF BuddyInv, TypeInv, Partition
  <1>2. ASSUME NEW j \in A
        PROVE  /\ list[j] \in Nat /\ Chunk(list[j], i) \in AllChunks
               /\ \A x : x \in Allocator!PagesOf(Chunk(list[j], i))
                           <=> x \in Int /\ list[j] <= x /\ x < list[j] + m
    <2>1. list[j] \in Nat
      BY <1>1
    <2>2. Chunk(list[j], i) \in AllChunks
      BY DEF AllChunks, FreeChunks, Chunk
    <2> QED
      BY <1>1, <2>1, <2>2, PagesAre
  <1>3. ASSUME NEW j \in A, NEW k \in A, NEW x,
               x \in Allocator!PagesOf(Chunk(list[j], i)),
               x \in Allocator!PagesOf(Chunk(list[k], i))
        PROVE  j = k
    <2>1. Chunk(list[j], i) = Chunk(list[k], i)
      BY <1>2, <1>3 DEF BuddyInv, Partition, Allocator!Disjoint
    <2>2. list[j] = list[k]
      BY <2>1 DEF Chunk
    <2> QED
      BY <1>1, <2>2, ListPlaces
  <1>4. IsFiniteSet(A \X B) /\ Cardinality(A \X B) = n * m
    <2>1. IsFiniteSet(A) /\ Cardinality(A) = n /\ IsFiniteSet(B) /\ Cardinality(B) = m
      <3> HIDE DEF n, m
      <3>1. 1 \in Int /\ n \in Int /\ 0 \in Int /\ m - 1 \in Int
        BY <1>1
      <3>2. /\ IsFiniteSet(A) /\ Cardinality(A) = IF 1 > n THEN 0 ELSE n - 1 + 1
            /\ IsFiniteSet(B) /\ Cardinality(B) = IF 0 > m - 1 THEN 0 ELSE m - 1 - 0 + 1
        BY <3>1, FS_Interval
      <3> QED
        BY <1>1, <3>2
    <2> HIDE DEF A, B, n, m
    <2> QED
      BY <2>1, FS_Product
  <1> HIDE DEF list, n, m
  <1>5. ASSUME NEW j \in A, NEW k \in B
        PROVE  list[j] + k \in Allocator!PagesOf(Chunk(list[j], i))
    <2>1. /\ list[j] \in Nat
          /\ \A x : x \in Allocator!PagesOf(Chunk(list[j], i))
                      <=> x \in Int /\ list[j] <= x /\ x < list[j] + m
      BY <1>2
    <2>2. k \in Nat /\ k < m
      BY <1>1
    <2> DEFINE x == list[j] + k
    <2>3. x \in Int /\ list[j] <= x /\ x < list[j] + m
      BY <1>1, <2>1, <2>2
    <2> QED
      BY <2>1, <2>3
  <1>6. f \in [A \X B -> T]
    <2>1. ASSUME NEW j \in A, NEW k \in B PROVE list[j] + k \in T
      BY <1>5 DEF PagesIn, list, n
    <2>2. ASSUME NEW p \in A \X B PROVE list[p[1]] + p[2] \in T
      <3>1. p[1] \in A /\ p[2] \in B
        OBVIOUS
      <3> QED
        BY <2>1, <3>1
    <2> QED
      BY <2>2
  <1>7. ASSUME NEW p \in A \X B, NEW q \in A \X B, f[p] = f[q]
        PROVE  p = q
    <2>1. p[1] \in A /\ p[2] \in B /\ q[1] \in A /\ q[2] \in B
          /\ p = <<p[1], p[2]>> /\ q = <<q[1], q[2]>>
      OBVIOUS
    <2>2. list[p[1]] + p[2] = list[q[1]] + q[2]
      BY <1>7
    <2>3. p[1] = q[1]
      BY <1>3, <1>5, <2>1, <2>2
    <2>4. list[p[1]] \in Nat /\ p[2] \in Nat /\ q[2] \in Nat
      BY <1>1, <1>2, <2>1
    <2>5. p[2] = q[2]
      BY <2>2, <2>3, <2>4
    <2> QED
      BY <2>1, <2>3, <2>5
  <1>8. ASSUME NEW x \in T PROVE \E p \in A \X B : f[p] = x
    <2>1. PICK j \in A : x \in Allocator!PagesOf(Chunk(list[j], i))
      BY DEF PagesIn, list, n
    <2>2. list[j] \in Nat /\ x \in Int /\ list[j] <= x /\ x < list[j] + m
      BY <1>2, <2>1
    <2>3. x - list[j] \in B /\ list[j] + (x - list[j]) = x
      BY <1>1, <2>2
    <2>4. <<j, x - list[j]>> \in A \X B
      BY <2>3
    <2> QED
      BY <2>3, <2>4
  <1>9. ExistsBijection(A \X B, T)
    <2> HIDE DEF f, T, A, B
    <2>1. f \in Injection(A \X B, T)
      BY <1>6, <1>7 DEF Injection, IsInjective
    <2>2. f \in Surjection(A \X B, T)
      BY <1>6, <1>8 DEF Surjection
    <2>3. f \in Bijection(A \X B, T)
      BY <2>1, <2>2 DEF Bijection
    <2> QED
      BY <2>3 DEF ExistsBijection
  <1>10. IsFiniteSet(T) /\ Cardinality(T) = Cardinality(A \X B)
    BY <1>4, <1>9, FS_Bijection
  <1> QED
    BY <1>4, <1>10 DEF T, list, n, m

LEMMA ListsDisjoint ==
  ASSUME BuddyInv, NEW i \in Orders, NEW k \in Orders, i # k
  PROVE  PagesIn(i) \cap PagesIn(k) = {}
PROOF
  <1> SUFFICES ASSUME NEW a \in 1..Len(chunks[i]), NEW b \in 1..Len(chunks[k]),
                      NEW x \in Allocator!PagesOf(Chunk(chunks[i][a], i)),
                      x \in Allocator!PagesOf(Chunk(chunks[k][b], k))
               PROVE  FALSE
    BY DEF PagesIn
  <1>1. Chunk(chunks[i][a], i) \in AllChunks /\ Chunk(chunks[k][b], k) \in AllChunks
    BY DEF AllChunks, FreeChunks, Chunk
  <1>2. Chunk(chunks[i][a], i) # Chunk(chunks[k][b], k)
    BY DEF Chunk
  <1> QED
    BY <1>1, <1>2 DEF BuddyInv, Partition, Allocator!Disjoint

Lists == [i \in Orders |-> PagesIn(i)]

\* What get_unusable_index adds up is the number of pages in the lists.
LEMMA FreePagesCount ==
  ASSUME BuddyInv, NEW S \in SUBSET Orders
  PROVE  /\ IsFiniteSet(Union(Lists, S))
         /\ FreePages(S) = Cardinality(Union(Lists, S))
PROOF
  <1> DEFINE e == [i \in S |-> Len(chunks[i]) * 2^i]
             iter == CHOOSE iter : iter =
               [s \in SUBSET S |->
                  IF s = {} THEN 0
                  ELSE Len(chunks[CHOOSE x \in s : TRUE]) * 2^(CHOOSE x \in s : TRUE)
                         + iter[s \ {CHOOSE x \in s : TRUE}]]
             g == [s \in SUBSET S |-> Cardinality(Union(Lists, s))]
  <1>1. IsFiniteSet(S)
    <2>1. MAX_ORDER \in Int /\ 0 \in Int
      BY BuddyAssumption
    <2>2. IsFiniteSet(Orders)
      BY <2>1, FS_Interval DEF Orders
    <2> QED
      BY <2>2, FS_Subset
  <1>2. DisjointSets(Lists, S) /\ \A i \in S : e[i] = Cardinality(Lists[i])
    BY ListCounts, ListsDisjoint DEF DisjointSets, Lists
  <1>3. FreePages(S) = iter[S]
    BY Zenon DEF FreePages, MapThenSumSet, MapThenFoldSet
  <1>4. Sums(g, e, S)
    <2> HIDE DEF e
    <2> QED
      BY <1>1, <1>2, CountsAreSums
  <1>5. \A s \in SUBSET S : s # {} =>
          e[Pick(s)] = Len(chunks[CHOOSE x \in s : TRUE]) * 2^(CHOOSE x \in s : TRUE)
    <2> SUFFICES ASSUME NEW s \in SUBSET S, s # {}
                 PROVE  e[Pick(s)] = Len(chunks[Pick(s)]) * 2^Pick(s)
      BY DEF Pick
    <2>1. Pick(s) \in S
      BY PickIs
    <2> QED
      BY <2>1
  <1> HIDE DEF e
  <1>6. \A s \in SUBSET S : g[s] =
          IF s = {} THEN 0
          ELSE Len(chunks[CHOOSE x \in s : TRUE]) * 2^(CHOOSE x \in s : TRUE)
                 + g[s \ {CHOOSE x \in s : TRUE}]
    <2> HIDE DEF g
    <2> QED
      BY <1>4, <1>5 DEF Sums, Pick
  <1>7. g = [s \in SUBSET S |->
          IF s = {} THEN 0
          ELSE Len(chunks[CHOOSE x \in s : TRUE]) * 2^(CHOOSE x \in s : TRUE)
                 + g[s \ {CHOOSE x \in s : TRUE}]]
    <2> DEFINE right == [s \in SUBSET S |->
          IF s = {} THEN 0
          ELSE Len(chunks[CHOOSE x \in s : TRUE]) * 2^(CHOOSE x \in s : TRUE)
                 + g[s \ {CHOOSE x \in s : TRUE}]]
    <2>1. \A s \in SUBSET S : g[s] = right[s]
      <3> HIDE DEF g
      <3> QED
        BY <1>6
    <2>2. g = [s \in SUBSET S |-> g[s]] /\ right = [s \in SUBSET S |-> right[s]]
      OBVIOUS
    <2> HIDE DEF g, right
    <2>3. g = right
      BY <2>1, <2>2
    <2> QED
      BY <2>3 DEF right
  <1> HIDE DEF g
  <1>8. iter = [s \in SUBSET S |->
          IF s = {} THEN 0
          ELSE Len(chunks[CHOOSE x \in s : TRUE]) * 2^(CHOOSE x \in s : TRUE)
                 + iter[s \ {CHOOSE x \in s : TRUE}]]
    BY <1>7, Zenon
  <1> HIDE DEF iter
  <1>9. Sums(iter, e, S)
    <2> SUFFICES ASSUME NEW s \in SUBSET S
                 PROVE  iter[s] = IF s = {} THEN 0 ELSE e[Pick(s)] + iter[s \ {Pick(s)}]
      BY DEF Sums
    <2>1. iter[s] = IF s = {} THEN 0
                    ELSE Len(chunks[CHOOSE x \in s : TRUE]) * 2^(CHOOSE x \in s : TRUE)
                           + iter[s \ {CHOOSE x \in s : TRUE}]
      BY <1>8, Zenon
    <2> QED
      BY <1>5, <2>1 DEF Pick
  <1>10. iter[S] = g[S]
    BY <1>1, <1>4, <1>9, SumsAgree
  <1>11. g[S] = Cardinality(Union(Lists, S)) /\ IsFiniteSet(Union(Lists, S))
    BY <1>1, <1>2, UnionFinite DEF g
  <1> QED
    BY <1>3, <1>10, <1>11

Held == [c \in ops |-> Allocator!PagesOf(c)]

\* The records' pages, added up.
LEMMA HeldPagesCount ==
  ASSUME BuddyInv
  PROVE  /\ IsFiniteSet(Union(Held, ops))
         /\ MapThenSumSet(LAMBDA c : 2^c.order, ops) = Cardinality(Union(Held, ops))
PROOF
  <1> DEFINE e == [c \in ops |-> 2^c.order]
             iter == CHOOSE iter : iter =
               [s \in SUBSET ops |->
                  IF s = {} THEN 0
                  ELSE 2^(CHOOSE x \in s : TRUE).order + iter[s \ {CHOOSE x \in s : TRUE}]]
             g == [s \in SUBSET ops |-> Cardinality(Union(Held, s))]
  <1>1. ASSUME NEW c \in ops
        PROVE  IsFiniteSet(Held[c]) /\ Cardinality(Held[c]) = 2^c.order
    <2> DEFINE m == 2^c.order
               p == c.page
    <2>1. p \in Nat /\ m \in Nat \ {0}
      BY ChunkFacts, OrdersAre, PowerNat
    <2>2. Held[c] = p..(p + m - 1)
      BY DEF Held, Allocator!PagesOf
    <2> HIDE DEF p, m
    <2>3. p \in Int /\ p + m - 1 \in Int /\ ~(p > p + m - 1) /\ (p + m - 1) - p + 1 = m
      BY <2>1
    <2>4. IsFiniteSet(p..(p + m - 1)) /\ Cardinality(p..(p + m - 1)) = m
      BY <2>3, FS_Interval
    <2> QED
      BY <2>2, <2>4 DEF m
  <1>2. DisjointSets(Held, ops)
    BY <1>1 DEF DisjointSets, Held, BuddyInv, Partition, AllChunks, Allocator!Disjoint
  <1>3. IsFiniteSet(ops)
    <2> DEFINE f == [c \in ops |-> c.page]
    <2>1. f \in [ops -> Allocator!Pages]
      BY ChunkFacts DEF AllChunks
    <2>2. ASSUME NEW c \in ops, NEW d \in ops, f[c] = f[d] PROVE c = d
      <3>1. c.page \in Allocator!PagesOf(c) /\ c.page \in Allocator!PagesOf(d)
        BY <2>2, ChunkFacts DEF AllChunks
      <3> QED
        BY <3>1 DEF BuddyInv, Partition, AllChunks, Allocator!Disjoint
    <2>3. f \in Injection(ops, Allocator!Pages)
      BY <2>1, <2>2 DEF Injection, IsInjective
    <2>4. IsFiniteSet(Allocator!Pages)
      <3>1. 0 \in Int /\ 2^nr_pages_in_order - 1 \in Int
        BY BuddyAssumption, PowerNat
      <3> QED
        BY <3>1, FS_Interval DEF Allocator!Pages
    <2> QED
      BY <2>3, <2>4, FS_Injection
  <1>4. MapThenSumSet(LAMBDA c : 2^c.order, ops) = iter[ops]
    BY Zenon DEF MapThenSumSet, MapThenFoldSet
  <1>5. \A c \in ops : e[c] = Cardinality(Held[c])
    BY <1>1
  <1>6. Sums(g, e, ops)
    <2> HIDE DEF e
    <2> QED
      BY <1>2, <1>3, <1>5, CountsAreSums
  <1>7. \A s \in SUBSET ops : s # {} => e[Pick(s)] = 2^(CHOOSE x \in s : TRUE).order
    <2> SUFFICES ASSUME NEW s \in SUBSET ops, s # {} PROVE e[Pick(s)] = 2^Pick(s).order
      BY DEF Pick
    <2>1. Pick(s) \in ops
      BY PickIs
    <2> QED
      BY <2>1
  <1> HIDE DEF e
  <1>8. g = [s \in SUBSET ops |->
          IF s = {} THEN 0
          ELSE 2^(CHOOSE x \in s : TRUE).order + g[s \ {CHOOSE x \in s : TRUE}]]
    <2> DEFINE right == [s \in SUBSET ops |->
          IF s = {} THEN 0
          ELSE 2^(CHOOSE x \in s : TRUE).order + g[s \ {CHOOSE x \in s : TRUE}]]
    <2>1. \A s \in SUBSET ops : g[s] = right[s]
      <3> HIDE DEF g
      <3> QED
        BY <1>6, <1>7 DEF Sums, Pick
    <2>2. g = [s \in SUBSET ops |-> g[s]] /\ right = [s \in SUBSET ops |-> right[s]]
      OBVIOUS
    <2> HIDE DEF g, right
    <2>3. g = right
      BY <2>1, <2>2
    <2> QED
      BY <2>3 DEF right
  <1> HIDE DEF g
  <1>9. iter = [s \in SUBSET ops |->
          IF s = {} THEN 0
          ELSE 2^(CHOOSE x \in s : TRUE).order + iter[s \ {CHOOSE x \in s : TRUE}]]
    BY <1>8, Zenon
  <1> HIDE DEF iter
  <1>10. Sums(iter, e, ops)
    <2> SUFFICES ASSUME NEW s \in SUBSET ops
                 PROVE  iter[s] = IF s = {} THEN 0 ELSE e[Pick(s)] + iter[s \ {Pick(s)}]
      BY DEF Sums
    <2>1. iter[s] = IF s = {} THEN 0
                    ELSE 2^(CHOOSE x \in s : TRUE).order + iter[s \ {CHOOSE x \in s : TRUE}]
      BY <1>9, Zenon
    <2> QED
      BY <1>7, <2>1 DEF Pick
  <1>11. iter[ops] = g[ops]
    BY <1>3, <1>6, <1>10, SumsAgree
  <1>12. g[ops] = Cardinality(Union(Held, ops)) /\ IsFiniteSet(Union(Held, ops))
    BY <1>2, <1>3, UnionFinite DEF g
  <1> QED
    BY <1>4, <1>11, <1>12

\* What the unusable index is computed from: the pages in lists are those nobody
\* holds, and all of them, if any, lie in orders too small for a request exactly
\* when alloc_pages refuses it.
LEMMA IndexTells ==
  ASSUME BuddyInv
  PROVE  IndexTellsRefusal
PROOF
  <1> DEFINE total == 2^nr_pages_in_order - MapThenSumSet(LAMBDA c : 2^c.order, ops)
  <1> SUFFICES ASSUME NEW order \in Orders
               PROVE  /\ inallocatable(order) + allocatable(order) = total
                      /\ inallocatable(order) = total <=> alloc_result(order) # 0
    BY DEF IndexTellsRefusal
  <1> DEFINE Low == {i \in Orders : i < order}
             High == {i \in Orders : i >= order}
             L == Union(Lists, Low)
             H == Union(Lists, High)
             U == Union(Held, ops)
  <1>1. /\ IsFiniteSet(L) /\ inallocatable(order) = Cardinality(L)
        /\ IsFiniteSet(H) /\ allocatable(order) = Cardinality(H)
    BY FreePagesCount DEF inallocatable, allocatable
  <1>2. IsFiniteSet(U) /\ total = 2^nr_pages_in_order - Cardinality(U)
    BY HeldPagesCount
  <1> HIDE DEF total
  <1>3. L \cap H = {}
    <2> SUFFICES ASSUME NEW i \in Low, NEW k \in High, NEW x \in PagesIn(i), x \in PagesIn(k)
                 PROVE  FALSE
      BY DEF Union, Lists
    <2>1. i \in Orders /\ k \in Orders /\ i # k
      BY OrdersAre
    <2> QED
      BY <2>1, ListsDisjoint
  <1>4. \A x : x \in L \cup H <=> \E c \in FreeChunks : x \in Allocator!PagesOf(c)
    <2>1. ASSUME NEW x, x \in L \cup H PROVE \E c \in FreeChunks : x \in Allocator!PagesOf(c)
      <3>1. PICK i \in Orders : x \in PagesIn(i)
        BY <2>1 DEF Union, Lists
      <3>2. PICK j \in 1..Len(chunks[i]) : x \in Allocator!PagesOf(Chunk(chunks[i][j], i))
        BY <3>1 DEF PagesIn
      <3>3. Chunk(chunks[i][j], i) \in FreeChunks
        BY DEF FreeChunks, Chunk
      <3> QED
        BY <3>2, <3>3
    <2>2. ASSUME NEW x, NEW c \in FreeChunks, x \in Allocator!PagesOf(c) PROVE x \in L \cup H
      <3>1. PICK i \in Orders : \E j \in 1..Len(chunks[i]) : c = Chunk(chunks[i][j], i)
        BY DEF FreeChunks, Chunk
      <3>2. x \in PagesIn(i)
        BY <2>2, <3>1 DEF PagesIn
      <3>3. i \in Low \/ i \in High
        BY OrdersAre
      <3> QED
        BY <3>2, <3>3 DEF Union, Lists
    <2> QED
      BY <2>1, <2>2
  <1>5. \A x : x \in U <=> \E c \in ops : x \in Allocator!PagesOf(c)
    BY DEF Union, Held
  <1> HIDE DEF L, H, U
  <1>6. (L \cup H) \cap U = {}
    <2> SUFFICES ASSUME NEW c \in FreeChunks, NEW d \in ops, NEW x \in Allocator!PagesOf(c),
                        x \in Allocator!PagesOf(d)
                 PROVE  FALSE
      BY <1>4, <1>5
    <2>1. c # d /\ c \in AllChunks /\ d \in AllChunks
      BY DEF BuddyInv, Partition, AllChunks
    <2> QED
      BY <2>1 DEF BuddyInv, Partition, Allocator!Disjoint
  <1>7. (L \cup H) \cup U = Allocator!Pages
    <2>1. UNION {Allocator!PagesOf(c) : c \in AllChunks} = Allocator!Pages
      BY DEF BuddyInv, Partition
    <2> QED
      BY <1>4, <1>5, <2>1 DEF AllChunks
  <1>8. Cardinality(Allocator!Pages) = 2^nr_pages_in_order
    <2> DEFINE m == 2^nr_pages_in_order
    <2>1. m \in Nat \ {0}
      BY BuddyAssumption, PowerNat
    <2> HIDE DEF m
    <2>2. Cardinality(0..(m - 1)) = m
      BY <2>1, FS_Interval
    <2> QED
      BY <2>2 DEF Allocator!Pages, m
  <1>9. /\ IsFiniteSet(L \cup H)
        /\ Cardinality(L \cup H) = Cardinality(L) + Cardinality(H) - Cardinality(L \cap H)
        /\ Cardinality((L \cup H) \cup U)
             = Cardinality(L \cup H) + Cardinality(U) - Cardinality((L \cup H) \cap U)
    BY <1>1, <1>2, FS_Union
  <1>10. /\ Cardinality(L) \in Nat /\ Cardinality(H) \in Nat /\ Cardinality(U) \in Nat
         /\ Cardinality({}) = 0
    BY <1>1, <1>2, FS_CardinalityType, FS_EmptySet
  <1>11. total = Cardinality(L) + Cardinality(H)
    <2>0. Cardinality(L \cap H) = 0 /\ Cardinality((L \cup H) \cap U) = 0
      BY <1>3, <1>6, <1>10, Zenon
    <2>1. Cardinality(L \cup H) = Cardinality(L) + Cardinality(H)
      BY <1>9, <1>10, <2>0
    <2>2. Cardinality(Allocator!Pages) = Cardinality(L \cup H) + Cardinality(U)
      <3>1. Cardinality(Allocator!Pages) = Cardinality((L \cup H) \cup U)
        BY <1>7, Zenon
      <3> QED
        BY <1>9, <1>10, <2>0, <2>1, <3>1
    <2> QED
      BY <1>2, <1>8, <1>10, <2>1, <2>2
  <1>12. Cardinality(H) = 0 <=> alloc_result(order) # 0
    <2>1. Cardinality(H) = 0 <=> H = {}
      BY <1>1, FS_EmptySet
    <2>2. H = {} <=> \A i \in High : chunks[i] = <<>>
      <3>1. ASSUME NEW i \in High, chunks[i] # <<>> PROVE H # {}
        <4>1. i \in Orders /\ i \in Nat /\ chunks[i] \in Seq(Nat) /\ 1 \in 1..Len(chunks[i])
          BY <3>1, OrdersAre DEF BuddyInv, TypeInv
        <4>2. chunks[i][1] \in Nat
          BY <4>1
        <4>3. chunks[i][1] \in Allocator!PagesOf(Chunk(chunks[i][1], i))
          BY <4>1, <4>2, PagesAre
        <4>4. chunks[i][1] \in PagesIn(i)
          BY <4>1, <4>3 DEF PagesIn
        <4> QED
          BY <4>1, <4>4 DEF H, Union, Lists
      <3>2. ASSUME NEW x \in H PROVE \E i \in High : chunks[i] # <<>>
        BY DEF H, Union, Lists, PagesIn
      <3> QED
        BY <3>1, <3>2
    <2>3. order \in Nat /\ MAX_ORDER \in Nat /\ order <= MAX_ORDER /\ Orders \subseteq Nat
      BY OrdersAre
    <2>4. (\A i \in High : chunks[i] = <<>>)
            <=> chunks[order] = <<>> /\ HigherOrders(order) = {}
      BY <2>3 DEF HigherOrders, Orders
    <2> QED
      BY <2>1, <2>2, <2>3, <2>4 DEF alloc_result, EINVAL, ENOMEM
  <1> QED
    BY <1>1, <1>10, <1>11, <1>12

\* get_unusable_index tells the truth: it divides by the pages nobody holds, so
\* by 0 only when every page is held, and it is 1, or 0/0 then, exactly when a
\* request of the order is refused.
THEOREM IndexIsRefusal == Spec => []IndexTellsRefusal
PROOF
  <1>1. BuddyInv => IndexTellsRefusal
    BY IndexTells
  <1> QED
    BY <1>1, BuddyInvariance, PTL


-----------------------------------------------------------------------------
(* The linked lists: BuddyHeap implements Buddy.                           *)

CellOrNull == Cells \cup {NULL}

MemType(m) ==
  m \in [live : SUBSET Cells, start : [Cells -> Nat], order : [Cells -> Nat],
         chunkPointer : [Cells -> CellOrNull],
         first : [Orders -> CellOrNull], last : [Orders -> CellOrNull]]

\* List i consists of the cells s, all live, of order i, each once.
ListIs(m, s, i) ==
  /\ s \in Seq(Cells) /\ IsInjective(s)
  /\ IF s = <<>>
     THEN m.first[i] = NULL /\ m.last[i] = NULL
     ELSE /\ m.first[i] = s[1] /\ m.last[i] = s[Len(s)]
          /\ m.chunkPointer[s[Len(s)]] = NULL
  /\ \A k \in 1..(Len(s) - 1) : m.chunkPointer[s[k]] = s[k + 1]
  /\ \A k \in 1..Len(s) : s[k] \in m.live /\ m.order[s[k]] = i

ListedCells(m) == UNION {Range(CellsOf(m, i)) : i \in Orders}

\* The memory holds lists.
Sound(m) == MemType(m) /\ \A i \in Orders : ListIs(m, CellsOf(m, i), i)

\* The first k chunks of init_buddy.
FirstChunks(k) ==
  [i \in Orders |-> IF i = MAX_ORDER THEN [j \in 1..k |-> (j - 1) * 2^MAX_ORDER] ELSE <<>>]

\* The lists when the chunk taken for a request has been halved down to order lev.
SplitTo(order, lev) ==
  LET high == highOrder(order)
      page == Head(chunks[high])
  IN [i \in Orders |->
        IF i = high THEN Tail(chunks[i])
        ELSE IF i \in lev..(high - 1) THEN Append(chunks[i], page + 2^i)
        ELSE chunks[i]]

\* The lists when the chunk op has been merged up to order lev.
MergedTo(op, lev) ==
  [i \in Orders |->
     IF i \in op.order..(lev - 1) THEN RemoveFirst(chunks[i], BuddyOf(StartAt(op.page, i), i))
     ELSE chunks[i]]

\* Every live cell is in one list, or in hand.
CellsInv ==
  /\ Sound(mem)
  /\ cp \in CellOrNull /\ cp \notin ListedCells(mem)
  /\ mem.live = ListedCells(mem) \cup ({cp} \ {NULL})
  /\ pc \notin {"alloc", "free"} => cp = NULL
  /\ cp # NULL => mem.chunkPointer[cp] = NULL /\ mem.order[cp] = level

PlaceInv ==
  /\ pc \in {"init", "idle", "alloc", "free", "fini", "ended"}
  /\ asked \in Orders /\ level \in Nat
  /\ pc \in {"alloc", "free", "fini"} => level \in Orders

InitInv ==
  pc = "init" =>
    /\ records = {} /\ ops = {} /\ chunks = FirstChunks(2^(nr_pages_in_order - MAX_ORDER))
    /\ \E k \in 0..2^(nr_pages_in_order - MAX_ORDER) :
         level = k * 2^MAX_ORDER /\ Starts(mem) = FirstChunks(k)

IdleInv == pc = "idle" => records = ops /\ Starts(mem) = chunks

AllocInv ==
  pc = "alloc" =>
    /\ records = ops
    /\ chunks[asked] = <<>> /\ HigherOrders(asked) # {}
    /\ asked < level /\ level <= highOrder(asked)
    /\ IF cp = NULL
       THEN level = highOrder(asked) /\ Starts(mem) = chunks
       ELSE /\ level < highOrder(asked) /\ Starts(mem) = SplitTo(asked, level)
            /\ mem.start[cp] = Head(chunks[highOrder(asked)])

\* op is being freed: its chunk, in hand, has been merged up to level.
Freeing(op) ==
  /\ records = ops \ {op} /\ asked = op.order
  /\ chunks[asked] # <<>> /\ asked <= level
  /\ \A i \in asked..(level - 1) : MergesAt(op.page, i)
  /\ cp # NULL /\ mem.start[cp] = StartAt(op.page, level)
  /\ Starts(mem) = MergedTo(op, level)

FreeInv == pc = "free" => \E op \in ops : Freeing(op)

FiniInv ==
  pc \in {"fini", "ended"} =>
    /\ \A i \in Orders : i < level => CellsOf(mem, i) = <<>>
    /\ pc = "ended" => level = MAX_ORDER + 1

HeapInv == CellsInv /\ PlaceInv /\ InitInv /\ IdleInv /\ AllocInv /\ FreeInv /\ FiniInv

\* Walking along the pointers one meets the cells of the list.
LEMMA CellsAre ==
  ASSUME NEW m, NEW i, NEW s, ListIs(m, s, i)
  PROVE  CellsOf(m, i) = s
PROOF
  <1> DEFINE N == 0..Cardinality(Cells)
             IsWalk(h) == h = [n \in N |->
                            IF n = 0 THEN m.first[i]
                            ELSE LET c == h[n - 1] IN IF c = NULL THEN NULL ELSE m.chunkPointer[c]]
             hop == CHOOSE h : IsWalk(h)
             walk == [n \in N |-> IF n < Len(s) THEN s[n + 1] ELSE NULL]
             places(h) == {n \in 0..(Cardinality(Cells) - 1) : h[n] # NULL}
  <1>1. /\ s \in Seq(Cells) /\ Len(s) \in Nat /\ s = [j \in 1..Len(s) |-> s[j]]
        /\ \A j \in 1..Len(s) : s[j] \in Cells /\ s[j] # NULL
    BY LenProperties, ElementOfSeq, BuddyHeapAssumption DEF ListIs
  <1>2. Cardinality(Cells) \in Nat /\ Len(s) <= Cardinality(Cells)
    <2>0. Len(s) \in Nat
      BY <1>1
    <2>1. IsFiniteSet(1..Len(s)) /\ Cardinality(1..Len(s)) = Len(s)
      BY <2>0, FS_Interval
    <2>2. s \in [1..Len(s) -> Cells]
      BY <1>1
    <2>3. ~(Cardinality(Cells) < Cardinality(1..Len(s)))
      <3> SUFFICES ASSUME Cardinality(Cells) < Cardinality(1..Len(s)) PROVE FALSE
        OBVIOUS
      <3>1. \E x, y \in 1..Len(s) : x # y /\ s[x] = s[y]
        BY <2>1, <2>2, BuddyHeapAssumption, FS_PigeonHole
      <3> QED
        BY <3>1, <1>1 DEF ListIs, IsInjective
    <2> QED
      BY <1>1, <2>1, <2>3, BuddyHeapAssumption, FS_CardinalityType
  <1>3. IsWalk(walk)
    <2>1. ASSUME NEW n \in N
          PROVE  walk[n] = IF n = 0 THEN m.first[i]
                           ELSE LET c == walk[n - 1] IN IF c = NULL THEN NULL ELSE m.chunkPointer[c]
      <3>1. CASE n = 0
        <4>1. s = <<>> <=> Len(s) = 0
          BY <1>1, EmptySeq
        <4> QED
          BY <1>1, <1>2, <3>1, <4>1 DEF ListIs
      <3>2. CASE n # 0
        <4>1. n - 1 \in N /\ n \in Nat \ {0} /\ (n - 1) + 1 = n
          BY <1>2, <3>2
        <4>2. walk[n - 1] = IF n - 1 < Len(s) THEN s[n] ELSE NULL
          BY <4>1
        <4>3. CASE n < Len(s)
          <5>1. n \in 1..(Len(s) - 1) /\ walk[n - 1] = s[n] /\ s[n] # NULL
            BY <1>1, <4>1, <4>2, <4>3
          <5>2. m.chunkPointer[s[n]] = s[n + 1]
            BY <5>1 DEF ListIs
          <5> QED
            BY <3>2, <4>3, <5>1, <5>2
        <4>4. CASE n = Len(s)
          <5>1. walk[n - 1] = s[n] /\ s[n] # NULL /\ s # <<>>
            BY <1>1, <4>1, <4>2, <4>4, EmptySeq
          <5>2. m.chunkPointer[s[n]] = NULL
            BY <4>4, <5>1 DEF ListIs
          <5> QED
            BY <1>1, <3>2, <4>4, <5>1, <5>2
        <4>5. CASE n > Len(s)
          <5>1. walk[n - 1] = NULL /\ ~(n < Len(s))
            BY <1>1, <4>1, <4>2, <4>5
          <5> QED
            BY <3>2, <5>1
        <4> QED
          BY <1>1, <4>1, <4>3, <4>4, <4>5
      <3> QED
        BY <3>1, <3>2
    <2> QED
      BY <2>1
  <1>4. IsWalk(hop)
    <2> HIDE DEF IsWalk, walk
    <2> QED
      BY <1>3
  <1>5. \A n \in N : hop[n] = walk[n]
    <2> DEFINE Bad == {n \in N : hop[n] # walk[n]}
    <2>1. ASSUME Bad # {} PROVE FALSE
      <3>1. Bad \subseteq Nat
        BY <1>2
      <3>2. PICK n \in Bad : \A k \in Bad : n <= k
        <4> HIDE DEF Bad
        <4> QED
          BY <2>1, <3>1, Least
      <3>3. n \in N /\ hop[n] # walk[n]
        OBVIOUS
      <3> HIDE DEF hop, walk
      <3>4. n # 0
        BY <1>3, <1>4, <3>3
      <3>5. n - 1 \in N /\ ~(n <= n - 1)
        BY <1>2, <3>3, <3>4
      <3>6. hop[n - 1] = walk[n - 1]
        BY <3>2, <3>5
      <3> QED
        BY <1>3, <1>4, <3>3, <3>4, <3>6
    <2> QED
      BY <2>1
  <1>6. CellsOf(m, i) = [j \in 1..Cardinality(places(hop)) |-> hop[j - 1]]
    BY DEF CellsOf
  <1>7. places(hop) = 0..(Len(s) - 1)
    <2> HIDE DEF hop
    <2>1. ASSUME NEW n \in 0..(Cardinality(Cells) - 1) PROVE hop[n] # NULL <=> n < Len(s)
      BY <1>1, <1>2, <1>5
    <2> QED
      BY <1>1, <1>2, <2>1
  <1>8. Cardinality(places(hop)) = Len(s)
    <2>0. Len(s) \in Nat
      BY <1>1
    <2> DEFINE b == Len(s) - 1
    <2>1. b \in Int /\ Len(s) = b - 0 + 1 /\ (0 > b => Len(s) = 0)
      BY <2>0
    <2> HIDE DEF b
    <2>2. Cardinality(0..b) = Len(s)
      BY <2>1, FS_Interval
    <2> QED
      BY <1>7, <2>2, Zenon DEF b
  <1>9. \A j \in 1..Len(s) : hop[j - 1] = s[j]
    <2> HIDE DEF hop
    <2> SUFFICES ASSUME NEW j \in 1..Len(s) PROVE hop[j - 1] = s[j]
      OBVIOUS
    <2>1. j - 1 \in N /\ j - 1 < Len(s) /\ (j - 1) + 1 = j
      BY <1>1, <1>2
    <2> QED
      BY <1>5, <2>1
  <1> HIDE DEF hop
  <1> QED
    BY <1>1, <1>6, <1>8, <1>9

LEMMA ListFacts ==
  ASSUME NEW m, NEW i, NEW s, ListIs(m, s, i)
  PROVE  /\ s \in Seq(Cells) /\ Len(s) \in Nat /\ (s = <<>> <=> Len(s) = 0)
         /\ DOMAIN s = 1..Len(s) /\ s = [j \in 1..Len(s) |-> s[j]]
         /\ \A j \in 1..Len(s) : s[j] \in Cells /\ s[j] # NULL /\ s[j] \in m.live /\ m.order[s[j]] = i
         /\ \A j, k \in 1..Len(s) : s[j] = s[k] => j = k
         /\ \A c : c \in Range(s) <=> \E j \in 1..Len(s) : c = s[j]
         /\ m.first[i] = NULL <=> s = <<>>
         /\ m.last[i] = NULL <=> s = <<>>
         /\ s # <<>> => /\ Len(s) \in Nat \ {0}
                        /\ m.first[i] = s[1] /\ m.last[i] = s[Len(s)]
                        /\ m.chunkPointer[s[Len(s)]] = NULL
         /\ \A j \in 1..(Len(s) - 1) : m.chunkPointer[s[j]] = s[j + 1]
PROOF
  <1>1. s \in Seq(Cells) /\ Len(s) \in Nat /\ (s = <<>> <=> Len(s) = 0)
    BY LenProperties, EmptySeq DEF ListIs
  <1>2. DOMAIN s = 1..Len(s) /\ s = [j \in 1..Len(s) |-> s[j]]
    BY <1>1
  <1>3. \A j \in 1..Len(s) : s[j] \in Cells /\ s[j] # NULL
    BY <1>1, ElementOfSeq, BuddyHeapAssumption
  <1>4. \A c : c \in Range(s) <=> \E j \in 1..Len(s) : c = s[j]
    BY <1>2 DEF Range
  <1>5. m.first[i] = NULL <=> s = <<>>
    BY <1>1, <1>3 DEF ListIs
  <1>6. m.last[i] = NULL <=> s = <<>>
    BY <1>1, <1>3 DEF ListIs
  <1>7. \A j, k \in 1..Len(s) : s[j] = s[k] => j = k
    BY <1>2 DEF ListIs, IsInjective
  <1>8. s # <<>> => /\ Len(s) \in Nat \ {0}
                    /\ m.first[i] = s[1] /\ m.last[i] = s[Len(s)]
                    /\ m.chunkPointer[s[Len(s)]] = NULL
    BY <1>1 DEF ListIs
  <1>9. /\ \A j \in 1..(Len(s) - 1) : m.chunkPointer[s[j]] = s[j + 1]
        /\ \A j \in 1..Len(s) : s[j] \in m.live /\ m.order[s[j]] = i
    BY DEF ListIs
  <1> QED
    BY <1>1, <1>2, <1>3, <1>4, <1>5, <1>6, <1>7, <1>8, <1>9

\* A list whose cells and ends are as before is as before.
LEMMA ListKept ==
  ASSUME NEW m, NEW n, NEW i, NEW s, ListIs(m, s, i),
         n.first[i] = m.first[i], n.last[i] = m.last[i],
         \A c \in Range(s) : /\ n.chunkPointer[c] = m.chunkPointer[c] /\ n.order[c] = m.order[c]
                             /\ c \in n.live
  PROVE  ListIs(n, s, i)
PROOF
  <1>1. /\ Len(s) \in Nat /\ (s = <<>> <=> Len(s) = 0)
        /\ \A j \in 1..Len(s) : s[j] \in Range(s)
        /\ \A j \in 1..Len(s) : m.order[s[j]] = i
    BY ListFacts
  <1>2. s # <<>> => s[Len(s)] \in Range(s)
    BY <1>1
  <1>3. \A j \in 1..(Len(s) - 1) : s[j] \in Range(s)
    BY <1>1
  <1> QED
    BY <1>1, <1>2, <1>3 DEF ListIs

\* What insertChunkList, removeChunkList and the unlinking do to the list.
LEMMA ListInserted ==
  ASSUME NEW m, MemType(m), NEW i \in Orders, NEW s, ListIs(m, s, i),
         NEW c \in Cells, c \notin Range(s), c \in m.live, m.order[c] = i, m.chunkPointer[c] = NULL
  PROVE  LET n == insertChunkList(m, c, i)
         IN /\ ListIs(n, Append(s, c), i) /\ MemType(n)
            /\ n.live = m.live /\ n.start = m.start /\ n.order = m.order
            /\ \A j \in Orders \ {i} : n.first[j] = m.first[j] /\ n.last[j] = m.last[j]
            /\ \A d \in Cells \ Range(s) : n.chunkPointer[d] = m.chunkPointer[d]
PROOF
  <1> DEFINE n == insertChunkList(m, c, i)
             u == Append(s, c)
  <1>0. c \in CellOrNull
    BY DEF CellOrNull
  <1>1. /\ s \in Seq(Cells) /\ Len(s) \in Nat /\ (s = <<>> <=> Len(s) = 0)
        /\ \A j \in 1..Len(s) : s[j] \in Cells /\ s[j] # NULL /\ s[j] \in m.live /\ m.order[s[j]] = i
        /\ \A j, k \in 1..Len(s) : s[j] = s[k] => j = k
        /\ \A d : d \in Range(s) <=> \E j \in 1..Len(s) : d = s[j]
        /\ m.first[i] = NULL <=> s = <<>>
        /\ m.last[i] = NULL <=> s = <<>>
    BY ListFacts
  <1>2. /\ u \in Seq(Cells) /\ Len(u) = Len(s) + 1 /\ u # <<>>
        /\ \A j \in 1..Len(s) : u[j] = s[j]
        /\ u[Len(s) + 1] = c
    BY <1>1, AppendProperties
  <1> HIDE DEF u
  <1>3. IsInjective(u)
    <2>1. DOMAIN u = 1..(Len(s) + 1)
      BY <1>1, <1>2
    <2>2. \A j \in 1..Len(s) : s[j] # c
      BY <1>1
    <2> QED
      BY <1>1, <1>2, <2>1, <2>2 DEF IsInjective
  <1>4. CASE s = <<>>
    <2>1. n = [m EXCEPT !.first[i] = c, !.last[i] = c]
      BY <1>1, <1>4 DEF insertChunkList
    <2> HIDE DEF n
    <2>2. /\ n.live = m.live /\ n.start = m.start /\ n.order = m.order
          /\ n.chunkPointer = m.chunkPointer
          /\ n.first = [m.first EXCEPT ![i] = c] /\ n.last = [m.last EXCEPT ![i] = c]
          /\ MemType(n)
      <3>1. n = [live |-> m.live, start |-> m.start, order |-> m.order,
                 chunkPointer |-> m.chunkPointer,
                 first |-> [m.first EXCEPT ![i] = c], last |-> [m.last EXCEPT ![i] = c]]
        BY <1>0, <2>1 DEF MemType
      <3> QED
        BY <1>0, <3>1 DEF MemType
    <2>3. n.first[i] = c /\ n.last[i] = c
      BY <2>2 DEF MemType
    <2>4. Len(u) = 1 /\ u[1] = c
      BY <1>1, <1>2, <1>4
    <2>5. ListIs(n, u, i)
      BY <1>2, <1>3, <2>2, <2>3, <2>4 DEF ListIs
    <2>6. \A j \in Orders \ {i} : n.first[j] = m.first[j] /\ n.last[j] = m.last[j]
      BY <2>2 DEF MemType
    <2> QED
      BY <2>2, <2>5, <2>6 DEF n, u
  <1>5. CASE s # <<>>
    <2> DEFINE e == s[Len(s)]
    <2>1. e \in Range(s) /\ e \in Cells /\ m.last[i] = e /\ m.first[i] = s[1] /\ Len(s) \in 1..Len(s)
      BY <1>1, <1>5 DEF ListIs
    <2>2. n = [m EXCEPT !.chunkPointer[e] = c, !.last[i] = c]
      BY <1>1, <1>5, <2>1 DEF insertChunkList
    <2> HIDE DEF e
    <2> HIDE DEF n
    <2>3. /\ n.live = m.live /\ n.start = m.start /\ n.order = m.order /\ n.first = m.first
          /\ n.chunkPointer = [m.chunkPointer EXCEPT ![e] = c]
          /\ n.last = [m.last EXCEPT ![i] = c]
          /\ MemType(n)
      <3>1. n = [live |-> m.live, start |-> m.start, order |-> m.order,
                 chunkPointer |-> [m.chunkPointer EXCEPT ![e] = c],
                 first |-> m.first, last |-> [m.last EXCEPT ![i] = c]]
        BY <1>0, <2>1, <2>2 DEF MemType
      <3> QED
        BY <1>0, <2>1, <3>1 DEF MemType
    <2>4. n.last[i] = c /\ n.first[i] = s[1]
      BY <2>1, <2>3 DEF MemType
    <2>5. \A d \in Cells : n.chunkPointer[d] = IF d = e THEN c ELSE m.chunkPointer[d]
      BY <2>1, <2>3 DEF MemType
    <2>6. n.chunkPointer[c] = NULL
      BY <2>1, <2>5
    <2>7. u[1] = s[1] /\ u[Len(u)] = c /\ Len(u) - 1 = Len(s)
      BY <1>1, <1>2, <1>5
    <2>8. ASSUME NEW k \in 1..Len(s) PROVE n.chunkPointer[u[k]] = u[k + 1]
      <3>1. CASE k = Len(s)
        BY <1>1, <1>2, <2>5, <3>1 DEF e
      <3>2. CASE k # Len(s)
        <4>1. k \in 1..(Len(s) - 1) /\ k + 1 \in 1..Len(s)
          BY <1>1, <3>2
        <4>2. s[k] # e /\ m.chunkPointer[s[k]] = s[k + 1]
          BY <1>1, <2>1, <3>2, <4>1 DEF e, ListIs
        <4> QED
          BY <1>1, <1>2, <2>5, <4>1, <4>2
      <3> QED
        BY <3>1, <3>2
    <2>9. ASSUME NEW k \in 1..Len(u) PROVE u[k] \in n.live /\ n.order[u[k]] = i
      <3>1. CASE k = Len(s) + 1
        BY <1>2, <2>3, <3>1
      <3>2. CASE k # Len(s) + 1
        <4>1. k \in 1..Len(s)
          BY <1>1, <1>2, <3>2
        <4> QED
          BY <1>1, <1>2, <2>3, <4>1
      <3> QED
        BY <3>1, <3>2
    <2>10. ListIs(n, u, i)
      BY <1>2, <1>3, <2>4, <2>6, <2>7, <2>8, <2>9 DEF ListIs
    <2>11. \A d \in Cells \ Range(s) : n.chunkPointer[d] = m.chunkPointer[d]
      BY <2>1, <2>5
    <2>12. \A j \in Orders \ {i} : n.first[j] = m.first[j] /\ n.last[j] = m.last[j]
      BY <2>3 DEF MemType
    <2> QED
      BY <2>3, <2>10, <2>11, <2>12 DEF n, u
  <1> QED
    BY <1>4, <1>5

LEMMA ListRemoved ==
  ASSUME NEW m, MemType(m), NEW i \in Orders, NEW s, ListIs(m, s, i), s # <<>>
  PROVE  LET n == removeChunkList(m, i)
         IN /\ ListIs(n, Tail(s), i) /\ MemType(n)
            /\ n.live = m.live /\ n.start = m.start /\ n.order = m.order
            /\ n.chunkPointer = m.chunkPointer
            /\ \A j \in Orders \ {i} : n.first[j] = m.first[j] /\ n.last[j] = m.last[j]
PROOF
  <1> DEFINE n == removeChunkList(m, i)
             u == Tail(s)
  <1>0. NULL \in CellOrNull /\ m.chunkPointer[m.first[i]] \in CellOrNull
    <2>1. m.first[i] \in Cells
      BY ListFacts DEF MemType, CellOrNull, ListIs
    <2> QED
      BY <2>1 DEF MemType, CellOrNull
  <1>1. /\ s \in Seq(Cells) /\ Len(s) \in Nat \ {0}
        /\ \A j \in 1..Len(s) : s[j] \in Cells /\ s[j] # NULL /\ s[j] \in m.live /\ m.order[s[j]] = i
        /\ \A j, k \in 1..Len(s) : s[j] = s[k] => j = k
        /\ m.first[i] = s[1] /\ m.last[i] = s[Len(s)] /\ m.chunkPointer[s[Len(s)]] = NULL
    BY ListFacts
  <1>2. /\ u \in Seq(Cells) /\ Len(u) = Len(s) - 1 /\ (u = <<>> <=> Len(u) = 0)
        /\ \A j \in 1..(Len(s) - 1) : u[j] = s[j + 1]
    BY <1>1, HeadTailProperties, EmptySeq
  <1> HIDE DEF u
  <1>3. IsInjective(u)
    <2>1. DOMAIN u = 1..(Len(s) - 1)
      BY <1>1, <1>2
    <2>2. \A j \in 1..(Len(s) - 1) : j + 1 \in 1..Len(s)
      BY <1>1
    <2>3. ASSUME NEW j \in 1..(Len(s) - 1), NEW k \in 1..(Len(s) - 1), u[j] = u[k] PROVE j = k
      <3>1. s[j + 1] = s[k + 1]
        BY <1>2, <2>3
      <3>2. j + 1 = k + 1
        BY <1>1, <2>2, <3>1
      <3> QED
        BY <3>2
    <2> QED
      BY <2>1, <2>3 DEF IsInjective
  <1>4. \A k \in 1..Len(u) : u[k] \in m.live /\ m.order[u[k]] = i
    BY <1>1, <1>2
  <1>5. \A k \in 1..(Len(u) - 1) : m.chunkPointer[u[k]] = u[k + 1]
    BY <1>1, <1>2 DEF ListIs
  <1>6. CASE Len(s) = 1
    <2>1. m.first[i] = m.last[i] /\ u = <<>> /\ Len(u) = 0
      BY <1>1, <1>2, <1>6
    <2>2. n = [m EXCEPT !.first[i] = NULL, !.last[i] = NULL]
      BY <2>1 DEF removeChunkList
    <2> HIDE DEF n
    <2>3. n = [live |-> m.live, start |-> m.start, order |-> m.order,
               chunkPointer |-> m.chunkPointer,
               first |-> [m.first EXCEPT ![i] = NULL], last |-> [m.last EXCEPT ![i] = NULL]]
      BY <1>0, <2>2 DEF MemType
    <2>4. /\ n.live = m.live /\ n.start = m.start /\ n.order = m.order
          /\ n.chunkPointer = m.chunkPointer
          /\ n.first = [m.first EXCEPT ![i] = NULL] /\ n.last = [m.last EXCEPT ![i] = NULL]
          /\ MemType(n)
      BY <1>0, <2>3 DEF MemType
    <2>5. n.first[i] = NULL /\ n.last[i] = NULL
      BY <2>4 DEF MemType
    <2>6. ListIs(n, u, i)
      BY <1>2, <1>3, <1>4, <1>5, <2>1, <2>4, <2>5 DEF ListIs
    <2>7. \A j \in Orders \ {i} : n.first[j] = m.first[j] /\ n.last[j] = m.last[j]
      BY <2>4 DEF MemType
    <2> QED
      BY <2>4, <2>6, <2>7 DEF n, u
  <1>7. CASE Len(s) # 1
    <2>1. m.first[i] # m.last[i] /\ u # <<>> /\ Len(u) # 0
      BY <1>1, <1>2, <1>7
    <2>2. n = [m EXCEPT !.first[i] = m.chunkPointer[m.first[i]]]
      BY <2>1 DEF removeChunkList
    <2>3. m.chunkPointer[m.first[i]] = u[1]
      <3>1. Len(s) \in Nat \ {0}
        BY <1>1
      <3>2. 1 \in 1..(Len(s) - 1)
        BY <1>7, <3>1
      <3>3. m.chunkPointer[s[1]] = s[1 + 1]
        BY <3>2 DEF ListIs
      <3> QED
        BY <1>1, <1>2, <3>2, <3>3
    <2> HIDE DEF n
    <2>4. n = [live |-> m.live, start |-> m.start, order |-> m.order,
               chunkPointer |-> m.chunkPointer,
               first |-> [m.first EXCEPT ![i] = u[1]], last |-> m.last]
      BY <1>0, <2>2, <2>3 DEF MemType
    <2>5. /\ n.live = m.live /\ n.start = m.start /\ n.order = m.order
          /\ n.chunkPointer = m.chunkPointer
          /\ n.first = [m.first EXCEPT ![i] = u[1]] /\ n.last = m.last
          /\ MemType(n)
      BY <1>0, <2>3, <2>4 DEF MemType
    <2>6. n.first[i] = u[1] /\ n.last[i] = s[Len(s)]
      BY <1>1, <2>5 DEF MemType
    <2>7. u[Len(u)] = s[Len(s)] /\ n.chunkPointer[u[Len(u)]] = NULL
      BY <1>1, <1>2, <1>7, <2>5
    <2>8. ListIs(n, u, i)
      BY <1>2, <1>3, <1>4, <1>5, <2>1, <2>5, <2>6, <2>7 DEF ListIs
    <2>9. \A j \in Orders \ {i} : n.first[j] = m.first[j] /\ n.last[j] = m.last[j]
      BY <2>5 DEF MemType
    <2> QED
      BY <2>5, <2>8, <2>9 DEF n, u
  <1> QED
    BY <1>6, <1>7

LEMMA ListUnlinked ==
  ASSUME NEW m, MemType(m), NEW i \in Orders, NEW s, ListIs(m, s, i), NEW at \in 1..Len(s)
  PROVE  LET n == Unlink(m, s[at], IF at = 1 THEN NULL ELSE s[at - 1], i)
         IN /\ ListIs(n, RemoveAt(s, at), i) /\ MemType(n)
            /\ n.live = m.live /\ n.start = m.start /\ n.order = m.order
            /\ \A j \in Orders \ {i} : n.first[j] = m.first[j] /\ n.last[j] = m.last[j]
            /\ \A d \in Cells \ Range(s) : n.chunkPointer[d] = m.chunkPointer[d]
PROOF
  <1> DEFINE front == IF at = 1 THEN NULL ELSE s[at - 1]
             n == Unlink(m, s[at], front, i)
             u == RemoveAt(s, at)
             next == m.chunkPointer[s[at]]
             pointers == IF at = 1 THEN m.chunkPointer ELSE [m.chunkPointer EXCEPT ![s[at - 1]] = next]
             first == IF at = 1 THEN next ELSE m.first[i]
             last == IF at = Len(s) THEN front ELSE m.last[i]
  <1>1. /\ s \in Seq(Cells) /\ Len(s) \in Nat \ {0}
        /\ \A j \in 1..Len(s) : s[j] \in Cells /\ s[j] # NULL /\ s[j] \in m.live /\ m.order[s[j]] = i
        /\ \A j, k \in 1..Len(s) : s[j] = s[k] => j = k
        /\ \A d : d \in Range(s) <=> \E j \in 1..Len(s) : d = s[j]
        /\ m.first[i] = s[1] /\ m.last[i] = s[Len(s)] /\ m.chunkPointer[s[Len(s)]] = NULL
        /\ \A j \in 1..(Len(s) - 1) : m.chunkPointer[s[j]] = s[j + 1]
    <2>1. Len(s) \in Nat
      BY ListFacts
    <2>2. s # <<>>
      BY <2>1, ListFacts
    <2> QED
      BY <2>2, ListFacts
  <1>2. /\ u \in Seq(Cells) /\ Len(u) = Len(s) - 1 /\ (u = <<>> <=> Len(u) = 0)
        /\ \A j \in 1..(Len(s) - 1) : u[j] = IF j < at THEN s[j] ELSE s[j + 1]
    <2>1. u \in Seq(Cells) /\ Len(u) = Len(s) - 1
      BY <1>1, RemoveAtPlace
    <2>2. u = <<>> <=> Len(u) = 0
      BY <2>1, EmptySeq
    <2>3. \A j \in 1..(Len(s) - 1) : u[j] = IF j < at THEN s[j] ELSE s[j + 1]
      <3>1. s \in Seq(Cells)
        BY <1>1
      <3> QED
        BY <3>1, RemoveAtPlace
    <2> QED
      BY <2>1, <2>2, <2>3
  <1>3. next = IF at = Len(s) THEN NULL ELSE s[at + 1]
    BY <1>1
  <1>4. at # 1 => at - 1 \in 1..Len(s) /\ s[at - 1] \in Cells /\ s[at - 1] # NULL
    BY <1>1
  <1>5. front \in CellOrNull /\ next \in CellOrNull /\ (at = 1 <=> front = NULL)
    BY <1>1, <1>3, <1>4 DEF CellOrNull
  <1>6. (m.first[i] = s[at] <=> at = 1) /\ (m.last[i] = s[at] <=> at = Len(s))
    BY <1>1
  <1>7. /\ first \in CellOrNull /\ last \in CellOrNull
        /\ pointers \in [Cells -> CellOrNull]
    BY <1>4, <1>5 DEF MemType
  <1>8. n = [live |-> m.live, start |-> m.start, order |-> m.order, chunkPointer |-> pointers,
             first |-> [m.first EXCEPT ![i] = first], last |-> [m.last EXCEPT ![i] = last]]
    <2> DEFINE linked == IF front # NULL THEN [m EXCEPT !.chunkPointer[front] = next] ELSE m
    <2>1. n = [linked EXCEPT !.first[i] = IF @ = s[at] THEN next ELSE @,
                             !.last[i] = IF @ = s[at] THEN front ELSE @]
      BY DEF Unlink
    <2>2. linked = [live |-> m.live, start |-> m.start, order |-> m.order, chunkPointer |-> pointers,
                    first |-> m.first, last |-> m.last]
      <3>1. CASE at = 1
        BY <1>5, <3>1 DEF MemType
      <3>2. CASE at # 1
        BY <1>5, <3>2 DEF MemType
      <3> QED
        BY <3>1, <3>2
    <2> HIDE DEF linked, n, pointers, next, front
    <2>3. linked.first = m.first /\ linked.last = m.last
      BY <2>2
    <2>4. n = [live |-> m.live, start |-> m.start, order |-> m.order, chunkPointer |-> pointers,
               first |-> [m.first EXCEPT ![i] = IF m.first[i] = s[at] THEN next ELSE m.first[i]],
               last |-> [m.last EXCEPT ![i] = IF m.last[i] = s[at] THEN front ELSE m.last[i]]]
      BY <2>1, <2>2
    <2> QED
      BY <1>6, <2>4
  <1> HIDE DEF n, pointers, first, last, u, front
  <1>9. /\ n.live = m.live /\ n.start = m.start /\ n.order = m.order /\ n.chunkPointer = pointers
        /\ n.first = [m.first EXCEPT ![i] = first] /\ n.last = [m.last EXCEPT ![i] = last]
        /\ MemType(n)
    BY <1>7, <1>8 DEF MemType
  <1>10. n.first[i] = first /\ n.last[i] = last
    BY <1>9 DEF MemType
  <1>11. \A d \in Cells : n.chunkPointer[d] = IF at # 1 /\ d = s[at - 1] THEN next ELSE m.chunkPointer[d]
    BY <1>4, <1>9 DEF MemType, pointers
  <1>12. IsInjective(u)
    <2>1. DOMAIN u = 1..(Len(s) - 1)
      BY <1>1, <1>2
    <2> DEFINE place(j) == IF j < at THEN j ELSE j + 1
    <2>2. \A j \in 1..(Len(s) - 1) : place(j) \in 1..Len(s) /\ u[j] = s[place(j)]
      BY <1>1, <1>2
    <2>3. \A j, k \in 1..(Len(s) - 1) : place(j) = place(k) => j = k
      BY <1>1
    <2> HIDE DEF place
    <2>4. ASSUME NEW j \in 1..(Len(s) - 1), NEW k \in 1..(Len(s) - 1), u[j] = u[k] PROVE j = k
      <3>1. place(j) \in 1..Len(s) /\ place(k) \in 1..Len(s) /\ s[place(j)] = s[place(k)]
        BY <2>2, <2>4
      <3>2. place(j) = place(k)
        BY <1>1, <3>1
      <3> QED
        BY <2>3, <3>2
    <2> QED
      BY <2>1, <2>4 DEF IsInjective
  <1>13. \A k \in 1..Len(u) : u[k] \in m.live /\ m.order[u[k]] = i
    BY <1>1, <1>2
  <1>14. ASSUME NEW k \in 1..(Len(u) - 1) PROVE n.chunkPointer[u[k]] = u[k + 1]
    <2>1. k \in 1..(Len(s) - 1) /\ k + 1 \in 1..(Len(s) - 1) /\ k \in Nat
      BY <1>1, <1>2
    <2>2. CASE k + 1 < at
      <3>1. u[k] = s[k] /\ u[k + 1] = s[k + 1] /\ s[k] # s[at - 1] /\ s[k] \in Cells
        BY <1>1, <1>2, <1>4, <2>1, <2>2
      <3> QED
        BY <1>1, <1>11, <2>1, <3>1
    <2>3. CASE k + 1 = at
      <3>1. u[k] = s[k] /\ at - 1 = k /\ at # 1 /\ s[k] \in Cells /\ at # Len(s)
        BY <1>1, <1>2, <2>1, <2>3
      <3>2. u[k + 1] = s[at + 1]
        BY <1>1, <1>2, <2>1, <2>3
      <3> QED
        BY <1>3, <1>11, <3>1, <3>2
    <2>4. CASE k + 1 > at
      <3>1. /\ u[k] = s[k + 1] /\ u[k + 1] = s[(k + 1) + 1] /\ s[k + 1] \in Cells
            /\ k + 1 \in 1..(Len(s) - 1)
        BY <1>1, <1>2, <2>1, <2>4
      <3>2. at # 1 => s[k + 1] # s[at - 1]
        BY <1>1, <1>4, <2>1, <2>4
      <3> QED
        BY <1>1, <1>11, <3>1, <3>2
    <2> QED
      BY <2>1, <2>2, <2>3, <2>4
  <1>15. IF u = <<>> THEN n.first[i] = NULL /\ n.last[i] = NULL
         ELSE /\ n.first[i] = u[1] /\ n.last[i] = u[Len(u)] /\ n.chunkPointer[u[Len(u)]] = NULL
    <2>1. CASE u = <<>>
      <3>1. Len(s) \in Nat /\ Len(s) - 1 = 0
        BY <1>1, <1>2, <2>1
      <3>2. Len(s) = 1
        BY <3>1
      <3>3. Len(s) = 1 /\ at = 1
        BY <3>2
      <3>4. next = NULL /\ front = NULL
        BY <1>3, <3>3 DEF front
      <3> QED
        BY <1>10, <2>1, <3>3, <3>4 DEF first, last
    <2>2. CASE u # <<>>
      <3>1. Len(s) - 1 \in 1..(Len(s) - 1) /\ 1 \in 1..(Len(s) - 1) /\ Len(u) = Len(s) - 1
        BY <1>1, <1>2, <2>2
      <3>2. first = u[1]
        <4>1. CASE at = 1
          BY <1>2, <1>3, <3>1, <4>1 DEF first
        <4>2. CASE at # 1
          BY <1>1, <1>2, <3>1, <4>2 DEF first
        <4> QED
          BY <4>1, <4>2
      <3>3. last = u[Len(u)] /\ n.chunkPointer[u[Len(u)]] = NULL
        <4>1. CASE at = Len(s)
          <5>1. u[Len(u)] = s[at - 1] /\ at # 1 /\ next = NULL
            BY <1>1, <1>2, <1>3, <3>1, <4>1
          <5> QED
            BY <1>4, <1>11, <4>1, <5>1 DEF last, front
        <4>2. CASE at # Len(s)
          <5>1. /\ u[Len(u)] = s[Len(s)] /\ s[Len(s)] \in Cells
                /\ (at # 1 => s[Len(s)] # s[at - 1])
            BY <1>1, <1>2, <1>4, <3>1, <4>2
          <5> QED
            BY <1>1, <1>11, <4>2, <5>1 DEF last
        <4> QED
          BY <4>1, <4>2
      <3> QED
        BY <1>10, <2>2, <3>2, <3>3
    <2> QED
      BY <2>1, <2>2
  <1>16. ListIs(n, u, i)
    BY <1>2, <1>9, <1>12, <1>13, <1>14, <1>15 DEF ListIs
  <1>17. \A j \in Orders \ {i} : n.first[j] = m.first[j] /\ n.last[j] = m.last[j]
    BY <1>9 DEF MemType
  <1>18. \A d \in Cells \ Range(s) : n.chunkPointer[d] = m.chunkPointer[d]
    BY <1>1, <1>4, <1>11
  <1> QED
    BY <1>9, <1>16, <1>17, <1>18 DEF n, u, front

-----------------------------------------------------------------------------
(* What the operations do to all lists.                                    *)

LEMMA SoundBy ==
  ASSUME NEW m, MemType(m), NEW h, \A i \in Orders : ListIs(m, h[i], i)
  PROVE  /\ Sound(m)
         /\ \A i \in Orders : CellsOf(m, i) = h[i]
         /\ \A c : c \in ListedCells(m) <=> \E i \in Orders : c \in Range(h[i])
         /\ Starts(m) = [i \in Orders |-> [j \in 1..Len(h[i]) |-> m.start[h[i][j]]]]
         /\ Starts(m) \in [Orders -> Seq(Nat)]
PROOF
  <1>1. \A i \in Orders : CellsOf(m, i) = h[i]
    BY CellsAre
  <1>2. Sound(m)
    BY <1>1 DEF Sound
  <1>3. \A c : c \in ListedCells(m) <=> \E i \in Orders : c \in Range(h[i])
    BY <1>1 DEF ListedCells
  <1>4. ASSUME NEW i \in Orders
        PROVE  /\ DOMAIN h[i] = 1..Len(h[i])
               /\ [j \in 1..Len(h[i]) |-> m.start[h[i][j]]] \in Seq(Nat)
    <2> DEFINE s == h[i]
    <2>1. /\ Len(s) \in Nat /\ DOMAIN s = 1..Len(s)
          /\ \A j \in 1..Len(s) : s[j] \in Cells
      BY ListFacts
    <2>2. m.start \in [Cells -> Nat]
      BY DEF MemType
    <2> HIDE DEF s
    <2>3. [j \in 1..Len(s) |-> m.start[s[j]]] \in Seq(Nat)
      BY <2>1, <2>2, IsASeq
    <2> QED
      BY <2>1, <2>3 DEF s
  <1>5. Starts(m) = [i \in Orders |-> [j \in 1..Len(h[i]) |-> m.start[h[i][j]]]]
    <2>1. Starts(m) = [i \in Orders |-> [j \in DOMAIN h[i] |-> m.start[h[i][j]]]]
      BY <1>1 DEF Starts
    <2> QED
      BY <1>4, <2>1
  <1>6. Starts(m) \in [Orders -> Seq(Nat)]
    BY <1>4, <1>5
  <1> QED
    BY <1>1, <1>2, <1>3, <1>5, <1>6

\* Sound memory: what the lists are.
LEMMA SoundIs ==
  ASSUME NEW m, Sound(m)
  PROVE  /\ MemType(m)
         /\ \A i \in Orders : ListIs(m, CellsOf(m, i), i)
         /\ \A c : c \in ListedCells(m) <=> \E i \in Orders : c \in Range(CellsOf(m, i))
         /\ \A c \in ListedCells(m) : c \in Cells /\ c # NULL /\ c \in m.live
         /\ \A i \in Orders : \A c \in Range(CellsOf(m, i)) : m.order[c] = i
         /\ Starts(m) \in [Orders -> Seq(Nat)]
         /\ \A i \in Orders : /\ Starts(m)[i] = [j \in 1..Len(CellsOf(m, i)) |-> m.start[CellsOf(m, i)[j]]]
                              /\ Len(Starts(m)[i]) = Len(CellsOf(m, i))
                              /\ CellsOf(m, i) = <<>> <=> Starts(m)[i] = <<>>
         /\ \A i \in Orders : /\ m.first[i] = NULL <=> Starts(m)[i] = <<>>
                              /\ m.last[i] = NULL <=> Starts(m)[i] = <<>>
PROOF
  <1> DEFINE h == [i \in Orders |-> CellsOf(m, i)]
  <1>1. MemType(m) /\ \A i \in Orders : ListIs(m, h[i], i) /\ h[i] = CellsOf(m, i)
    BY DEF Sound
  <1> HIDE DEF h
  <1>2. /\ \A c : c \in ListedCells(m) <=> \E i \in Orders : c \in Range(h[i])
        /\ Starts(m) = [i \in Orders |-> [j \in 1..Len(h[i]) |-> m.start[h[i][j]]]]
        /\ Starts(m) \in [Orders -> Seq(Nat)]
    BY <1>1, SoundBy
  <1>3. ASSUME NEW i \in Orders
        PROVE  /\ \A c \in Range(h[i]) : c \in Cells /\ c # NULL /\ c \in m.live /\ m.order[c] = i
               /\ m.first[i] = NULL <=> h[i] = <<>>
               /\ m.last[i] = NULL <=> h[i] = <<>>
               /\ Len(h[i]) \in Nat /\ (h[i] = <<>> <=> Len(h[i]) = 0)
    <2>1. ListIs(m, h[i], i)
      BY <1>1
    <2> QED
      BY <2>1, ListFacts
  <1>4. ASSUME NEW i \in Orders
        PROVE  /\ Starts(m)[i] = [j \in 1..Len(h[i]) |-> m.start[h[i][j]]]
               /\ Len(Starts(m)[i]) = Len(h[i])
               /\ h[i] = <<>> <=> Starts(m)[i] = <<>>
    <2>1. Starts(m)[i] = [j \in 1..Len(h[i]) |-> m.start[h[i][j]]] /\ Starts(m)[i] \in Seq(Nat)
      BY <1>2
    <2>2. Len(Starts(m)[i]) = Len(h[i])
      <3>1. DOMAIN Starts(m)[i] = 1..Len(h[i])
        BY <2>1
      <3> QED
        BY <1>3, <2>1, <3>1, LenProperties
    <2>3. Starts(m)[i] = <<>> <=> Len(Starts(m)[i]) = 0
      BY <2>1, EmptySeq
    <2> QED
      BY <1>3, <2>1, <2>2, <2>3
  <1>5. \A c \in ListedCells(m) : c \in Cells /\ c # NULL /\ c \in m.live
    BY <1>2, <1>3
  <1> QED
    BY <1>1, <1>2, <1>3, <1>4, <1>5

\* Memory in which the listed cells and the ends of the lists are as before.
LEMMA SoundKept ==
  ASSUME NEW m, Sound(m), NEW n, MemType(n), n.first = m.first, n.last = m.last,
         \A c \in ListedCells(m) : /\ c \in n.live /\ n.chunkPointer[c] = m.chunkPointer[c]
                                   /\ n.order[c] = m.order[c] /\ n.start[c] = m.start[c]
  PROVE  /\ Sound(n) /\ \A i \in Orders : CellsOf(n, i) = CellsOf(m, i)
         /\ ListedCells(n) = ListedCells(m) /\ Starts(n) = Starts(m)
PROOF
  <1> DEFINE h == [i \in Orders |-> CellsOf(m, i)]
  <1>1. /\ \A i \in Orders : ListIs(m, h[i], i) /\ h[i] = CellsOf(m, i)
        /\ \A i \in Orders : \A c \in Range(h[i]) : c \in ListedCells(m)
    BY SoundIs
  <1> HIDE DEF h
  <1>2. ASSUME NEW i \in Orders PROVE ListIs(n, h[i], i)
    <2>1. ListIs(m, h[i], i) /\ n.first[i] = m.first[i] /\ n.last[i] = m.last[i]
      BY <1>1
    <2>2. \A c \in Range(h[i]) : /\ n.chunkPointer[c] = m.chunkPointer[c] /\ n.order[c] = m.order[c]
                                 /\ c \in n.live
      BY <1>1
    <2> QED
      BY <2>1, <2>2, ListKept
  <1>3. /\ Sound(n) /\ \A i \in Orders : CellsOf(n, i) = h[i]
        /\ \A c : c \in ListedCells(n) <=> \E i \in Orders : c \in Range(h[i])
        /\ Starts(n) = [i \in Orders |-> [j \in 1..Len(h[i]) |-> n.start[h[i][j]]]]
    BY <1>2, SoundBy
  <1>4. /\ \A c : c \in ListedCells(m) <=> \E i \in Orders : c \in Range(h[i])
        /\ Starts(m) = [i \in Orders |-> [j \in 1..Len(h[i]) |-> m.start[h[i][j]]]]
    <2>1. MemType(m)
      BY SoundIs
    <2> QED
      BY <1>1, <2>1, SoundBy
  <1>5. ListedCells(n) = ListedCells(m)
    BY <1>3, <1>4
  <1>6. ASSUME NEW i \in Orders, NEW j \in 1..Len(h[i]) PROVE n.start[h[i][j]] = m.start[h[i][j]]
    <2>1. h[i][j] \in Range(h[i])
      BY <1>1, ListFacts
    <2> QED
      BY <1>1, <2>1
  <1>7. Starts(n) = Starts(m)
    BY <1>3, <1>4, <1>6
  <1> QED
    BY <1>1, <1>3, <1>5, <1>7

\* Memory in which one list has changed.
LEMMA OneListChanged ==
  ASSUME NEW m, Sound(m), NEW i \in Orders, NEW n, MemType(n), NEW u, ListIs(n, u, i),
         n.live = m.live, n.start = m.start, n.order = m.order,
         \A j \in Orders \ {i} : n.first[j] = m.first[j] /\ n.last[j] = m.last[j],
         \A d \in Cells \ Range(CellsOf(m, i)) : n.chunkPointer[d] = m.chunkPointer[d]
  PROVE  /\ Sound(n)
         /\ \A j \in Orders : CellsOf(n, j) = IF j = i THEN u ELSE CellsOf(m, j)
         /\ \A c : c \in ListedCells(n) <=>
                     c \in Range(u) \/ (c \in ListedCells(m) /\ c \notin Range(CellsOf(m, i)))
         /\ Starts(n) = [Starts(m) EXCEPT ![i] = [k \in 1..Len(u) |-> m.start[u[k]]]]
PROOF
  <1> DEFINE h == [j \in Orders |-> CellsOf(m, j)]
             g == [h EXCEPT ![i] = u]
  <1>1. /\ \A j \in Orders : ListIs(m, h[j], j)
        /\ \A c : c \in ListedCells(m) <=> \E j \in Orders : c \in Range(h[j])
        /\ Starts(m) \in [Orders -> Seq(Nat)]
        /\ \A j \in Orders : Starts(m)[j] = [k \in 1..Len(h[j]) |-> m.start[h[j][k]]]
    <2>1. \A j \in Orders : h[j] = CellsOf(m, j)
      OBVIOUS
    <2>2. /\ \A j \in Orders : ListIs(m, CellsOf(m, j), j)
          /\ \A c : c \in ListedCells(m) <=> \E j \in Orders : c \in Range(CellsOf(m, j))
          /\ Starts(m) \in [Orders -> Seq(Nat)]
          /\ \A j \in Orders : Starts(m)[j] = [k \in 1..Len(CellsOf(m, j)) |-> m.start[CellsOf(m, j)[k]]]
      BY SoundIs
    <2> HIDE DEF h
    <2> QED
      BY <2>1, <2>2
  <1>2. \A j \in Orders : g[j] = IF j = i THEN u ELSE h[j]
    OBVIOUS
  <1>3. h[i] = CellsOf(m, i) /\ \A j \in Orders : h[j] = CellsOf(m, j)
    OBVIOUS
  <1> HIDE DEF h, g
  <1>4. \A j \in Orders : \A c \in Range(h[j]) : c \in Cells /\ c \in m.live /\ m.order[c] = j
    <2> SUFFICES ASSUME NEW j \in Orders, NEW c \in Range(h[j])
                 PROVE  c \in Cells /\ c \in m.live /\ m.order[c] = j
      OBVIOUS
    <2>1. ListIs(m, h[j], j)
      BY <1>1
    <2> QED
      BY <2>1, ListFacts
  <1>5. ASSUME NEW j \in Orders PROVE ListIs(n, g[j], j)
    <2>1. CASE j = i
      BY <1>2, <2>1
    <2>2. CASE j # i
      <3>1. ListIs(m, h[j], j) /\ g[j] = h[j] /\ n.first[j] = m.first[j] /\ n.last[j] = m.last[j]
        BY <1>1, <1>2, <2>2
      <3>2. ASSUME NEW c \in Range(h[j])
            PROVE  /\ n.chunkPointer[c] = m.chunkPointer[c] /\ n.order[c] = m.order[c]
                   /\ c \in n.live
        <4>1. c \in Cells /\ c \in m.live /\ c \notin Range(h[i])
          BY <1>4, <2>2
        <4> QED
          BY <1>3, <4>1
      <3> QED
        BY <3>1, <3>2, ListKept
    <2> QED
      BY <2>1, <2>2
  <1>6. /\ Sound(n) /\ \A j \in Orders : CellsOf(n, j) = g[j]
        /\ \A c : c \in ListedCells(n) <=> \E j \in Orders : c \in Range(g[j])
        /\ Starts(n) = [j \in Orders |-> [k \in 1..Len(g[j]) |-> n.start[g[j][k]]]]
    BY <1>5, SoundBy
  <1>7. ASSUME NEW c
        PROVE  c \in ListedCells(n) <=>
                 c \in Range(u) \/ (c \in ListedCells(m) /\ c \notin Range(h[i]))
    <2>1. ASSUME NEW j \in Orders, c \in Range(h[j]), j # i PROVE c \notin Range(h[i])
      BY <1>4, <2>1
    <2>2. c \in ListedCells(m) <=> \E j \in Orders : c \in Range(h[j])
      BY <1>1
    <2>3. c \in ListedCells(n) <=> \E j \in Orders : c \in Range(g[j])
      BY <1>6
    <2> QED
      BY <1>2, <2>1, <2>2, <2>3
  <1>8. Starts(n) = [Starts(m) EXCEPT ![i] = [k \in 1..Len(u) |-> m.start[u[k]]]]
    <2> DEFINE v == Starts(m)
    <2>1. v \in [Orders -> Seq(Nat)] /\ \A j \in Orders : v[j] = [k \in 1..Len(h[j]) |-> m.start[h[j][k]]]
      BY <1>1
    <2>2. Starts(n) = [j \in Orders |-> [k \in 1..Len(g[j]) |-> m.start[g[j][k]]]]
      BY <1>6
    <2> HIDE DEF v
    <2>3. ASSUME NEW j \in Orders
          PROVE  [k \in 1..Len(g[j]) |-> m.start[g[j][k]]] =
                   IF j = i THEN [k \in 1..Len(u) |-> m.start[u[k]]] ELSE v[j]
      BY <1>2, <2>1
    <2>4. Starts(n) = [v EXCEPT ![i] = [k \in 1..Len(u) |-> m.start[u[k]]]]
      BY <2>1, <2>2, <2>3
    <2> QED
      BY <2>4 DEF v
  <1> QED
    BY <1>2, <1>3, <1>6, <1>7, <1>8

LEMMA InsertKeeps ==
  ASSUME NEW m, Sound(m), NEW i \in Orders, NEW c \in Cells,
         c \notin ListedCells(m), c \in m.live, m.order[c] = i, m.chunkPointer[c] = NULL
  PROVE  LET n == insertChunkList(m, c, i)
         IN /\ Sound(n) /\ ListedCells(n) = ListedCells(m) \cup {c}
            /\ n.live = m.live /\ n.start = m.start /\ n.order = m.order
            /\ Starts(n) = [Starts(m) EXCEPT ![i] = Append(@, m.start[c])]
            /\ \A d \in Cells \ ListedCells(m) : n.chunkPointer[d] = m.chunkPointer[d]
PROOF
  <1> DEFINE n == insertChunkList(m, c, i)
             s == CellsOf(m, i)
             u == Append(s, c)
  <1>1. /\ MemType(m) /\ ListIs(m, s, i)
        /\ \A d \in Range(s) : d \in ListedCells(m)
        /\ Starts(m) \in [Orders -> Seq(Nat)]
        /\ Starts(m)[i] = [j \in 1..Len(s) |-> m.start[s[j]]]
        /\ Len(Starts(m)[i]) = Len(s)
    BY SoundIs
  <1>2. /\ ListIs(n, u, i) /\ MemType(n)
        /\ n.live = m.live /\ n.start = m.start /\ n.order = m.order
        /\ \A j \in Orders \ {i} : n.first[j] = m.first[j] /\ n.last[j] = m.last[j]
        /\ \A d \in Cells \ Range(s) : n.chunkPointer[d] = m.chunkPointer[d]
    BY <1>1, ListInserted
  <1> HIDE DEF n
  <1>3. s \in Seq(Cells) /\ Len(s) \in Nat /\ \A d : d \in Range(s) <=> \E j \in 1..Len(s) : d = s[j]
    BY <1>1, ListFacts
  <1>4. u \in Seq(Cells) /\ Len(u) = Len(s) + 1 /\ u[Len(s) + 1] = c /\ \A j \in 1..Len(s) : u[j] = s[j]
    BY <1>3, AppendProperties
  <1>5. \A d : d \in Range(u) <=> \E j \in 1..Len(u) : d = u[j]
    <2>1. ListIs(n, u, i)
      BY <1>2
    <2> HIDE DEF u
    <2> QED
      BY <2>1, ListFacts
  <1> HIDE DEF u
  <1>6. /\ Sound(n)
        /\ \A d : d \in ListedCells(n) <=>
                    d \in Range(u) \/ (d \in ListedCells(m) /\ d \notin Range(s))
        /\ Starts(n) = [Starts(m) EXCEPT ![i] = [k \in 1..Len(u) |-> m.start[u[k]]]]
    BY <1>2, OneListChanged
  <1>7. \A d : d \in Range(u) <=> d \in Range(s) \/ d = c
    <2>1. Len(s) + 1 \in 1..Len(u) /\ \A j \in 1..Len(s) : j \in 1..Len(u)
      BY <1>3, <1>4
    <2>2. \A j \in 1..Len(u) : j \in 1..Len(s) \/ j = Len(s) + 1
      BY <1>3, <1>4
    <2> QED
      BY <1>3, <1>4, <1>5, <2>1, <2>2
  <1>8. ListedCells(n) = ListedCells(m) \cup {c}
    BY <1>1, <1>6, <1>7
  <1>9. [k \in 1..Len(u) |-> m.start[u[k]]] = Append(Starts(m)[i], m.start[c])
    <2> DEFINE v == Starts(m)[i]
    <2>1. v \in Seq(Nat) /\ m.start[c] \in Nat /\ Len(v) = Len(s)
          /\ \A j \in 1..Len(s) : v[j] = m.start[s[j]]
      BY <1>1 DEF MemType
    <2> HIDE DEF v
    <2>2. /\ Append(v, m.start[c]) \in Seq(Nat) /\ Len(Append(v, m.start[c])) = Len(s) + 1
          /\ \A j \in 1..Len(s) : Append(v, m.start[c])[j] = m.start[s[j]]
          /\ Append(v, m.start[c])[Len(s) + 1] = m.start[c]
      BY <2>1, AppendProperties
    <2> DEFINE w == Append(v, m.start[c])
    <2>3. w = [k \in 1..Len(w) |-> w[k]]
      BY <2>2
    <2>4. \A k \in 1..Len(u) : w[k] = m.start[u[k]]
      <3>1. \A k \in 1..Len(u) : k \in 1..Len(s) \/ k = Len(s) + 1
        BY <1>3, <1>4
      <3> QED
        BY <1>4, <2>2, <3>1
    <2>5. Len(w) = Len(u)
      BY <1>4, <2>2
    <2> HIDE DEF w
    <2>6. w = [k \in 1..Len(u) |-> m.start[u[k]]]
      BY <2>3, <2>4, <2>5
    <2> QED
      BY <2>6 DEF v, w
  <1>10. \A d \in Cells \ ListedCells(m) : n.chunkPointer[d] = m.chunkPointer[d]
    BY <1>1, <1>2
  <1> QED
    BY <1>1, <1>2, <1>6, <1>8, <1>9, <1>10 DEF n

LEMMA RemoveKeeps ==
  ASSUME NEW m, Sound(m), NEW i \in Orders, Starts(m)[i] # <<>>
  PROVE  LET n == removeChunkList(m, i)
             c == m.first[i]
         IN /\ Sound(n) /\ ListedCells(n) = ListedCells(m) \ {c}
            /\ n.live = m.live /\ n.start = m.start /\ n.order = m.order
            /\ n.chunkPointer = m.chunkPointer
            /\ Starts(n) = [Starts(m) EXCEPT ![i] = Tail(@)]
            /\ c \in Cells /\ c \in ListedCells(m) /\ c \in m.live /\ m.order[c] = i
            /\ m.start[c] = Head(Starts(m)[i])
PROOF
  <1> DEFINE n == removeChunkList(m, i)
             c == m.first[i]
             s == CellsOf(m, i)
             u == Tail(s)
             v == Starts(m)[i]
  <1>1. /\ MemType(m) /\ ListIs(m, s, i) /\ s # <<>>
        /\ \A d \in Range(s) : d \in ListedCells(m)
        /\ Starts(m) \in [Orders -> Seq(Nat)]
        /\ v = [j \in 1..Len(s) |-> m.start[s[j]]]
        /\ Len(v) = Len(s)
    BY SoundIs
  <1>2. /\ ListIs(n, u, i) /\ MemType(n)
        /\ n.live = m.live /\ n.start = m.start /\ n.order = m.order
        /\ n.chunkPointer = m.chunkPointer
        /\ \A j \in Orders \ {i} : n.first[j] = m.first[j] /\ n.last[j] = m.last[j]
    BY <1>1, ListRemoved
  <1> HIDE DEF n
  <1>3. /\ s \in Seq(Cells) /\ Len(s) \in Nat \ {0} /\ \A d : d \in Range(s) <=> \E j \in 1..Len(s) : d = s[j]
        /\ \A j, k \in 1..Len(s) : s[j] = s[k] => j = k
        /\ c = s[1] /\ \A j \in 1..Len(s) : s[j] \in Cells /\ s[j] \in m.live /\ m.order[s[j]] = i
    BY <1>1, ListFacts
  <1>4. /\ u \in Seq(Cells) /\ Len(u) = Len(s) - 1
        /\ \A j \in 1..(Len(s) - 1) : u[j] = s[j + 1]
    BY <1>1, <1>3, HeadTailProperties
  <1>5. \A d : d \in Range(u) <=> \E j \in 1..Len(u) : d = u[j]
    <2>1. ListIs(n, u, i)
      BY <1>2
    <2> HIDE DEF u
    <2> QED
      BY <2>1, ListFacts
  <1>6. v \in Seq(Nat) /\ v # <<>> /\ \A j \in 1..Len(s) : v[j] = m.start[s[j]]
    BY <1>1
  <1>7. Head(v) = v[1] /\ Tail(v) \in Seq(Nat) /\ Len(Tail(v)) = Len(s) - 1
        /\ \A j \in 1..(Len(s) - 1) : Tail(v)[j] = v[j + 1]
    BY <1>1, <1>3, <1>6, HeadTailProperties
  <1> HIDE DEF u, v, c, s
  <1>8. /\ Sound(n)
        /\ \A d : d \in ListedCells(n) <=>
                    d \in Range(u) \/ (d \in ListedCells(m) /\ d \notin Range(s))
        /\ Starts(n) = [Starts(m) EXCEPT ![i] = [k \in 1..Len(u) |-> m.start[u[k]]]]
    BY <1>2, OneListChanged DEF s
  <1>9. 1 \in 1..Len(s)
    BY <1>3
  <1>10. c \in Range(s) /\ c \in Cells /\ c \in m.live /\ m.order[c] = i /\ m.start[c] = Head(v)
    BY <1>3, <1>6, <1>7, <1>9
  <1>11. \A d : d \in Range(u) <=> d \in Range(s) /\ d # c
    <2>1. ASSUME NEW d, d \in Range(u) PROVE d \in Range(s) /\ d # c
      <3>1. PICK j \in 1..(Len(s) - 1) : d = s[j + 1]
        BY <1>4, <1>5, <2>1
      <3>2. j + 1 \in 1..Len(s) /\ j + 1 # 1
        BY <1>3, <3>1
      <3> QED
        BY <1>3, <1>9, <3>1, <3>2
    <2>2. ASSUME NEW d, d \in Range(s), d # c PROVE d \in Range(u)
      <3>1. PICK j \in 1..Len(s) : d = s[j]
        BY <1>3, <2>2
      <3>2. j # 1
        BY <1>3, <2>2, <3>1
      <3>3. j - 1 \in 1..(Len(s) - 1) /\ (j - 1) + 1 = j
        BY <1>3, <3>1, <3>2
      <3>4. u[j - 1] = d
        BY <1>4, <3>1, <3>3
      <3> QED
        BY <1>4, <1>5, <3>3, <3>4
    <2> QED
      BY <2>1, <2>2
  <1>12. ListedCells(n) = ListedCells(m) \ {c}
    BY <1>1, <1>8, <1>10, <1>11
  <1>13. [k \in 1..Len(u) |-> m.start[u[k]]] = Tail(v)
    <2> DEFINE w == Tail(v)
    <2>1. w = [k \in 1..Len(w) |-> w[k]]
      <3>1. w \in Seq(Nat)
        BY <1>7
      <3> HIDE DEF w
      <3> QED
        BY <3>1
    <2>2. \A k \in 1..(Len(s) - 1) : k \in 1..Len(s) /\ k + 1 \in 1..Len(s)
      BY <1>3
    <2>3. \A k \in 1..(Len(s) - 1) : w[k] = m.start[u[k]]
      BY <1>4, <1>6, <1>7, <2>2
    <2>4. Len(w) = Len(u) /\ Len(w) = Len(s) - 1
      BY <1>4, <1>7
    <2> HIDE DEF w
    <2>5. w = [k \in 1..Len(u) |-> m.start[u[k]]]
      BY <2>1, <2>3, <2>4
    <2> QED
      BY <2>5 DEF w
  <1> QED
    BY <1>1, <1>2, <1>8, <1>10, <1>12, <1>13 DEF n, c, v

LEMMA RemovePlace ==
  ASSUME NEW v, IsList(v), NEW at \in 1..Len(v)
  PROVE  RemoveFirst(v, v[at]) = RemoveAt(v, at)
PROOF
  <1> DEFINE e == v[at]
  <1>1. v \in Seq(Nat) /\ Len(v) \in Nat /\ Contains(v, e)
    BY LenProperties DEF IsList, Contains
  <1>2. PICK n \in 1..Len(v) : RemoveFirst(v, e) = RemoveAt(v, n)
    BY <1>1, RemoveFromList
  <1>3. ~Contains(RemoveAt(v, n), e)
    BY <1>1, <1>2, RemoveFromList
  <1>4. /\ Len(RemoveAt(v, n)) = Len(v) - 1
        /\ \A j \in 1..(Len(v) - 1) : RemoveAt(v, n)[j] = IF j < n THEN v[j] ELSE v[j + 1]
    BY <1>1, RemoveAtPlace
  <1>5. \A j \in 1..(Len(v) - 1) : RemoveAt(v, n)[j] # e
    BY <1>3, <1>4 DEF Contains
  <1>6. ~(at < n)
    <2> SUFFICES ASSUME at < n PROVE FALSE
      OBVIOUS
    <2>1. at \in 1..(Len(v) - 1)
      BY <1>1
    <2> QED
      BY <1>4, <1>5, <2>1
  <1>7. ~(n < at)
    <2> SUFFICES ASSUME n < at PROVE FALSE
      OBVIOUS
    <2>1. at - 1 \in 1..(Len(v) - 1) /\ ~(at - 1 < n) /\ (at - 1) + 1 = at
      BY <1>1
    <2>2. RemoveAt(v, n)[at - 1] = v[at]
      BY <1>4, <2>1
    <2> QED
      BY <1>5, <2>1, <2>2
  <1>8. n = at
    BY <1>1, <1>6, <1>7
  <1> QED
    BY <1>2, <1>8

LEMMA UnlinkKeeps ==
  ASSUME NEW m, Sound(m), NEW i \in Orders, IsInjective(Starts(m)[i]),
         NEW at \in 1..Len(CellsOf(m, i))
  PROVE  LET c == CellsOf(m, i)[at]
             n == Unlink(m, c, IF at = 1 THEN NULL ELSE CellsOf(m, i)[at - 1], i)
         IN /\ Sound(n) /\ ListedCells(n) = ListedCells(m) \ {c}
            /\ n.live = m.live /\ n.start = m.start /\ n.order = m.order
            /\ Starts(n) = [Starts(m) EXCEPT ![i] = RemoveFirst(@, m.start[c])]
            /\ c \in Cells /\ c \in ListedCells(m) /\ c \in m.live
            /\ \A d \in Cells \ ListedCells(m) : n.chunkPointer[d] = m.chunkPointer[d]
PROOF
  <1> DEFINE s == CellsOf(m, i)
             c == s[at]
             n == Unlink(m, c, IF at = 1 THEN NULL ELSE s[at - 1], i)
             u == RemoveAt(s, at)
             v == Starts(m)[i]
             w == RemoveAt(v, at)
  <1>1. /\ MemType(m) /\ ListIs(m, s, i)
        /\ \A d \in Range(s) : d \in ListedCells(m)
        /\ Starts(m) \in [Orders -> Seq(Nat)]
        /\ v = [j \in 1..Len(s) |-> m.start[s[j]]]
        /\ Len(v) = Len(s)
    BY SoundIs
  <1>2. /\ ListIs(n, u, i) /\ MemType(n)
        /\ n.live = m.live /\ n.start = m.start /\ n.order = m.order
        /\ \A j \in Orders \ {i} : n.first[j] = m.first[j] /\ n.last[j] = m.last[j]
        /\ \A d \in Cells \ Range(s) : n.chunkPointer[d] = m.chunkPointer[d]
    BY <1>1, ListUnlinked
  <1> HIDE DEF n
  <1>3. /\ s \in Seq(Cells) /\ Len(s) \in Nat /\ \A d : d \in Range(s) <=> \E j \in 1..Len(s) : d = s[j]
        /\ \A j, k \in 1..Len(s) : s[j] = s[k] => j = k
        /\ \A j \in 1..Len(s) : s[j] \in Cells /\ s[j] \in m.live
    BY <1>1, ListFacts
  <1>4. /\ u \in Seq(Cells) /\ Len(u) = Len(s) - 1
        /\ \A j \in 1..(Len(s) - 1) : u[j] = IF j < at THEN s[j] ELSE s[j + 1]
    <2>1. s \in Seq(Cells)
      BY <1>3
    <2> QED
      BY <2>1, RemoveAtPlace
  <1>5. \A d : d \in Range(u) <=> \E j \in 1..Len(u) : d = u[j]
    <2>1. ListIs(n, u, i)
      BY <1>2
    <2> HIDE DEF u
    <2> QED
      BY <2>1, ListFacts
  <1>6. v \in Seq(Nat) /\ IsList(v) /\ \A j \in 1..Len(s) : v[j] = m.start[s[j]]
    BY <1>1 DEF IsList
  <1>7. /\ w \in Seq(Nat) /\ Len(w) = Len(s) - 1
        /\ \A j \in 1..(Len(s) - 1) : w[j] = IF j < at THEN v[j] ELSE v[j + 1]
    <2>1. v \in Seq(Nat) /\ Len(v) = Len(s) /\ at \in 1..Len(v)
      BY <1>1, <1>6
    <2> HIDE DEF v, s
    <2> QED
      BY <2>1, RemoveAtPlace
  <1>8. RemoveFirst(v, m.start[c]) = w
    <2>1. IsList(v) /\ at \in 1..Len(v) /\ v[at] = m.start[c]
      BY <1>1, <1>6
    <2>2. RemoveFirst(v, v[at]) = RemoveAt(v, at)
      <3> HIDE DEF v
      <3> QED
        BY <2>1, RemovePlace
    <2> QED
      BY <2>1, <2>2
  <1> HIDE DEF u, v, w, s
  <1>9. /\ Sound(n)
        /\ \A d : d \in ListedCells(n) <=>
                    d \in Range(u) \/ (d \in ListedCells(m) /\ d \notin Range(s))
        /\ Starts(n) = [Starts(m) EXCEPT ![i] = [k \in 1..Len(u) |-> m.start[u[k]]]]
    BY <1>2, OneListChanged DEF s
  <1>10. at \in 1..Len(s) /\ c \in Range(s) /\ c \in Cells /\ c \in m.live
    BY <1>3 DEF s
  <1>11. \A d : d \in Range(u) <=> d \in Range(s) /\ d # c
    <2>1. ASSUME NEW d, d \in Range(u) PROVE d \in Range(s) /\ d # c
      <3>1. PICK j \in 1..(Len(s) - 1) : d = u[j]
        BY <1>4, <1>5, <2>1
      <3> DEFINE k == IF j < at THEN j ELSE j + 1
      <3>2. k \in 1..Len(s) /\ k # at
        BY <1>3, <1>10, <3>1
      <3>3. d = s[k]
        BY <1>4, <3>1
      <3> HIDE DEF k
      <3> QED
        BY <1>3, <1>10, <3>2, <3>3
    <2>2. ASSUME NEW d, d \in Range(s), d # c PROVE d \in Range(u)
      <3>1. PICK k \in 1..Len(s) : d = s[k]
        BY <1>3, <2>2
      <3>2. k # at
        BY <2>2, <3>1
      <3> DEFINE j == IF k < at THEN k ELSE k - 1
      <3>3. j \in 1..(Len(s) - 1) /\ (IF j < at THEN j ELSE j + 1) = k
        BY <1>3, <1>10, <3>1, <3>2
      <3> HIDE DEF j
      <3>4. u[j] = d
        BY <1>4, <3>1, <3>3
      <3> QED
        BY <1>4, <1>5, <3>3, <3>4
    <2> QED
      BY <2>1, <2>2
  <1>12. ListedCells(n) = ListedCells(m) \ {c}
    BY <1>1, <1>9, <1>10, <1>11
  <1>13. [k \in 1..Len(u) |-> m.start[u[k]]] = w
    <2>1. w = [k \in 1..Len(w) |-> w[k]]
      <3>1. w \in Seq(Nat)
        BY <1>7
      <3> QED
        BY <3>1
    <2>2. \A k \in 1..(Len(s) - 1) : k \in 1..Len(s) /\ k + 1 \in 1..Len(s)
      BY <1>3
    <2>3. \A k \in 1..(Len(s) - 1) : w[k] = m.start[u[k]]
      BY <1>4, <1>6, <1>7, <2>2
    <2>4. Len(w) = Len(u) /\ Len(w) = Len(s) - 1
      BY <1>4, <1>7
    <2> QED
      BY <2>1, <2>3, <2>4
  <1>14. \A d \in Cells \ ListedCells(m) : n.chunkPointer[d] = m.chunkPointer[d]
    BY <1>1, <1>2
  <1>15. Starts(n) = [Starts(m) EXCEPT ![i] = RemoveFirst(v, m.start[c])]
    BY <1>8, <1>9, <1>13
  <1> QED
    BY <1>1, <1>2, <1>9, <1>10, <1>12, <1>14, <1>15 DEF n, v, s

\* malloc and free.
LEMMA MallocKeeps ==
  ASSUME NEW m, Sound(m), Cardinality(Cells \ m.live) >= 1, NEW p \in Nat, NEW o \in Nat
  PROVE  LET c == Fresh(m)
             n == NewChunk(m, p, o)
         IN /\ c \in Cells /\ c # NULL /\ c \notin m.live /\ c \notin ListedCells(m)
            /\ Sound(n) /\ ListedCells(n) = ListedCells(m) /\ Starts(n) = Starts(m)
            /\ \A i \in Orders : CellsOf(n, i) = CellsOf(m, i)
            /\ n.live = m.live \cup {c}
            /\ n.start[c] = p /\ n.order[c] = o /\ n.chunkPointer[c] = NULL
            /\ \A d \in Cells \ {c} : /\ n.start[d] = m.start[d] /\ n.order[d] = m.order[d]
                                      /\ n.chunkPointer[d] = m.chunkPointer[d]
PROOF
  <1> DEFINE c == Fresh(m)
             n == NewChunk(m, p, o)
  <1>1. MemType(m) /\ \A d \in ListedCells(m) : d \in Cells /\ d \in m.live
    BY SoundIs
  <1>2. c \in Cells /\ c \notin m.live
    <2>1. \E d \in Cells : d \notin m.live
      <3> SUFFICES ASSUME ~(\E d \in Cells : d \notin m.live) PROVE FALSE
        OBVIOUS
      <3>1. Cells \ m.live = {}
        OBVIOUS
      <3>2. Cardinality(Cells \ m.live) = 0
        BY <3>1, FS_EmptySet
      <3> QED
        BY <3>2
    <2> QED
      BY <2>1, Zenon DEF Fresh
  <1>3. c # NULL /\ c \notin ListedCells(m) /\ NULL \in CellOrNull
    BY <1>1, <1>2, BuddyHeapAssumption DEF CellOrNull
  <1>4. n = [m EXCEPT !.live = @ \cup {c}, !.start[c] = p, !.order[c] = o, !.chunkPointer[c] = NULL]
    BY DEF NewChunk
  <1> HIDE DEF c, n
  <1>5. n = [live |-> m.live \cup {c}, start |-> [m.start EXCEPT ![c] = p],
             order |-> [m.order EXCEPT ![c] = o], chunkPointer |-> [m.chunkPointer EXCEPT ![c] = NULL],
             first |-> m.first, last |-> m.last]
    BY <1>1, <1>4 DEF MemType
  <1>6. /\ MemType(n) /\ n.first = m.first /\ n.last = m.last /\ n.live = m.live \cup {c}
        /\ n.start = [m.start EXCEPT ![c] = p] /\ n.order = [m.order EXCEPT ![c] = o]
        /\ n.chunkPointer = [m.chunkPointer EXCEPT ![c] = NULL]
    BY <1>1, <1>2, <1>3, <1>5 DEF MemType
  <1>7. /\ n.start[c] = p /\ n.order[c] = o /\ n.chunkPointer[c] = NULL
        /\ \A d \in Cells \ {c} : /\ n.start[d] = m.start[d] /\ n.order[d] = m.order[d]
                                  /\ n.chunkPointer[d] = m.chunkPointer[d]
    BY <1>1, <1>2, <1>6 DEF MemType
  <1>8. \A d \in ListedCells(m) : /\ d \in n.live /\ n.chunkPointer[d] = m.chunkPointer[d]
                                  /\ n.order[d] = m.order[d] /\ n.start[d] = m.start[d]
    BY <1>1, <1>3, <1>6, <1>7
  <1>9. /\ Sound(n) /\ \A i \in Orders : CellsOf(n, i) = CellsOf(m, i)
        /\ ListedCells(n) = ListedCells(m) /\ Starts(n) = Starts(m)
    BY <1>6, <1>8, SoundKept
  <1> QED
    BY <1>2, <1>3, <1>6, <1>7, <1>9 DEF c, n

LEMMA FreeCellKeeps ==
  ASSUME NEW m, Sound(m), NEW c \in Cells, c \notin ListedCells(m)
  PROVE  LET n == FreeChunk(m, c)
         IN /\ Sound(n) /\ ListedCells(n) = ListedCells(m) /\ Starts(n) = Starts(m)
            /\ \A i \in Orders : CellsOf(n, i) = CellsOf(m, i)
            /\ n.live = m.live \ {c}
            /\ \A d \in Cells \ {c} : /\ n.start[d] = m.start[d] /\ n.order[d] = m.order[d]
                                      /\ n.chunkPointer[d] = m.chunkPointer[d]
PROOF
  <1> DEFINE n == FreeChunk(m, c)
  <1>1. MemType(m) /\ \A d \in ListedCells(m) : d \in Cells /\ d \in m.live
    BY SoundIs
  <1>2. NULL \in CellOrNull
    BY DEF CellOrNull
  <1>3. n = [m EXCEPT !.live = @ \ {c}, !.start[c] = 0, !.order[c] = 0, !.chunkPointer[c] = NULL]
    BY DEF FreeChunk
  <1> HIDE DEF n
  <1>4. n = [live |-> m.live \ {c}, start |-> [m.start EXCEPT ![c] = 0],
             order |-> [m.order EXCEPT ![c] = 0], chunkPointer |-> [m.chunkPointer EXCEPT ![c] = NULL],
             first |-> m.first, last |-> m.last]
    BY <1>1, <1>3 DEF MemType
  <1>5. /\ MemType(n) /\ n.first = m.first /\ n.last = m.last /\ n.live = m.live \ {c}
        /\ n.start = [m.start EXCEPT ![c] = 0] /\ n.order = [m.order EXCEPT ![c] = 0]
        /\ n.chunkPointer = [m.chunkPointer EXCEPT ![c] = NULL]
    BY <1>1, <1>2, <1>4 DEF MemType
  <1>6. \A d \in Cells \ {c} : /\ n.start[d] = m.start[d] /\ n.order[d] = m.order[d]
                               /\ n.chunkPointer[d] = m.chunkPointer[d]
    BY <1>1, <1>5 DEF MemType
  <1>7. \A d \in ListedCells(m) : /\ d \in n.live /\ n.chunkPointer[d] = m.chunkPointer[d]
                                  /\ n.order[d] = m.order[d] /\ n.start[d] = m.start[d]
    BY <1>1, <1>5, <1>6
  <1>8. /\ Sound(n) /\ \A i \in Orders : CellsOf(n, i) = CellsOf(m, i)
        /\ ListedCells(n) = ListedCells(m) /\ Starts(n) = Starts(m)
    BY <1>5, <1>7, SoundKept
  <1> QED
    BY <1>5, <1>6, <1>8 DEF n

-----------------------------------------------------------------------------
(* The rounds of a split and of a merge.                                   *)

LEMMA SplitGoes ==
  ASSUME BuddyInv, NEW order \in Orders, chunks[order] = <<>>, HigherOrders(order) # {}
  PROVE  LET high == highOrder(order)
             page == Head(chunks[high])
         IN /\ alloc_result(order) = 0
            /\ high \in Orders /\ order < high /\ chunks[high] # <<>> /\ page \in Nat
            /\ high = Min(HigherOrders(order))
            /\ SplitTo(order, high) = [chunks EXCEPT ![high] = Tail(@)]
            /\ \A lev \in Orders : order < lev /\ lev <= high =>
                 /\ lev - 1 \in Orders
                 /\ SplitTo(order, lev - 1) =
                      [SplitTo(order, lev) EXCEPT ![lev - 1] = Append(@, page + 2^(lev - 1))]
            /\ SplitTo(order, order) = Split(order)
PROOF
  <1> DEFINE high == highOrder(order)
             page == Head(chunks[high])
  <1>1. alloc_result(order) = 0
    BY OrdersAre DEF alloc_result
  <1>2. high \in Orders /\ order <= high /\ chunks[high] # <<>> /\ page \in Nat
    BY <1>1, Taken
  <1>3. high = Min(HigherOrders(order))
    BY DEF highOrder
  <1>4. chunks \in [Orders -> Seq(Nat)] /\ order \in Nat /\ high \in Nat
    BY <1>2, OrdersAre DEF BuddyInv, TypeInv
  <1>5. SplitTo(order, order) = Split(order)
    BY DEF SplitTo, Split
  <1>6. \A lev : SplitTo(order, lev) =
          [i \in Orders |->
             IF i = high THEN Tail(chunks[i])
             ELSE IF i \in lev..(high - 1) THEN Append(chunks[i], page + 2^i)
             ELSE chunks[i]]
    BY DEF SplitTo
  <1> HIDE DEF high, page
  <1>7. order < high
    BY <1>2, <1>4
  <1>8. SplitTo(order, high) = [chunks EXCEPT ![high] = Tail(@)]
    <2>1. \A i \in Orders : i \notin high..(high - 1)
      BY <1>4, OrdersAre
    <2> QED
      BY <1>2, <1>4, <1>6, <2>1
  <1>9. ASSUME NEW lev \in Orders, order < lev, lev <= high
        PROVE  /\ lev - 1 \in Orders
               /\ SplitTo(order, lev - 1) =
                    [SplitTo(order, lev) EXCEPT ![lev - 1] = Append(@, page + 2^(lev - 1))]
    <2> DEFINE low == lev - 1
    <2>1. lev \in Nat /\ low \in Orders /\ low # high
      BY <1>4, <1>9, OrdersAre DEF Orders
    <2>2. \A i \in Orders : i \in low..(high - 1) <=> i = low \/ i \in lev..(high - 1)
      BY <1>4, <1>9, <2>1, OrdersAre
    <2>3. low \notin lev..(high - 1)
      BY <1>4, <2>1
    <2> DEFINE T == SplitTo(order, lev)
    <2>4. /\ T[low] = chunks[low]
          /\ T = [i \in Orders |->
                    IF i = high THEN Tail(chunks[i])
                    ELSE IF i \in lev..(high - 1) THEN Append(chunks[i], page + 2^i)
                    ELSE chunks[i]]
      BY <1>6, <2>1, <2>3
    <2>5. SplitTo(order, low) =
            [i \in Orders |->
               IF i = high THEN Tail(chunks[i])
               ELSE IF i \in low..(high - 1) THEN Append(chunks[i], page + 2^i)
               ELSE chunks[i]]
      BY <1>6
    <2> HIDE DEF low, T
    <2>6. SplitTo(order, low) = [T EXCEPT ![low] = Append(@, page + 2^low)]
      BY <2>1, <2>2, <2>3, <2>4, <2>5
    <2> QED
      BY <2>1, <2>6 DEF low, T
  <1> QED
    BY <1>1, <1>2, <1>3, <1>5, <1>7, <1>8, <1>9 DEF high, page

LEMMA MergeGoes ==
  ASSUME BuddyInv, NEW op \in ops
  PROVE  LET p == op.page
             o == op.order
             b(i) == BuddyOf(StartAt(p, i), i)
         IN /\ p \in Nat /\ o \in Orders /\ StartAt(p, o) = p
            /\ MergedTo(op, o) = chunks
            /\ \A lev \in Orders : o <= lev =>
                 /\ MergedTo(op, lev)[lev] = chunks[lev] /\ IsInjective(chunks[lev])
                 /\ StartAt(p, lev) \in Nat
                 /\ MergedTo(op, lev + 1) = [MergedTo(op, lev) EXCEPT ![lev] = RemoveFirst(@, b(lev))]
                 /\ StartAt(p, lev + 1) = IF StartAt(p, lev) < b(lev) THEN StartAt(p, lev) ELSE b(lev)
                 /\ (\A i \in o..(lev - 1) : MergesAt(p, i)) /\ ~MergesAt(p, lev) =>
                      Merge(p, o) = [MergedTo(op, lev) EXCEPT ![lev] = Append(@, StartAt(p, lev))]
PROOF
  <1> DEFINE p == op.page
             o == op.order
             b(i) == BuddyOf(StartAt(p, i), i)
  <1>1. p \in Nat /\ o \in Orders /\ Around(p, o) = op /\ o \in Nat
    BY Merged, OrdersAre
  <1>2. StartAt(p, o) = p
    BY <1>1 DEF Around, Chunk
  <1>3. chunks \in [Orders -> Seq(Nat)] /\ \A i \in Orders : IsInjective(chunks[i])
    BY DEF BuddyInv, TypeInv, Partition
  <1>4. \A lev : MergedTo(op, lev) =
          [i \in Orders |-> IF i \in o..(lev - 1) THEN RemoveFirst(chunks[i], b(i)) ELSE chunks[i]]
    BY DEF MergedTo
  <1>5. MergedTo(op, o) = chunks
    <2>1. \A i \in Orders : i \notin o..(o - 1)
      BY <1>1, OrdersAre
    <2> HIDE DEF o
    <2> QED
      BY <1>3, <1>4, <2>1
  <1>6. ASSUME NEW lev \in Orders, o <= lev
        PROVE  /\ MergedTo(op, lev)[lev] = chunks[lev]
               /\ MergedTo(op, lev + 1) = [MergedTo(op, lev) EXCEPT ![lev] = RemoveFirst(@, b(lev))]
    <2> DEFINE T == MergedTo(op, lev)
    <2>1. lev \in Nat /\ lev \notin o..(lev - 1)
      BY OrdersAre
    <2>2. \A i \in Orders : i \in o..((lev + 1) - 1) <=> i = lev \/ i \in o..(lev - 1)
      BY <1>1, <1>6, <2>1, OrdersAre
    <2>3. /\ T = [i \in Orders |-> IF i \in o..(lev - 1) THEN RemoveFirst(chunks[i], b(i)) ELSE chunks[i]]
          /\ T[lev] = chunks[lev]
      BY <1>4, <2>1
    <2>4. MergedTo(op, lev + 1) =
            [i \in Orders |-> IF i \in o..((lev + 1) - 1) THEN RemoveFirst(chunks[i], b(i)) ELSE chunks[i]]
      BY <1>4
    <2> HIDE DEF T, b, o
    <2>5. MergedTo(op, lev + 1) = [T EXCEPT ![lev] = RemoveFirst(@, b(lev))]
      BY <2>1, <2>2, <2>3, <2>4
    <2> QED
      BY <2>3, <2>5 DEF T
  <1>7. ASSUME NEW lev \in Orders
        PROVE  /\ StartAt(p, lev) \in Nat
               /\ StartAt(p, lev + 1) = IF StartAt(p, lev) < b(lev) THEN StartAt(p, lev) ELSE b(lev)
    <2> DEFINE s == StartAt(p, lev)
               t == StartAt(p, lev + 1)
               m == 2^lev
    <2>1. lev \in Nat /\ m \in Nat \ {0}
      BY OrdersAre, PowerNat
    <2>2. IsAligned(s, lev) /\ StartAt(s, lev + 1) = t
      BY <1>1, <2>1, StartIs, StartStep
    <2>3. t \in Nat
      <3>1. lev + 1 \in Nat /\ p \in Nat
        BY <1>1, <2>1
      <3>2. IsAligned(StartAt(p, lev + 1), lev + 1)
        <4> HIDE DEF p
        <4> QED
          BY <3>1, StartIs
      <3> QED
        BY <3>2 DEF IsAligned
    <2>4. (s = t /\ b(lev) = t + m) \/ (s = t + m /\ b(lev) = t)
      <3> HIDE DEF s, t
      <3>1. LET c == BuddyOf(s, lev)
            IN (s = t /\ c = t + 2^lev) \/ (s = t + 2^lev /\ c = t)
        BY <2>1, <2>2, BuddyHalves
      <3> QED
        BY <3>1 DEF s
    <2> HIDE DEF s, t, m, b
    <2>5. t = IF s < b(lev) THEN s ELSE b(lev)
      BY <2>1, <2>3, <2>4
    <2> QED
      BY <2>2, <2>5 DEF s, t, IsAligned
  <1>8. ASSUME NEW lev \in Orders, o <= lev, \A i \in o..(lev - 1) : MergesAt(p, i), ~MergesAt(p, lev)
        PROVE  Merge(p, o) = [MergedTo(op, lev) EXCEPT ![lev] = Append(@, StartAt(p, lev))]
    <2> DEFINE S == {i \in o..MAX_ORDER : ~MergesAt(p, i)}
    <2>1. lev \in o..MAX_ORDER /\ lev \in Nat
      BY <1>1, <1>8, OrdersAre
    <2>2. S \subseteq Nat /\ lev \in S
      BY <1>1, <1>8, <2>1
    <2>3. Min(S) \in S /\ Min(S) <= lev
      <3> HIDE DEF S
      <3> QED
        BY <2>2, MinIsLeast
    <2>4. Min(S) = lev
      <3> DEFINE top == Min(S)
      <3>1. top \in o..MAX_ORDER /\ ~MergesAt(p, top) /\ top <= lev
        BY <2>3
      <3> HIDE DEF top
      <3>2. ~(top \in o..(lev - 1))
        BY <1>8, <3>1
      <3>3. top = lev
        BY <1>1, <2>1, <3>1, <3>2
      <3> QED
        BY <3>3 DEF top
    <2>5. MergedOrder(p, o) = lev
      BY <2>4 DEF MergedOrder
    <2>6. Merge(p, o) =
            [i \in Orders |->
               IF i \in o..(lev - 1) THEN RemoveFirst(chunks[i], b(i))
               ELSE IF i = lev THEN Append(chunks[i], StartAt(p, i))
               ELSE chunks[i]]
      BY <2>5 DEF Merge
    <2> DEFINE T == MergedTo(op, lev)
    <2>7. /\ T = [i \in Orders |-> IF i \in o..(lev - 1) THEN RemoveFirst(chunks[i], b(i)) ELSE chunks[i]]
          /\ lev \notin o..(lev - 1) /\ T[lev] = chunks[lev]
      BY <1>4, <1>6, <1>8, <2>1
    <2> HIDE DEF T, b, o, p
    <2>8. Merge(p, o) = [T EXCEPT ![lev] = Append(@, StartAt(p, lev))]
      BY <2>6, <2>7
    <2> QED
      BY <2>8 DEF T
  <1> QED
    BY <1>1, <1>2, <1>3, <1>5, <1>6, <1>7, <1>8

-----------------------------------------------------------------------------
(* The steps.                                                              *)

LEMMA HeapInitInv == HeapInit => HeapInv
PROOF
  <1> SUFFICES ASSUME HeapInit PROVE HeapInv
    OBVIOUS
  <1> DEFINE h == [i \in Orders |-> <<>>]
  <1>1. /\ mem = [live |-> {},
                  start |-> [c \in Cells |-> 0], order |-> [c \in Cells |-> 0],
                  chunkPointer |-> [c \in Cells |-> NULL],
                  first |-> [i \in Orders |-> NULL], last |-> [i \in Orders |-> NULL]]
        /\ records = {} /\ pc = "init" /\ asked = 0 /\ cp = NULL /\ level = 0
        /\ Init
    BY DEF HeapInit
  <1>2. MemType(mem)
    BY <1>1 DEF MemType, CellOrNull
  <1>3. ASSUME NEW i \in Orders PROVE ListIs(mem, h[i], i) /\ h[i] = <<>>
    <2>1. h[i] = <<>> /\ mem.first[i] = NULL /\ mem.last[i] = NULL
      BY <1>1
    <2>2. <<>> \in Seq(Cells) /\ Len(<<>>) = 0 /\ IsInjective(<<>>)
      BY EmptySeq DEF IsInjective
    <2>3. ListIs(mem, <<>>, i)
      BY <2>1, <2>2 DEF ListIs
    <2> QED
      BY <2>1, <2>3
  <1> HIDE DEF h
  <1>4. /\ Sound(mem) /\ \A i \in Orders : CellsOf(mem, i) = h[i]
        /\ \A c : c \in ListedCells(mem) <=> \E i \in Orders : c \in Range(h[i])
        /\ Starts(mem) = [i \in Orders |-> [j \in 1..Len(h[i]) |-> mem.start[h[i][j]]]]
    BY <1>2, <1>3, SoundBy
  <1>5. ListedCells(mem) = {}
    <2>1. \A i \in Orders : Range(h[i]) = {}
      BY <1>3 DEF Range
    <2> QED
      BY <1>4, <2>1
  <1>6. Starts(mem) = FirstChunks(0)
    <2>1. ASSUME NEW i \in Orders
          PROVE  /\ [j \in 1..Len(h[i]) |-> mem.start[h[i][j]]] = <<>>
                 /\ [j \in 1..0 |-> (j - 1) * 2^MAX_ORDER] = <<>>
      BY <1>3
    <2> QED
      BY <1>4, <2>1 DEF FirstChunks
  <1>7. CellsInv
    BY <1>1, <1>4, <1>5 DEF CellsInv, CellOrNull
  <1>8. PlaceInv
    BY <1>1, OrdersAre, BuddyAssumption DEF PlaceInv, Orders
  <1>9. InitInv
    <2> DEFINE K == 2^(nr_pages_in_order - MAX_ORDER)
    <2>1. K \in Nat /\ 2^MAX_ORDER \in Nat
      <3>1. nr_pages_in_order - MAX_ORDER \in Nat /\ MAX_ORDER \in Nat
        BY BuddyAssumption
      <3> QED
        BY <3>1, PowerNat
    <2>2. chunks = FirstChunks(K) /\ ops = {}
      BY <1>1 DEF Init, FirstChunks
    <2>3. 0 \in 0..K /\ level = 0 * 2^MAX_ORDER
      <3> HIDE DEF K
      <3> QED
        BY <1>1, <2>1
    <2> HIDE DEF K
    <2>4. \E k \in 0..K : level = k * 2^MAX_ORDER /\ Starts(mem) = FirstChunks(k)
      BY <1>6, <2>3
    <2> QED
      BY <1>1, <2>2, <2>4 DEF InitInv, K
  <1> QED
    BY <1>1, <1>7, <1>8, <1>9 DEF HeapInv, IdleInv, AllocInv, FreeInv, FiniInv

LEMMA EmptyLists ==
  ASSUME Sound(mem), NEW i \in Orders
  PROVE  /\ IsEmptyList(i) <=> Starts(mem)[i] = <<>>
         /\ mem.first[i] = NULL <=> Starts(mem)[i] = <<>>
PROOF
  BY SoundIs DEF IsEmptyList

\* The end of a call: what is left to show.
LEMMA ReturnKeeps ==
  ASSUME Return, Sound(mem'), mem'.live = ListedCells(mem')
  PROVE  HeapInv' /\ chunks' = Starts(mem') /\ ops' = records'
PROOF
  <1>1. /\ pc' = "idle" /\ asked' = 0 /\ cp' = NULL /\ level' = 0
        /\ chunks' = Starts(mem') /\ ops' = records'
    BY DEF Return
  <1>2. NULL \notin ListedCells(mem')
    <2>1. \A c \in ListedCells(mem') : c # NULL
      BY SoundIs
    <2> QED
      BY <2>1
  <1>3. CellsInv'
    BY <1>1, <1>2 DEF CellsInv, CellOrNull
  <1>4. PlaceInv'
    BY <1>1, OrdersAre, BuddyAssumption DEF PlaceInv, Orders
  <1>5. InitInv' /\ IdleInv' /\ AllocInv' /\ FreeInv' /\ FiniInv'
    BY <1>1 DEF InitInv, IdleInv, AllocInv, FreeInv, FiniInv
  <1> QED
    BY <1>1, <1>3, <1>4, <1>5 DEF HeapInv

LEMMA InitRoundKeeps ==
  ASSUME HeapInv, InitRound
  PROVE  HeapInv' /\ [Next]_vars
PROOF
  <1> DEFINE d == nr_pages_in_order - MAX_ORDER
             K == 2^d
             size == 2^MAX_ORDER
  <1>1. pc = "init" /\ Sound(mem) /\ cp = NULL /\ mem.live = ListedCells(mem)
    BY DEF InitRound, HeapInv, CellsInv
  <1>2. records = {} /\ ops = {} /\ chunks = FirstChunks(K)
    BY <1>1 DEF HeapInv, InitInv
  <1>3. PICK k \in 0..K : level = k * size /\ Starts(mem) = FirstChunks(k)
    BY <1>1 DEF HeapInv, InitInv
  <1>4. d \in Nat /\ MAX_ORDER \in Nat /\ d + MAX_ORDER = nr_pages_in_order
    BY BuddyAssumption
  <1>5. K \in Nat \ {0} /\ size \in Nat \ {0} /\ 2^nr_pages_in_order = K * size
    <2>1. K \in Nat \ {0} /\ size \in Nat \ {0}
      BY <1>4, PowerNat
    <2>2. 2^(d + MAX_ORDER) = 2^d * 2^MAX_ORDER
      <3> HIDE DEF d
      <3> QED
        BY <1>4, PowerSum
    <2> QED
      BY <1>4, <2>1, <2>2
  <1>6. UNCHANGED <<allocated, free>>
    BY DEF InitRound
  <1> HIDE DEF K, size, d
  <1>7. CASE level = 2^nr_pages_in_order
    <2>1. UNCHANGED <<mem, records>> /\ Return
      BY <1>7 DEF InitRound
    <2>2. k = K
      <3>1. ~(k < K)
        <4> SUFFICES ASSUME k < K PROVE FALSE
          OBVIOUS
        <4>1. k * size < K * size
          BY <1>3, <1>5
        <4> QED
          BY <1>3, <1>5, <1>7, <4>1
      <3> QED
        BY <1>3, <1>5, <3>1
    <2>3. Sound(mem') /\ mem'.live = ListedCells(mem')
      BY <1>1, <2>1
    <2>4. HeapInv' /\ chunks' = Starts(mem') /\ ops' = records'
      BY <2>1, <2>3, ReturnKeeps
    <2>5. chunks' = chunks /\ ops' = ops
      BY <1>2, <1>3, <2>1, <2>2, <2>4
    <2> QED
      BY <1>6, <2>4, <2>5 DEF vars
  <1>8. CASE level # 2^nr_pages_in_order
    <2> DEFINE c == Fresh(mem)
               n == NewChunk(mem, level, MAX_ORDER)
    <2>1. /\ CanMalloc(1)
          /\ mem' = insertChunkList(n, c, MAX_ORDER)
          /\ level' = level + size
          /\ UNCHANGED <<records, pc, asked, cp, chunks, ops>>
      BY <1>8 DEF InitRound, size
    <2>2. k \in Nat /\ k < K /\ level \in Nat /\ level + size \in Nat /\ k + 1 \in 0..K
      <3>1. level \in Nat
        BY DEF HeapInv, PlaceInv
      <3>2. k # K
        BY <1>3, <1>5, <1>8
      <3> QED
        BY <1>3, <1>5, <3>1, <3>2
    <2>3. (k + 1) * size = level + size /\ ((k + 1) - 1) * size = level
      BY <1>3, <1>5, <2>2
    <2>4. /\ c \in Cells /\ c # NULL /\ c \notin mem.live /\ c \notin ListedCells(mem)
          /\ Sound(n) /\ ListedCells(n) = ListedCells(mem) /\ Starts(n) = Starts(mem)
          /\ n.live = mem.live \cup {c}
          /\ n.start[c] = level /\ n.order[c] = MAX_ORDER /\ n.chunkPointer[c] = NULL
      <3>1. Cardinality(Cells \ mem.live) >= 1 /\ level \in Nat /\ MAX_ORDER \in Nat
        BY <1>4, <2>1, <2>2 DEF CanMalloc
      <3> QED
        BY <1>1, <3>1, MallocKeeps
    <2> HIDE DEF c, n
    <2>5. /\ Sound(mem') /\ ListedCells(mem') = ListedCells(n) \cup {c}
          /\ mem'.live = n.live
          /\ Starts(mem') = [Starts(n) EXCEPT ![MAX_ORDER] = Append(@, n.start[c])]
      BY <2>1, <2>4, OrdersAre, InsertKeeps
    <2>6. Starts(mem') = FirstChunks(k + 1)
      <3> DEFINE v == [j \in 1..k |-> (j - 1) * size]
                 w == [j \in 1..(k + 1) |-> (j - 1) * size]
      <3>1. v \in Seq(Nat) /\ Len(v) = k
        BY <1>5, <2>2, IsASeq
      <3>2. w \in Seq(Nat) /\ Len(w) = k + 1
        BY <1>5, <2>2, IsASeq
      <3>3. Append(v, level) = w
        <4>1. /\ Append(v, level) \in Seq(Nat) /\ Len(Append(v, level)) = k + 1
              /\ \A j \in 1..k : Append(v, level)[j] = v[j]
              /\ Append(v, level)[k + 1] = level
          <5> HIDE DEF v
          <5> QED
            BY <2>2, <3>1, AppendProperties
        <4>2. \A j \in 1..k : v[j] = w[j]
          BY <2>2
        <4>3. w[k + 1] = level
          BY <2>2, <2>3
        <4>4. \A j \in 1..(k + 1) : j \in 1..k \/ j = k + 1
          BY <2>2
        <4>5. \A j \in 1..(k + 1) : Append(v, level)[j] = w[j]
          <5> HIDE DEF v, w
          <5> QED
            BY <4>1, <4>2, <4>3, <4>4
        <4> HIDE DEF v, w
        <4> QED
          BY <3>2, <4>1, <4>5, SeqEqual
      <3>4. FirstChunks(k) = [i \in Orders |-> IF i = MAX_ORDER THEN v ELSE <<>>]
        BY DEF FirstChunks, size
      <3>5. FirstChunks(k + 1) = [i \in Orders |-> IF i = MAX_ORDER THEN w ELSE <<>>]
        BY DEF FirstChunks, size
      <3> HIDE DEF v, w
      <3>6. Starts(mem') = [FirstChunks(k) EXCEPT ![MAX_ORDER] = Append(@, level)]
        BY <1>3, <2>4, <2>5
      <3> QED
        BY <3>3, <3>4, <3>5, <3>6, OrdersAre
    <2>7. CellsInv'
      <3>1. cp' = NULL /\ pc' = "init"
        BY <1>1, <2>1
      <3>2. mem'.live = ListedCells(mem')
        BY <1>1, <2>4, <2>5
      <3>3. NULL \notin ListedCells(mem')
        <4>1. \A e \in ListedCells(mem') : e # NULL
          BY <2>5, SoundIs
        <4> QED
          BY <4>1
      <3> QED
        BY <2>5, <3>1, <3>2, <3>3 DEF CellsInv, CellOrNull
    <2>8. PlaceInv'
      BY <1>1, <2>1, <2>2 DEF HeapInv, PlaceInv
    <2>9. InitInv'
      <3>1. \E j \in 0..K : level' = j * size /\ Starts(mem') = FirstChunks(j)
        BY <2>1, <2>2, <2>3, <2>6
      <3> QED
        BY <1>2, <2>1, <3>1 DEF InitInv, K, d, size
    <2> QED
      BY <1>1, <1>6, <2>1, <2>7, <2>8, <2>9
      DEF HeapInv, IdleInv, AllocInv, FreeInv, FiniInv, vars
  <1> QED
    BY <1>7, <1>8

LEMMA AllocFirstKeeps ==
  ASSUME HeapInv, BuddyInv, NEW ord \in Orders, AllocFirst(ord)
  PROVE  HeapInv' /\ [Next]_vars
PROOF
  <1> DEFINE c == mem.first[ord]
             m == removeChunkList(mem, ord)
  <1>1. /\ pc = "idle" /\ ~IsEmptyList(ord) /\ mem' = FreeChunk(m, c)
        /\ Mark(mem.start[c], ord) /\ Account(ord) /\ Return
    BY DEF AllocFirst
  <1>2. /\ Sound(mem) /\ cp = NULL /\ mem.live = ListedCells(mem)
        /\ records = ops /\ Starts(mem) = chunks
    BY <1>1 DEF HeapInv, CellsInv, IdleInv
  <1>3. Starts(mem)[ord] # <<>>
    BY <1>1, <1>2, EmptyLists
  <1>4. /\ Sound(m) /\ ListedCells(m) = ListedCells(mem) \ {c}
        /\ m.live = mem.live
        /\ Starts(m) = [Starts(mem) EXCEPT ![ord] = Tail(@)]
        /\ c \in Cells /\ c \in ListedCells(mem)
        /\ mem.start[c] = Head(Starts(mem)[ord])
    BY <1>2, <1>3, RemoveKeeps
  <1> HIDE DEF c, m
  <1>5. /\ Sound(mem') /\ ListedCells(mem') = ListedCells(m) /\ Starts(mem') = Starts(m)
        /\ mem'.live = m.live \ {c}
    BY <1>1, <1>4, FreeCellKeeps
  <1>6. mem'.live = ListedCells(mem')
    BY <1>2, <1>4, <1>5
  <1>7. HeapInv' /\ chunks' = Starts(mem') /\ ops' = records'
    BY <1>1, <1>5, <1>6, ReturnKeeps
  <1>8. chunks[ord] # <<>> /\ highOrder(ord) = ord /\ alloc_result(ord) = 0
    BY <1>2, <1>3, OrdersAre DEF highOrder, alloc_result
  <1>9. chunks' = Split(ord)
    <2>1. chunks \in [Orders -> Seq(Nat)]
      BY DEF BuddyInv, TypeInv
    <2>2. chunks' = [chunks EXCEPT ![ord] = Tail(@)]
      BY <1>2, <1>4, <1>5, <1>7
    <2>3. \A i : i \notin ord..(ord - 1)
      BY OrdersAre
    <2> QED
      BY <1>8, <2>1, <2>2, <2>3 DEF Split
  <1>10. Alloc(ord)
    BY <1>1, <1>2, <1>4, <1>7, <1>8, <1>9 DEF Alloc, Account, Mark, AlreadyMarked
  <1> QED
    BY <1>7, <1>10 DEF Next

LEMMA AllocSplitKeeps ==
  ASSUME HeapInv, BuddyInv, NEW ord \in Orders, AllocSplit(ord)
  PROVE  HeapInv' /\ [Next]_vars
PROOF
  <1> DEFINE above == {i \in (ord + 1)..MAX_ORDER : mem.first[i] # NULL}
  <1>1. /\ IsEmptyList(ord) /\ above # {} /\ Enter("alloc", ord, Min(above))
        /\ UNCHANGED <<mem, records, allocated, free, cp>>
    BY DEF AllocSplit
  <1>2. /\ pc = "idle" /\ pc' = "alloc" /\ asked' = ord /\ level' = Min(above)
        /\ UNCHANGED <<chunks, ops>>
    BY <1>1 DEF Enter
  <1>3. /\ Sound(mem) /\ cp = NULL /\ mem.live = ListedCells(mem)
        /\ records = ops /\ Starts(mem) = chunks
    BY <1>2 DEF HeapInv, CellsInv, IdleInv
  <1>4. above = HigherOrders(ord)
    <2>1. ASSUME NEW i \in (ord + 1)..MAX_ORDER PROVE mem.first[i] # NULL <=> chunks[i] # <<>>
      <3>1. i \in Orders
        BY OrdersAre DEF Orders
      <3> QED
        BY <1>3, <3>1, EmptyLists
    <2> QED
      BY <2>1 DEF HigherOrders
  <1>5. chunks[ord] = <<>> /\ HigherOrders(ord) # {}
    BY <1>1, <1>3, <1>4, EmptyLists
  <1>6. /\ highOrder(ord) \in Orders /\ ord < highOrder(ord)
        /\ highOrder(ord) = Min(HigherOrders(ord))
    BY <1>5, SplitGoes
  <1>7. level' = highOrder(ord) /\ level' \in Nat /\ level' \in Orders
    BY <1>2, <1>4, <1>6, OrdersAre
  <1> HIDE DEF above
  <1>8. CellsInv'
    BY <1>1, <1>3, <1>2 DEF HeapInv, CellsInv
  <1>9. PlaceInv'
    BY <1>2, <1>7 DEF PlaceInv
  <1>10. AllocInv'
    <2>1. highOrder(ord)' = highOrder(ord) /\ HigherOrders(ord)' = HigherOrders(ord)
      BY <1>2 DEF highOrder, HigherOrders
    <2>2. /\ records' = ops' /\ chunks'[ord] = <<>> /\ HigherOrders(ord)' # {}
          /\ ord < level' /\ level' <= highOrder(ord)' /\ level' = highOrder(ord)'
          /\ cp' = NULL /\ Starts(mem') = chunks'
      BY <1>1, <1>2, <1>3, <1>5, <1>6, <1>7, <2>1
    <2> QED
      BY <1>2, <2>2 DEF AllocInv, highOrder, HigherOrders
  <1> QED
    BY <1>1, <1>2, <1>8, <1>9, <1>10 DEF HeapInv, InitInv, IdleInv, FreeInv, FiniInv, vars

\* One round of the split loop, before the loop is left.
LEMMA Halved ==
  ASSUME HeapInv, BuddyInv, pc = "alloc", CanMalloc(2)
  PROVE  LET old == IF cp = NULL THEN mem.first[level] ELSE cp
             removed == IF cp = NULL THEN removeChunkList(mem, level) ELSE mem
             half == mem.order[old] - 1
             left == NewChunk(removed, mem.start[old], half)
             lcp == Fresh(removed)
             right == NewChunk(left, mem.start[old] + 2^half, half)
             rcp == Fresh(left)
             split == insertChunkList(FreeChunk(right, old), rcp, level - 1)
         IN /\ mem.start[old] = Head(chunks[highOrder(asked)])
            /\ Sound(split) /\ Starts(split) = SplitTo(asked, level - 1)
            /\ lcp \in Cells /\ lcp # NULL /\ lcp \notin ListedCells(split)
            /\ split.live = ListedCells(split) \cup {lcp}
            /\ split.start[lcp] = mem.start[old] /\ split.order[lcp] = level - 1
            /\ split.chunkPointer[lcp] = NULL
PROOF
  <1> DEFINE old == IF cp = NULL THEN mem.first[level] ELSE cp
             removed == IF cp = NULL THEN removeChunkList(mem, level) ELSE mem
             half == mem.order[old] - 1
             left == NewChunk(removed, mem.start[old], half)
             lcp == Fresh(removed)
             right == NewChunk(left, mem.start[old] + 2^half, half)
             rcp == Fresh(left)
             freed == FreeChunk(right, old)
             split == insertChunkList(freed, rcp, level - 1)
             high == highOrder(asked)
             page == Head(chunks[high])
             low == level - 1
  <1>1. /\ Sound(mem) /\ cp \in CellOrNull /\ cp \notin ListedCells(mem)
        /\ mem.live = ListedCells(mem) \cup ({cp} \ {NULL})
        /\ cp # NULL => mem.order[cp] = level
    BY DEF HeapInv, CellsInv
  <1>2. asked \in Orders /\ level \in Orders /\ level \in Nat
    BY DEF HeapInv, PlaceInv
  <1>3. /\ chunks[asked] = <<>> /\ HigherOrders(asked) # {}
        /\ asked < level /\ level <= high
        /\ IF cp = NULL
           THEN level = high /\ Starts(mem) = chunks
           ELSE /\ level < high /\ Starts(mem) = SplitTo(asked, level)
                /\ mem.start[cp] = page
    BY DEF HeapInv, AllocInv
  <1>4. /\ chunks[high] # <<>> /\ page \in Nat
        /\ SplitTo(asked, high) = [chunks EXCEPT ![high] = Tail(@)]
        /\ low \in Orders
        /\ SplitTo(asked, low) = [SplitTo(asked, level) EXCEPT ![low] = Append(@, page + 2^low)]
    <2>1. /\ chunks[high] # <<>> /\ page \in Nat
          /\ SplitTo(asked, high) = [chunks EXCEPT ![high] = Tail(@)]
      BY <1>2, <1>3, SplitGoes
    <2>2. /\ low \in Orders
          /\ SplitTo(asked, low) = [SplitTo(asked, level) EXCEPT ![low] = Append(@, page + 2^low)]
      BY <1>2, <1>3, SplitGoes
    <2> QED
      BY <2>1, <2>2
  <1> HIDE DEF high, page, low
  <1>5. /\ Sound(removed) /\ Starts(removed) = SplitTo(asked, level)
        /\ removed.live = mem.live
        /\ old \in Cells /\ old \in mem.live /\ old \notin ListedCells(removed)
        /\ mem.live = ListedCells(removed) \cup {old}
        /\ mem.start[old] = page /\ mem.order[old] = level
    <2>1. CASE cp = NULL
      <3> DEFINE c == mem.first[level]
                 m == removeChunkList(mem, level)
      <3>1. Starts(mem)[level] # <<>>
        BY <1>3, <1>4, <2>1
      <3>2. /\ Sound(m) /\ ListedCells(m) = ListedCells(mem) \ {c}
            /\ m.live = mem.live
            /\ Starts(m) = [Starts(mem) EXCEPT ![level] = Tail(@)]
            /\ c \in Cells /\ c \in ListedCells(mem) /\ c \in mem.live /\ mem.order[c] = level
            /\ mem.start[c] = Head(Starts(mem)[level])
        BY <1>1, <1>2, <3>1, RemoveKeeps
      <3>3. old = c /\ removed = m
        BY <2>1
      <3> HIDE DEF c, m, old, removed
      <3>4. Starts(m) = SplitTo(asked, level) /\ mem.start[c] = page
        BY <1>3, <1>4, <2>1, <3>2 DEF page
      <3>5. mem.live = ListedCells(m) \cup {c}
        BY <1>1, <2>1, <3>2
      <3> QED
        BY <3>2, <3>3, <3>4, <3>5
    <2>2. CASE cp # NULL
      <3>1. old = cp /\ removed = mem
        BY <2>2
      <3>2. cp \in Cells /\ cp \in mem.live /\ mem.live = ListedCells(mem) \cup {cp}
        BY <1>1, <2>2 DEF CellOrNull
      <3> HIDE DEF old, removed
      <3> QED
        BY <1>1, <1>3, <2>2, <3>1, <3>2
    <2> QED
      BY <2>1, <2>2
  <1>6. half = low /\ half \in Nat
    BY <1>2, <1>4, <1>5, OrdersAre DEF low
  <1>7. page + 2^half \in Nat
    BY <1>4, <1>6, PowerNat
  <1> HIDE DEF old, removed, half
  <1>8. /\ lcp \in Cells /\ lcp # NULL /\ lcp \notin mem.live /\ lcp \notin ListedCells(removed)
        /\ Sound(left) /\ ListedCells(left) = ListedCells(removed) /\ Starts(left) = Starts(removed)
        /\ left.live = mem.live \cup {lcp}
        /\ left.start[lcp] = page /\ left.order[lcp] = half /\ left.chunkPointer[lcp] = NULL
    <2>1. Cardinality(Cells \ removed.live) >= 1
      <3>1. IsFiniteSet(Cells \ mem.live)
        BY BuddyHeapAssumption, FS_Subset
      <3>2. Cardinality(Cells \ mem.live) \in Nat
        BY <3>1, FS_CardinalityType
      <3>3. Cardinality(Cells \ mem.live) >= 2
        BY DEF CanMalloc
      <3>4. Cardinality(Cells \ mem.live) >= 1
        BY <3>2, <3>3
      <3> QED
        BY <1>5, <3>4
    <2>2. mem.start[old] \in Nat
      BY <1>4, <1>5
    <2> QED
      BY <1>5, <1>6, <2>1, <2>2, MallocKeeps
  <1> HIDE DEF lcp, left
  <1>9. /\ rcp \in Cells /\ rcp \notin left.live /\ rcp \notin ListedCells(left)
        /\ Sound(right) /\ ListedCells(right) = ListedCells(left) /\ Starts(right) = Starts(left)
        /\ right.live = left.live \cup {rcp}
        /\ right.start[rcp] = page + 2^half /\ right.order[rcp] = half /\ right.chunkPointer[rcp] = NULL
        /\ \A d \in Cells \ {rcp} : /\ right.start[d] = left.start[d] /\ right.order[d] = left.order[d]
                                    /\ right.chunkPointer[d] = left.chunkPointer[d]
    <2>1. Cardinality(Cells \ left.live) >= 1
      <3> DEFINE S == Cells \ mem.live
      <3>1. IsFiniteSet(S)
        BY BuddyHeapAssumption, FS_Subset
      <3>2. Cardinality(S) \in Nat /\ Cardinality(S) >= 2
        BY <3>1, FS_CardinalityType DEF CanMalloc
      <3>3. Cells \ left.live = S \ {lcp}
        BY <1>8
      <3>4. lcp \in S
        BY <1>8
      <3> HIDE DEF S
      <3>5. Cardinality(S \ {lcp}) = Cardinality(S) - 1
        BY <3>1, <3>4, FS_RemoveElement
      <3>6. Cardinality(S \ {lcp}) >= 1
        BY <3>2, <3>5
      <3> QED
        BY <3>3, <3>6
    <2>2. mem.start[old] + 2^half \in Nat /\ mem.start[old] + 2^half = page + 2^half
      BY <1>5, <1>7
    <2> QED
      BY <1>6, <1>8, <2>1, <2>2, MallocKeeps
  <1> HIDE DEF rcp, right
  <1>10. rcp # old /\ rcp # lcp /\ lcp # old
    BY <1>5, <1>8, <1>9
  <1>11. /\ Sound(freed) /\ ListedCells(freed) = ListedCells(right) /\ Starts(freed) = Starts(right)
         /\ freed.live = right.live \ {old}
         /\ \A d \in Cells \ {old} : /\ freed.start[d] = right.start[d] /\ freed.order[d] = right.order[d]
                                     /\ freed.chunkPointer[d] = right.chunkPointer[d]
    <2>1. Sound(right) /\ old \in Cells /\ old \notin ListedCells(right)
      BY <1>5, <1>8, <1>9
    <2> QED
      BY <2>1, FreeCellKeeps
  <1> HIDE DEF freed
  <1>12. /\ freed.start[rcp] = page + 2^half /\ freed.order[rcp] = low /\ freed.chunkPointer[rcp] = NULL
         /\ freed.start[lcp] = page /\ freed.order[lcp] = low /\ freed.chunkPointer[lcp] = NULL
         /\ rcp \notin ListedCells(freed) /\ lcp \notin ListedCells(freed) /\ rcp \in freed.live
    BY <1>5, <1>6, <1>8, <1>9, <1>10, <1>11
  <1>13. /\ Sound(split) /\ ListedCells(split) = ListedCells(freed) \cup {rcp}
         /\ split.live = freed.live /\ split.start = freed.start /\ split.order = freed.order
         /\ Starts(split) = [Starts(freed) EXCEPT ![low] = Append(@, freed.start[rcp])]
         /\ \A d \in Cells \ ListedCells(freed) : split.chunkPointer[d] = freed.chunkPointer[d]
    <2>1. split = insertChunkList(freed, rcp, low)
      BY DEF low
    <2>2. Sound(freed) /\ low \in Orders /\ rcp \in Cells
      BY <1>4, <1>9, <1>11
    <2>3. /\ rcp \notin ListedCells(freed) /\ rcp \in freed.live
          /\ freed.order[rcp] = low /\ freed.chunkPointer[rcp] = NULL
      BY <1>12
    <2> HIDE DEF split
    <2> DEFINE n == insertChunkList(freed, rcp, low)
    <2>4. /\ Sound(n) /\ ListedCells(n) = ListedCells(freed) \cup {rcp}
          /\ n.live = freed.live /\ n.start = freed.start /\ n.order = freed.order
          /\ Starts(n) = [Starts(freed) EXCEPT ![low] = Append(@, freed.start[rcp])]
          /\ \A d \in Cells \ ListedCells(freed) : n.chunkPointer[d] = freed.chunkPointer[d]
      BY <2>2, <2>3, InsertKeeps
    <2> QED
      BY <2>1, <2>4
  <1> HIDE DEF split
  <1>14. Starts(split) = SplitTo(asked, low)
    BY <1>4, <1>5, <1>6, <1>8, <1>9, <1>11, <1>12, <1>13
  <1>15. split.live = ListedCells(split) \cup {lcp} /\ lcp \notin ListedCells(split)
    BY <1>5, <1>8, <1>9, <1>10, <1>11, <1>12, <1>13
  <1>16. split.start[lcp] = page /\ split.order[lcp] = low /\ split.chunkPointer[lcp] = NULL
    BY <1>8, <1>12, <1>13
  <1> QED
    BY <1>5, <1>8, <1>13, <1>14, <1>15, <1>16
    DEF old, removed, half, left, lcp, right, rcp, freed, split, page, high, low

LEMMA SplitRoundKeeps ==
  ASSUME HeapInv, BuddyInv, SplitRound
  PROVE  HeapInv' /\ [Next]_vars
PROOF
  <1> DEFINE old == IF cp = NULL THEN mem.first[level] ELSE cp
             removed == IF cp = NULL THEN removeChunkList(mem, level) ELSE mem
             half == mem.order[old] - 1
             left == NewChunk(removed, mem.start[old], half)
             lcp == Fresh(removed)
             right == NewChunk(left, mem.start[old] + 2^half, half)
             rcp == Fresh(left)
             split == insertChunkList(FreeChunk(right, old), rcp, level - 1)
             low == level - 1
             high == highOrder(asked)
             page == Head(chunks[high])
  <1>1. /\ pc = "alloc" /\ CanMalloc(2)
        /\ IF low > asked
           THEN /\ mem' = split
                /\ cp' = lcp /\ level' = low
                /\ UNCHANGED <<records, allocated, free, pc, asked, chunks, ops>>
           ELSE /\ mem' = FreeChunk(split, lcp)
                /\ Mark(mem.start[old], asked)
                /\ Account(asked)
                /\ Return
    BY DEF SplitRound
  <1>2. /\ mem.start[old] = page
        /\ Sound(split) /\ Starts(split) = SplitTo(asked, low)
        /\ lcp \in Cells /\ lcp # NULL /\ lcp \notin ListedCells(split)
        /\ split.live = ListedCells(split) \cup {lcp}
        /\ split.start[lcp] = mem.start[old] /\ split.order[lcp] = low
        /\ split.chunkPointer[lcp] = NULL
    BY <1>1, Halved
  <1> HIDE DEF split, lcp, old, low, high, page
  <1>3. asked \in Orders /\ asked \in Nat /\ level \in Nat /\ level \in Orders
    BY <1>1, OrdersAre DEF HeapInv, PlaceInv
  <1>4. /\ records = ops /\ chunks[asked] = <<>> /\ HigherOrders(asked) # {}
        /\ asked < level /\ level <= high
    BY <1>1 DEF HeapInv, AllocInv, high
  <1>5. /\ alloc_result(asked) = 0 /\ SplitTo(asked, asked) = Split(asked)
        /\ high \in Orders /\ high \in Nat
    BY <1>3, <1>4, SplitGoes, OrdersAre DEF high
  <1>6. low \in Nat /\ low = level - 1 /\ asked <= low /\ low < high /\ low \in Orders
    <2>1. low \in Nat /\ low = level - 1 /\ asked <= low /\ low < high
      BY <1>3, <1>4, <1>5 DEF low
    <2>2. level <= MAX_ORDER /\ MAX_ORDER \in Nat
      BY <1>3, BuddyAssumption DEF Orders
    <2> QED
      BY <1>3, <2>1, <2>2 DEF Orders
  <1>7. CASE low > asked
    <2>1. /\ mem' = split /\ cp' = lcp /\ level' = low
          /\ UNCHANGED <<records, allocated, free, pc, asked, chunks, ops>>
      BY <1>1, <1>7
    <2>2. CellsInv'
      BY <1>1, <1>2, <2>1 DEF CellsInv, CellOrNull
    <2>3. PlaceInv'
      BY <1>1, <1>3, <1>6, <2>1 DEF PlaceInv
    <2>4. AllocInv'
      <3>1. /\ highOrder(asked)' = high /\ HigherOrders(asked)' = HigherOrders(asked)
            /\ SplitTo(asked, level)' = SplitTo(asked, low)
            /\ Head(chunks[highOrder(asked)])' = page
        BY <2>1 DEF highOrder, HigherOrders, SplitTo, high, page
      <3>2. /\ records' = ops' /\ chunks'[asked'] = <<>> /\ HigherOrders(asked)' # {}
            /\ asked' < level' /\ level' < high /\ Starts(mem') = SplitTo(asked, low)
            /\ cp' # NULL /\ mem'.start[cp'] = page
        <4>1. records' = ops' /\ chunks'[asked'] = <<>>
          BY <1>4, <2>1
        <4>2. HigherOrders(asked)' # {}
          BY <1>4, <3>1
        <4>3. asked' < level' /\ level' < high
          BY <1>6, <1>7, <2>1
        <4>4. Starts(mem') = SplitTo(asked, low)
          BY <1>2, <2>1
        <4>5. cp' # NULL
          BY <1>2, <2>1
        <4>6. mem'.start[cp'] = page
          BY <1>2, <2>1
        <4> QED
          BY <4>1, <4>2, <4>3, <4>4, <4>5, <4>6
      <3>3. level' <= high
        BY <1>5, <1>6, <2>1
      <3> QED
        BY <3>1, <3>2, <3>3 DEF AllocInv
    <2> QED
      BY <1>1, <2>1, <2>2, <2>3, <2>4 DEF HeapInv, InitInv, IdleInv, FreeInv, FiniInv, vars
  <1>8. CASE ~(low > asked)
    <2>1. /\ mem' = FreeChunk(split, lcp) /\ Mark(page, asked) /\ Account(asked) /\ Return
      BY <1>1, <1>2, <1>8
    <2>2. low = asked
      BY <1>3, <1>6, <1>8
    <2>3. /\ Sound(mem') /\ ListedCells(mem') = ListedCells(split) /\ Starts(mem') = Starts(split)
          /\ mem'.live = split.live \ {lcp}
      BY <1>2, <2>1, FreeCellKeeps
    <2>4. mem'.live = ListedCells(mem')
      BY <1>2, <2>3
    <2>5. HeapInv' /\ chunks' = Starts(mem') /\ ops' = records'
      BY <2>1, <2>3, <2>4, ReturnKeeps
    <2>6. chunks' = Split(asked)
      BY <1>2, <1>5, <2>2, <2>3, <2>5
    <2>7. Alloc(asked)
      BY <1>4, <1>5, <2>1, <2>5, <2>6 DEF Alloc, Account, Mark, AlreadyMarked, page, high
    <2> QED
      BY <1>3, <2>5, <2>7 DEF Next
  <1> QED
    BY <1>7, <1>8

\* MergeGoes at one order.
LEMMA MergesUp ==
  ASSUME BuddyInv, NEW op \in ops, NEW lev \in Orders, op.order <= lev,
         \A i \in op.order..(lev - 1) : MergesAt(op.page, i), ~MergesAt(op.page, lev)
  PROVE  Merge(op.page, op.order) =
           [MergedTo(op, lev) EXCEPT ![lev] = Append(@, StartAt(op.page, lev))]
PROOF
  BY MergeGoes

LEMMA FreeAloneKeeps ==
  ASSUME HeapInv, BuddyInv, NEW op \in records, FreeAlone(op)
  PROVE  HeapInv' /\ [Next]_vars
PROOF
  <1> DEFINE p == op.page
             o == op.order
             m == NewChunk(mem, p, o)
             c == Fresh(mem)
             n == insertChunkList(m, c, o)
  <1>1. /\ pc = "idle" /\ IsEmptyList(o) /\ CanMalloc(1) /\ mem' = n
        /\ records' = records \ {op} /\ Return
        /\ allocated' = uint(allocated - 2^o) /\ free' = uint(free + 2^o)
    BY DEF FreeAlone
  <1>2. /\ Sound(mem) /\ mem.live = ListedCells(mem)
        /\ records = ops /\ Starts(mem) = chunks
    <2>1. cp = NULL
      BY <1>1 DEF HeapInv, CellsInv
    <2> QED
      BY <1>1, <2>1 DEF HeapInv, CellsInv, IdleInv
  <1>3. op \in ops
    BY <1>2
  <1>4. p \in Nat /\ o \in Orders /\ StartAt(p, o) = p /\ MergedTo(op, o) = chunks
    BY <1>3, MergeGoes
  <1> HIDE DEF p, o, c, m, n
  <1>6. o \in Nat
    BY <1>4, OrdersAre
  <1>7. Cardinality(Cells \ mem.live) >= 1
    BY <1>1 DEF CanMalloc
  <1>8. /\ c \in Cells /\ c \notin ListedCells(mem)
        /\ Sound(m) /\ ListedCells(m) = ListedCells(mem) /\ Starts(m) = Starts(mem)
        /\ m.live = mem.live \cup {c}
        /\ m.start[c] = p /\ m.order[c] = o /\ m.chunkPointer[c] = NULL
    BY <1>2, <1>4, <1>6, <1>7, MallocKeeps DEF c, m
  <1>9. c \notin ListedCells(m) /\ c \in m.live
    BY <1>8
  <1>10. /\ Sound(n) /\ ListedCells(n) = ListedCells(m) \cup {c} /\ n.live = m.live
         /\ Starts(n) = [Starts(m) EXCEPT ![o] = Append(@, m.start[c])]
    <2>1. Sound(m) /\ c \in Cells /\ m.order[c] = o /\ m.chunkPointer[c] = NULL
      BY <1>8
    <2> QED
      BY <1>4, <1>9, <2>1, InsertKeeps DEF n
  <1>11. HeapInv' /\ chunks' = Starts(mem') /\ ops' = records'
    <2>1. Sound(mem') /\ mem'.live = ListedCells(mem')
      BY <1>1, <1>2, <1>8, <1>10
    <2> QED
      BY <1>1, <2>1, ReturnKeeps
  <1>12. chunks[o] = <<>>
    BY <1>1, <1>2, <1>4, EmptyLists
  <1>13. ~MergesAt(p, o)
    BY <1>12 DEF MergesAt, Contains
  <1>14. Merge(p, o) = [chunks EXCEPT ![o] = Append(@, p)]
    <2>1. o..(o - 1) = {} /\ o <= o
      BY <1>6
    <2>2. (\A i \in o..(o - 1) : MergesAt(p, i)) /\ ~MergesAt(p, o)
      BY <1>13, <2>1
    <2>3. Merge(p, o) = [MergedTo(op, o) EXCEPT ![o] = Append(@, StartAt(p, o))]
      BY <1>3, <1>4, <2>1, <2>2, MergesUp DEF p, o
    <2> QED
      BY <1>4, <2>3
  <1>15. chunks' = Merge(p, o)
    BY <1>1, <1>2, <1>8, <1>10, <1>11, <1>14
  <1>16. Free(op)
    BY <1>1, <1>2, <1>11, <1>12, <1>15 DEF Free, p, o
  <1> QED
    BY <1>3, <1>11, <1>16 DEF Next

LEMMA FreeSearchKeeps ==
  ASSUME HeapInv, BuddyInv, NEW op \in records, FreeSearch(op)
  PROVE  HeapInv' /\ [Next]_vars
PROOF
  <1> DEFINE p == op.page
             o == op.order
             m == NewChunk(mem, p, o)
             c == Fresh(mem)
  <1>1. /\ ~IsEmptyList(o) /\ CanMalloc(1) /\ mem' = m /\ cp' = c
        /\ records' = records \ {op} /\ Enter("free", o, o)
        /\ UNCHANGED <<allocated, free>>
    BY DEF FreeSearch
  <1>2. /\ pc = "idle" /\ pc' = "free" /\ asked' = o /\ level' = o
        /\ UNCHANGED <<chunks, ops>>
    BY <1>1 DEF Enter
  <1>3. /\ Sound(mem) /\ mem.live = ListedCells(mem)
        /\ records = ops /\ Starts(mem) = chunks
    <2>1. cp = NULL
      BY <1>2 DEF HeapInv, CellsInv
    <2> QED
      BY <1>2, <2>1 DEF HeapInv, CellsInv, IdleInv
  <1>4. op \in ops
    BY <1>3
  <1>5. p \in Nat /\ o \in Orders /\ StartAt(p, o) = p /\ MergedTo(op, o) = chunks
    BY <1>4, MergeGoes
  <1> HIDE DEF p, o, c, m
  <1>6. o \in Nat
    BY <1>5, OrdersAre
  <1>7. Cardinality(Cells \ mem.live) >= 1
    BY <1>1 DEF CanMalloc
  <1>8. /\ c \in Cells /\ c # NULL /\ c \notin ListedCells(mem)
        /\ Sound(m) /\ ListedCells(m) = ListedCells(mem) /\ Starts(m) = Starts(mem)
        /\ m.live = mem.live \cup {c}
        /\ m.start[c] = p /\ m.order[c] = o /\ m.chunkPointer[c] = NULL
    BY <1>3, <1>5, <1>6, <1>7, MallocKeeps DEF c, m
  <1>9. CellsInv'
    BY <1>1, <1>2, <1>3, <1>8 DEF CellsInv, CellOrNull
  <1>10. PlaceInv'
    BY <1>2, <1>5, <1>6 DEF PlaceInv
  <1>11. FreeInv'
    <2>1. MergedTo(op, level)' = MergedTo(op, o)
      BY <1>2 DEF MergedTo
    <2>2. o..(o - 1) = {}
      BY <1>6
    <2>3. op \in ops' /\ records' = ops' \ {op} /\ asked' = op.order
      BY <1>1, <1>2, <1>3, <1>4 DEF o
    <2>4. chunks'[asked'] # <<>> /\ asked' <= level'
      <3>1. chunks[o] # <<>>
        BY <1>1, <1>3, <1>5, EmptyLists
      <3> QED
        BY <1>2, <1>6, <3>1
    <2>5. cp' # NULL /\ mem'.start[cp'] = StartAt(op.page, level')
      BY <1>1, <1>2, <1>5, <1>8 DEF p
    <2>6. Starts(mem') = MergedTo(op, level)'
      BY <1>1, <1>3, <1>5, <1>8, <2>1
    <2>7. \A i \in asked'..(level' - 1) : MergesAt(op.page, i)'
      BY <1>2, <2>2
    <2> QED
      BY <2>3, <2>4, <2>5, <2>6, <2>7 DEF FreeInv, Freeing
  <1> QED
    BY <1>1, <1>2, <1>9, <1>10, <1>11 DEF HeapInv, InitInv, IdleInv, AllocInv, FiniInv, vars

\* Where free_pages looks for the buddy, and what it means to find it.
LEMMA BuddyPlaces ==
  ASSUME HeapInv, BuddyInv, pc = "free", NEW op \in ops, Freeing(op)
  PROVE  LET b == BuddyOf(StartAt(op.page, level), level)
             cells == CellsOf(mem, level)
         IN /\ Sound(mem) /\ cp \in Cells /\ cp \notin ListedCells(mem)
            /\ mem.live = ListedCells(mem) \cup {cp}
            /\ mem.chunkPointer[cp] = NULL /\ mem.order[cp] = level
            /\ level \in Orders /\ level \in Nat /\ op.order <= level
            /\ myBuddyStart = b
            /\ Found = {j \in 1..Len(cells) : mem.start[cells[j]] = b}
            /\ Starts(mem)[level] = chunks[level] /\ IsInjective(chunks[level])
            /\ Found # {} <=> Contains(chunks[level], b)
PROOF
  <1> DEFINE b == BuddyOf(StartAt(op.page, level), level)
             cells == CellsOf(mem, level)
  <1>1. /\ Sound(mem) /\ cp \in CellOrNull /\ cp # NULL /\ cp \notin ListedCells(mem)
        /\ mem.live = ListedCells(mem) \cup {cp}
        /\ mem.chunkPointer[cp] = NULL /\ mem.order[cp] = level
    BY DEF HeapInv, CellsInv, Freeing
  <1>2. level \in Orders /\ level \in Nat /\ op.order <= level
    BY DEF HeapInv, PlaceInv, Freeing
  <1>3. myBuddyStart = b
    BY <1>1 DEF Freeing, myBuddyStart
  <1>4. /\ MergedTo(op, level)[level] = chunks[level] /\ IsInjective(chunks[level])
    BY <1>2, MergeGoes
  <1>5. Starts(mem)[level] = chunks[level]
    BY <1>4 DEF Freeing
  <1>6. /\ ListIs(mem, cells, level)
        /\ Starts(mem)[level] = [j \in 1..Len(cells) |-> mem.start[cells[j]]]
        /\ Len(Starts(mem)[level]) = Len(cells)
    BY <1>1, <1>2, SoundIs
  <1>7. cells \in Seq(Cells)
    BY <1>6 DEF ListIs
  <1> HIDE DEF b, cells
  <1>8. Found = {j \in 1..Len(cells) : mem.start[cells[j]] = b}
    BY <1>3, <1>7 DEF Found, cells
  <1>9. Found # {} <=> Contains(chunks[level], b)
    <2>1. \A j \in 1..Len(cells) : chunks[level][j] = mem.start[cells[j]]
      BY <1>5, <1>6
    <2>2. Len(chunks[level]) = Len(cells)
      BY <1>5, <1>6
    <2> QED
      BY <1>8, <2>1, <2>2 DEF Contains
  <1>10. cp \in Cells
    BY <1>1 DEF CellOrNull
  <1> QED
    BY <1>1, <1>2, <1>3, <1>4, <1>5, <1>8, <1>9, <1>10 DEF b, cells

LEMMA MergeRoundKeeps ==
  ASSUME HeapInv, BuddyInv, MergeRound
  PROVE  HeapInv' /\ [Next]_vars
PROOF
  <1> DEFINE at == Min(Found)
             cells == CellsOf(mem, level)
             myBuddy == cells[at]
             front == IF at = 1 THEN NULL ELSE cells[at - 1]
             merged == [mem EXCEPT !.order[cp] = @ + 1,
                                   !.start[cp] = IF @ < myBuddyStart THEN @ ELSE mem.start[myBuddy]]
             u == Unlink(merged, myBuddy, front, level)
  <1>1. /\ pc = "free" /\ Found # {} /\ level < MAX_ORDER
        /\ mem' = FreeChunk(u, myBuddy) /\ level' = level + 1
        /\ UNCHANGED <<records, allocated, free, pc, asked, cp, chunks, ops>>
    BY DEF MergeRound
  <1>2. PICK op \in ops : Freeing(op)
    BY <1>1 DEF HeapInv, FreeInv
  <1> DEFINE p == op.page
             s == StartAt(p, level)
             b == BuddyOf(s, level)
  <1>3. /\ Sound(mem) /\ cp \in Cells /\ cp \notin ListedCells(mem)
        /\ mem.live = ListedCells(mem) \cup {cp}
        /\ mem.chunkPointer[cp] = NULL /\ mem.order[cp] = level
        /\ level \in Orders /\ level \in Nat /\ op.order <= level
        /\ myBuddyStart = b
    BY <1>1, <1>2, BuddyPlaces
  <1>4. /\ Found = {j \in 1..Len(cells) : mem.start[cells[j]] = b}
        /\ Starts(mem)[level] = chunks[level] /\ IsInjective(chunks[level])
        /\ Found # {} <=> Contains(chunks[level], b)
    BY <1>1, <1>2, BuddyPlaces
  <1>5. /\ s \in Nat
        /\ MergedTo(op, level + 1) = [MergedTo(op, level) EXCEPT ![level] = RemoveFirst(@, b)]
        /\ StartAt(p, level + 1) = IF s < b THEN s ELSE b
    BY <1>3, MergeGoes
  <1>6. /\ records = ops \ {op} /\ asked = op.order
        /\ chunks[asked] # <<>> /\ asked <= level
        /\ \A i \in asked..(level - 1) : MergesAt(op.page, i)
        /\ cp # NULL /\ mem.start[cp] = s /\ Starts(mem) = MergedTo(op, level)
    BY <1>2 DEF Freeing
  <1>7. /\ MemType(mem) /\ ListIs(mem, cells, level)
        /\ \A c \in ListedCells(mem) : c \in Cells /\ c # NULL /\ c \in mem.live
        /\ \A c : c \in ListedCells(mem) <=> \E i \in Orders : c \in Range(CellsOf(mem, i))
    BY <1>3, SoundIs
  <1>8. at \in 1..Len(cells) /\ mem.start[myBuddy] = b
    <2>1. Found \subseteq Nat
      BY <1>4
    <2>2. at \in Found
      BY <1>1, <2>1, MinIsLeast
    <2> QED
      BY <1>4, <2>2
  <1>9. MergesAt(p, level)
    BY <1>1, <1>4 DEF MergesAt
  <1>10. asked \in Orders /\ asked \in Nat
    BY OrdersAre DEF HeapInv, PlaceInv
  <1>11. level + 1 \in Orders /\ level + 1 \in Nat
    BY <1>1, <1>3, BuddyAssumption DEF Orders
  <1> HIDE DEF at, cells, p, s, b
  <1>12. myBuddy \in Cells /\ myBuddy \in ListedCells(mem) /\ myBuddy # cp
    <2>1. cells \in Seq(Cells)
      BY <1>7 DEF ListIs
    <2>2. myBuddy \in Range(cells)
      BY <1>8, <2>1 DEF Range
    <2>3. myBuddy \in ListedCells(mem)
      BY <1>3, <1>7, <2>2 DEF cells
    <2> QED
      BY <1>3, <1>7, <2>3
  <1> HIDE DEF myBuddy, front
  <1>13. /\ MemType(merged) /\ merged.live = mem.live /\ merged.chunkPointer = mem.chunkPointer
         /\ merged.first = mem.first /\ merged.last = mem.last
         /\ merged.order = [mem.order EXCEPT ![cp] = level + 1]
         /\ merged.start = [mem.start EXCEPT ![cp] = IF s < b THEN s ELSE b]
    <2>1. mem.start \in [Cells -> Nat] /\ mem.order \in [Cells -> Nat] /\ b \in Nat
      BY <1>7, <1>8, <1>12 DEF MemType
    <2>2. merged = [mem EXCEPT !.order = [mem.order EXCEPT ![cp] = level + 1],
                               !.start = [mem.start EXCEPT ![cp] = IF s < b THEN s ELSE b]]
      BY <1>3, <1>6, <1>7, <1>8 DEF MemType
    <2>3. /\ [mem.order EXCEPT ![cp] = level + 1] \in [Cells -> Nat]
          /\ [mem.start EXCEPT ![cp] = IF s < b THEN s ELSE b] \in [Cells -> Nat]
      BY <1>5, <1>11, <2>1
    <2> HIDE DEF merged
    <2> QED
      BY <1>7, <2>2, <2>3 DEF MemType
  <1> HIDE DEF merged
  <1>14. \A c \in ListedCells(mem) :
           /\ c \in merged.live /\ merged.chunkPointer[c] = mem.chunkPointer[c]
           /\ merged.order[c] = mem.order[c] /\ merged.start[c] = mem.start[c]
    <2>1. mem.start \in [Cells -> Nat] /\ mem.order \in [Cells -> Nat]
      BY <1>7 DEF MemType
    <2>2. TAKE c \in ListedCells(mem)
    <2>3. c \in Cells /\ c # cp /\ c \in mem.live
      BY <1>3, <1>7
    <2> QED
      BY <1>13, <2>1, <2>3
  <1>15. /\ Sound(merged) /\ CellsOf(merged, level) = cells
         /\ ListedCells(merged) = ListedCells(mem) /\ Starts(merged) = Starts(mem)
    <2>1. Sound(mem) /\ MemType(merged) /\ merged.first = mem.first /\ merged.last = mem.last
      BY <1>3, <1>13
    <2>2. /\ Sound(merged) /\ \A i \in Orders : CellsOf(merged, i) = CellsOf(mem, i)
          /\ ListedCells(merged) = ListedCells(mem) /\ Starts(merged) = Starts(mem)
      BY <1>14, <2>1, SoundKept
    <2> QED
      BY <1>3, <2>2 DEF cells
  <1>16. /\ merged.start[myBuddy] = b /\ merged.start[cp] = StartAt(p, level + 1)
         /\ merged.order[cp] = level + 1 /\ merged.chunkPointer[cp] = NULL
    <2>1. mem.start \in [Cells -> Nat] /\ mem.order \in [Cells -> Nat]
      BY <1>7 DEF MemType
    <2>2. merged.start[cp] = (IF s < b THEN s ELSE b) /\ merged.order[cp] = level + 1
      BY <1>3, <1>13, <2>1
    <2>3. merged.start[myBuddy] = b
      BY <1>8, <1>12, <1>14
    <2> QED
      BY <1>3, <1>5, <1>13, <2>2, <2>3
  <1>17. /\ Sound(u) /\ ListedCells(u) = ListedCells(merged) \ {myBuddy}
         /\ u.live = merged.live /\ u.start = merged.start /\ u.order = merged.order
         /\ Starts(u) = [Starts(merged) EXCEPT ![level] = RemoveFirst(@, merged.start[myBuddy])]
         /\ \A d \in Cells \ ListedCells(merged) : u.chunkPointer[d] = merged.chunkPointer[d]
    <2>1. IsInjective(Starts(merged)[level])
      BY <1>4, <1>15
    <2>2. at \in 1..Len(CellsOf(merged, level))
      BY <1>8, <1>15
    <2> DEFINE c == CellsOf(merged, level)[at]
               f == IF at = 1 THEN NULL ELSE CellsOf(merged, level)[at - 1]
               n == Unlink(merged, c, f, level)
    <2>3. /\ Sound(n) /\ ListedCells(n) = ListedCells(merged) \ {c}
          /\ n.live = merged.live /\ n.start = merged.start /\ n.order = merged.order
          /\ Starts(n) = [Starts(merged) EXCEPT ![level] = RemoveFirst(@, merged.start[c])]
          /\ \A d \in Cells \ ListedCells(merged) : n.chunkPointer[d] = merged.chunkPointer[d]
      BY <1>3, <1>15, <2>1, <2>2, UnlinkKeeps
    <2>4. c = myBuddy /\ f = front
      BY <1>15 DEF myBuddy, front
    <2> HIDE DEF c, f
    <2>5. u = n
      BY <2>4
    <2> HIDE DEF u, n
    <2> QED
      BY <2>3, <2>4, <2>5
  <1> HIDE DEF u
  <1>18. /\ Sound(mem') /\ ListedCells(mem') = ListedCells(u) /\ Starts(mem') = Starts(u)
         /\ mem'.live = u.live \ {myBuddy}
         /\ \A d \in Cells \ {myBuddy} : /\ mem'.start[d] = u.start[d] /\ mem'.order[d] = u.order[d]
                                         /\ mem'.chunkPointer[d] = u.chunkPointer[d]
    <2>1. Sound(u) /\ myBuddy \in Cells /\ myBuddy \notin ListedCells(u)
      BY <1>12, <1>17
    <2> QED
      BY <1>1, <2>1, FreeCellKeeps
  <1>19. Starts(mem') = MergedTo(op, level + 1)
    BY <1>5, <1>6, <1>15, <1>16, <1>17, <1>18
  <1>20. /\ mem'.start[cp] = StartAt(p, level + 1) /\ mem'.order[cp] = level + 1
         /\ mem'.chunkPointer[cp] = NULL
    <2>1. cp \in Cells \ {myBuddy} /\ cp \in Cells \ ListedCells(merged)
      BY <1>3, <1>12, <1>15
    <2>2. /\ mem'.start[cp] = u.start[cp] /\ mem'.order[cp] = u.order[cp]
          /\ mem'.chunkPointer[cp] = u.chunkPointer[cp]
      BY <1>18, <2>1
    <2>3. u.chunkPointer[cp] = merged.chunkPointer[cp]
      BY <1>17, <2>1
    <2> QED
      BY <1>16, <1>17, <2>2, <2>3
  <1>21. CellsInv'
    <2>1. cp \notin ListedCells(mem') /\ mem'.live = ListedCells(mem') \cup {cp}
      BY <1>3, <1>12, <1>13, <1>15, <1>17, <1>18
    <2>2. cp \in CellOrNull /\ ({cp} \ {NULL}) = {cp}
      BY <1>3, <1>6 DEF CellOrNull
    <2> QED
      BY <1>1, <1>18, <1>20, <2>1, <2>2 DEF CellsInv
  <1>22. PlaceInv'
    BY <1>1, <1>10, <1>11 DEF PlaceInv
  <1>23. FreeInv'
    <2>1. records' = ops' \ {op} /\ asked' = op.order /\ chunks'[asked'] # <<>>
      BY <1>1, <1>6
    <2>2. asked' <= level'
      BY <1>1, <1>3, <1>6, <1>10
    <2>3. \A i \in asked'..(level' - 1) : MergesAt(op.page, i)'
      <3>1. \A i : MergesAt(op.page, i)' <=> MergesAt(op.page, i)
        BY <1>1 DEF MergesAt
      <3>2. TAKE i \in asked'..(level' - 1)
      <3>3. i = level \/ i \in asked..(level - 1)
        BY <1>1, <1>3, <1>10
      <3> QED
        BY <1>6, <1>9, <3>1, <3>3 DEF p
    <2>4. cp' # NULL /\ mem'.start[cp'] = StartAt(op.page, level')
      BY <1>1, <1>6, <1>20 DEF p
    <2>5. MergedTo(op, level)' = MergedTo(op, level + 1)
      BY <1>1 DEF MergedTo
    <2>6. Freeing(op)'
      BY <1>19, <2>1, <2>2, <2>3, <2>4, <2>5 DEF Freeing
    <2> QED
      BY <1>1, <2>6 DEF FreeInv
  <1> QED
    BY <1>1, <1>21, <1>22, <1>23 DEF HeapInv, InitInv, IdleInv, AllocInv, FiniInv, vars

LEMMA FreeInsertKeeps ==
  ASSUME HeapInv, BuddyInv, FreeInsert
  PROVE  HeapInv' /\ [Next]_vars
PROOF
  <1> DEFINE n == insertChunkList(mem, cp, level)
  <1>1. /\ pc = "free" /\ (Found = {} \/ level >= MAX_ORDER)
        /\ mem' = n /\ UNCHANGED <<records, allocated, free>> /\ Return
    BY DEF FreeInsert
  <1>2. PICK op \in ops : Freeing(op)
    BY <1>1 DEF HeapInv, FreeInv
  <1> DEFINE p == op.page
             o == op.order
             b == BuddyOf(StartAt(p, level), level)
  <1>3. /\ Sound(mem) /\ cp \in Cells /\ cp \notin ListedCells(mem)
        /\ mem.live = ListedCells(mem) \cup {cp}
        /\ mem.chunkPointer[cp] = NULL /\ mem.order[cp] = level
        /\ level \in Orders /\ level \in Nat /\ o <= level
        /\ Found # {} <=> Contains(chunks[level], b)
    BY <1>1, <1>2, BuddyPlaces
  <1>4. /\ records = ops \ {op} /\ asked = o /\ chunks[o] # <<>>
        /\ \A i \in o..(level - 1) : MergesAt(p, i)
        /\ mem.start[cp] = StartAt(p, level) /\ Starts(mem) = MergedTo(op, level)
    BY <1>2 DEF Freeing
  <1>5. ~MergesAt(p, level)
    <2>1. CASE Found = {}
      BY <1>3, <2>1 DEF MergesAt
    <2>2. CASE level >= MAX_ORDER
      BY <1>3, <2>2, BuddyAssumption DEF MergesAt
    <2> QED
      BY <1>1, <2>1, <2>2
  <1>6. Merge(p, o) = [MergedTo(op, level) EXCEPT ![level] = Append(@, StartAt(p, level))]
    BY <1>3, <1>4, <1>5, MergesUp
  <1>7. cp \in mem.live
    BY <1>3
  <1> HIDE DEF p, o, b
  <1>8. /\ Sound(n) /\ ListedCells(n) = ListedCells(mem) \cup {cp} /\ n.live = mem.live
        /\ Starts(n) = [Starts(mem) EXCEPT ![level] = Append(@, mem.start[cp])]
    BY <1>3, <1>7, InsertKeeps
  <1> HIDE DEF n
  <1>9. Sound(mem') /\ mem'.live = ListedCells(mem')
    BY <1>1, <1>3, <1>8
  <1>10. HeapInv' /\ chunks' = Starts(mem') /\ ops' = records'
    BY <1>1, <1>9, ReturnKeeps
  <1>11. chunks' = Merge(p, o)
    BY <1>1, <1>4, <1>6, <1>8, <1>10
  <1>12. ops' = ops \ {op}
    BY <1>1, <1>4, <1>10
  <1>13. Free(op)
    BY <1>1, <1>4, <1>11, <1>12 DEF Free, p, o
  <1> QED
    BY <1>10, <1>13 DEF Next

LEMMA QuitKeeps ==
  ASSUME HeapInv, Quit
  PROVE  HeapInv' /\ [Next]_vars
PROOF
  <1>1. /\ pc = "idle" /\ pc' = "fini" /\ asked' = 0 /\ level' = 0
        /\ UNCHANGED <<chunks, ops, mem, records, allocated, free, cp>>
    BY DEF Quit, Enter
  <1>2. 0 \in Orders /\ ~\E i \in Orders : i < 0
    BY OrdersAre, BuddyAssumption DEF Orders
  <1>3. CellsInv'
    <2>1. CellsInv /\ cp = NULL
      BY <1>1 DEF HeapInv, CellsInv
    <2> QED
      BY <1>1, <2>1 DEF CellsInv
  <1>4. PlaceInv'
    BY <1>1, <1>2 DEF PlaceInv
  <1> QED
    BY <1>1, <1>2, <1>3, <1>4 DEF HeapInv, InitInv, IdleInv, AllocInv, FreeInv, FiniInv, vars

LEMMA FiniRoundKeeps ==
  ASSUME HeapInv, FiniRound
  PROVE  HeapInv' /\ [Next]_vars
PROOF
  <1>1. pc = "fini" /\ UNCHANGED <<records, allocated, free, asked, cp, chunks, ops>>
    BY DEF FiniRound
  <1>2. /\ Sound(mem) /\ cp = NULL /\ mem.live = ListedCells(mem)
        /\ level \in Orders /\ level \in Nat /\ asked \in Orders
        /\ \A i \in Orders : i < level => CellsOf(mem, i) = <<>>
    BY <1>1 DEF HeapInv, CellsInv, PlaceInv, FiniInv
  <1>3. UNCHANGED vars
    BY <1>1 DEF vars
  <1>4. CASE IsEmptyList(level)
    <2>1. /\ mem' = mem /\ level' = level + 1
          /\ pc' = IF level = MAX_ORDER THEN "ended" ELSE pc
      BY <1>4 DEF FiniRound
    <2>2. CellsInv'
      BY <1>1, <1>2, <2>1 DEF HeapInv, CellsInv
    <2>3. level' \in Nat /\ (pc' = "fini" => level' \in Orders)
      BY <1>2, <2>1, <1>1, BuddyAssumption DEF Orders
    <2>4. PlaceInv'
      BY <1>1, <1>2, <2>1, <2>3 DEF PlaceInv
    <2>5. FiniInv'
      <3>1. CellsOf(mem, level) = <<>>
        BY <1>2, <1>4, EmptyLists, SoundIs
      <3>2. \A i \in Orders : i < level' => i < level \/ i = level
        BY <1>2, <2>1, OrdersAre
      <3> QED
        BY <1>1, <1>2, <2>1, <3>1, <3>2 DEF FiniInv
    <2> QED
      BY <1>1, <1>3, <2>1, <2>2, <2>4, <2>5 DEF HeapInv, InitInv, IdleInv, AllocInv, FreeInv
  <1>5. CASE ~IsEmptyList(level)
    <2> DEFINE c == mem.first[level]
               m == removeChunkList(mem, level)
    <2>1. mem' = FreeChunk(m, c) /\ UNCHANGED <<level, pc>>
      BY <1>5 DEF FiniRound
    <2>2. Starts(mem)[level] # <<>>
      BY <1>2, <1>5, EmptyLists
    <2>3. /\ Sound(m) /\ ListedCells(m) = ListedCells(mem) \ {c} /\ m.live = mem.live
          /\ Starts(m) = [Starts(mem) EXCEPT ![level] = Tail(@)]
          /\ c \in Cells /\ c \in ListedCells(mem)
      BY <1>2, <2>2, RemoveKeeps
    <2> HIDE DEF c, m
    <2>4. /\ Sound(mem') /\ ListedCells(mem') = ListedCells(m) /\ Starts(mem') = Starts(m)
          /\ mem'.live = m.live \ {c}
      BY <2>1, <2>3, FreeCellKeeps
    <2>5. mem'.live = ListedCells(mem')
      BY <1>2, <2>3, <2>4
    <2>6. CellsInv'
      <3>1. NULL \notin ListedCells(mem')
        BY <2>4, SoundIs
      <3> QED
        BY <1>1, <1>2, <2>1, <2>4, <2>5, <3>1 DEF CellsInv, CellOrNull
    <2>7. PlaceInv'
      BY <1>1, <1>2, <2>1 DEF PlaceInv
    <2>8. FiniInv'
      <3>1. ASSUME NEW i \in Orders, i < level PROVE CellsOf(mem', i) = <<>>
        <4>1. Starts(mem)[i] = <<>>
          BY <1>2, <3>1, SoundIs
        <4>2. i # level
          BY <1>2, <3>1
        <4>3. Starts(mem')[i] = <<>>
          BY <2>3, <2>4, <4>1, <4>2 DEF Starts
        <4> QED
          BY <2>4, <4>3, SoundIs
      <3> QED
        BY <1>1, <2>1, <3>1 DEF FiniInv
    <2> QED
      BY <1>1, <1>3, <2>1, <2>6, <2>7, <2>8 DEF HeapInv, InitInv, IdleInv, AllocInv, FreeInv
  <1> QED
    BY <1>4, <1>5

-----------------------------------------------------------------------------

LEMMA HeapStep == HeapInv /\ BuddyInv /\ [HeapNext]_heapVars => HeapInv' /\ [Next]_vars
PROOF
  <1> SUFFICES ASSUME HeapInv, BuddyInv, [HeapNext]_heapVars PROVE HeapInv' /\ [Next]_vars
    OBVIOUS
  <1>1. CASE InitRound
    BY <1>1, InitRoundKeeps
  <1>2. ASSUME NEW ord \in Orders, AllocFirst(ord) PROVE HeapInv' /\ [Next]_vars
    BY <1>2, AllocFirstKeeps
  <1>3. ASSUME NEW ord \in Orders, AllocSplit(ord) PROVE HeapInv' /\ [Next]_vars
    BY <1>3, AllocSplitKeeps
  <1>4. ASSUME NEW op \in records, FreeAlone(op) PROVE HeapInv' /\ [Next]_vars
    BY <1>4, FreeAloneKeeps
  <1>5. ASSUME NEW op \in records, FreeSearch(op) PROVE HeapInv' /\ [Next]_vars
    BY <1>5, FreeSearchKeeps
  <1>6. CASE SplitRound
    BY <1>6, SplitRoundKeeps
  <1>7. CASE MergeRound
    BY <1>7, MergeRoundKeeps
  <1>8. CASE FreeInsert
    BY <1>8, FreeInsertKeeps
  <1>9. CASE Quit
    BY <1>9, QuitKeeps
  <1>10. CASE FiniRound
    BY <1>10, FiniRoundKeeps
  <1>11. CASE UNCHANGED heapVars
    <2>1. UNCHANGED <<mem, records, pc, asked, cp, level, chunks, ops>> /\ UNCHANGED vars
      BY <1>11 DEF heapVars, vars
    <2>3. CellsInv' /\ PlaceInv' /\ InitInv' /\ IdleInv' /\ FiniInv'
      BY <2>1 DEF HeapInv, CellsInv, PlaceInv, InitInv, IdleInv, FiniInv
    <2>4. AllocInv'
      BY <2>1 DEF HeapInv, AllocInv, highOrder, HigherOrders, SplitTo
    <2>5. FreeInv'
      BY <2>1 DEF HeapInv, FreeInv, Freeing, MergedTo, MergesAt
    <2> QED
      BY <2>1, <2>3, <2>4, <2>5 DEF HeapInv
  <1> QED
    BY <1>1, <1>2, <1>3, <1>4, <1>5, <1>6, <1>7, <1>8, <1>9, <1>10, <1>11 DEF HeapNext

\* The linked lists are well formed at every iteration of every loop, each live
\* cell in one of them or in hand, and hold what the sequences of Buddy say.
THEOREM HeapInvariance == HeapSpec => [](HeapInv /\ BuddyInv)
PROOF
  <1>1. HeapInit => HeapInv /\ BuddyInv
    BY HeapInitInv, BuddyInvInit DEF HeapInit
  <1>2. HeapInv /\ BuddyInv /\ [HeapNext]_heapVars => (HeapInv /\ BuddyInv)'
    BY HeapStep, BuddyInvNext
  <1> QED
    BY <1>1, <1>2, PTL DEF HeapSpec

\* The pointer surgery of init_buddy, alloc_pages and free_pages does, call by
\* call, what Buddy's sequences do: so all that is proved of Buddy holds of the
\* linked lists.
THEOREM HeapImplementsBuddy == HeapSpec => ImplementsBuddy
PROOF
  <1>1. HeapInit => Init
    BY DEF HeapInit
  <1>2. HeapInv /\ BuddyInv /\ [HeapNext]_heapVars => [Next]_vars
    BY HeapStep
  <1> QED
    BY <1>1, <1>2, HeapInvariance, PTL DEF HeapSpec, ImplementsBuddy, Spec

LEMMA HeapHasNoLeak == HeapInv => NoLeak
PROOF
  <1> SUFFICES ASSUME HeapInv PROVE NoLeak
    OBVIOUS
  <1>1. /\ Sound(mem) /\ cp \notin ListedCells(mem)
        /\ mem.live = ListedCells(mem) \cup ({cp} \ {NULL})
        /\ pc = "ended" => cp = NULL
    BY DEF HeapInv, CellsInv
  <1>2. Linked = ListedCells(mem)
    BY DEF Linked, ListedCells
  <1>3. ASSUME pc = "ended" PROVE mem.live = {}
    <2>1. level = MAX_ORDER + 1 /\ \A i \in Orders : i < level => CellsOf(mem, i) = <<>>
      BY <1>3 DEF HeapInv, FiniInv
    <2>2. \A i \in Orders : i < level
      BY <2>1, BuddyAssumption DEF Orders
    <2>3. \A i \in Orders : Range(CellsOf(mem, i)) = {}
      BY <2>1, <2>2 DEF Range
    <2>4. ListedCells(mem) = {}
      BY <2>3 DEF ListedCells
    <2> QED
      BY <1>1, <1>3, <2>4
  <1> QED
    BY <1>1, <1>2, <1>3 DEF NoLeak

\* No struct chunk is leaked, none freed while a list holds it: malloc and free
\* balance at every iteration, and fini_buddy leaves no cell behind.
THEOREM NothingLeaks == HeapSpec => []NoLeak
PROOF
  BY HeapInvariance, HeapHasNoLeak, PTL
=============================================================================
