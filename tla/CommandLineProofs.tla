------------------------- MODULE CommandLineProofs --------------------------
(***************************************************************************)
(* Proofs about CommandLine, for lines and values of PATH of any length.   *)
(***************************************************************************)
EXTENDS CommandLine, FiniteSetTheorems, SequenceTheorems, TLAPS

-----------------------------------------------------------------------------
(* Numbers in their order.                                                 *)

Below(S, k) == {j \in S : j < k}

\* Different elements have different numbers of elements below them.
LEMMA RankDiffers ==
  ASSUME NEW S, S \subseteq Nat, IsFiniteSet(S), NEW k \in S, NEW m \in S, k < m
  PROVE  /\ Cardinality(Below(S, k)) \in Nat /\ Cardinality(Below(S, m)) \in Nat
         /\ Cardinality(Below(S, k)) < Cardinality(Below(S, m))
         /\ Cardinality(Below(S, m)) < Cardinality(S)
PROOF
  <1>1. /\ IsFiniteSet(Below(S, k)) /\ IsFiniteSet(Below(S, m))
        /\ Cardinality(Below(S, k)) \in Nat /\ Cardinality(Below(S, m)) \in Nat
        /\ Cardinality(S) \in Nat
    <2>1. Below(S, k) \in SUBSET S /\ Below(S, m) \in SUBSET S
      BY DEF Below
    <2> QED
      BY <2>1, FS_Subset, FS_CardinalityType
  <1>2. Cardinality(Below(S, k)) < Cardinality(Below(S, m))
    <2>0. k \in Nat /\ m \in Nat /\ \A j \in S : j \in Nat
      OBVIOUS
    <2>1. ASSUME NEW j \in S, j < k PROVE j < m
      BY <2>0, <2>1
    <2>2. Below(S, k) \subseteq Below(S, m)
      BY <2>1 DEF Below
    <2>3. k \in Below(S, m) /\ k \notin Below(S, k)
      BY <2>0 DEF Below
    <2>4. Cardinality(Below(S, k)) # Cardinality(Below(S, m))
      BY <1>1, <2>2, <2>3, FS_Subset
    <2>5. Cardinality(Below(S, k)) <= Cardinality(Below(S, m))
      BY <1>1, <2>2, FS_Subset
    <2> QED
      BY <1>1, <2>4, <2>5
  <1>3. Cardinality(Below(S, m)) < Cardinality(S)
    <2>1. Below(S, m) \in SUBSET S /\ m \notin Below(S, m)
      BY DEF Below
    <2> QED
      BY <1>1, <2>1, FS_Subset
  <1> QED
    BY <1>1, <1>2, <1>3

\* No element has all elements below it.
LEMMA RankBounded ==
  ASSUME NEW S, S \subseteq Nat, IsFiniteSet(S), NEW k \in S
  PROVE  Cardinality(Below(S, k)) \in 0..(Cardinality(S) - 1)
PROOF
  <1>1. Below(S, k) \in SUBSET S /\ k \notin Below(S, k)
    BY DEF Below
  <1>2. IsFiniteSet(Below(S, k)) /\ Cardinality(Below(S, k)) <= Cardinality(S)
        /\ Cardinality(Below(S, k)) # Cardinality(S)
    BY <1>1, FS_Subset
  <1>3. Cardinality(Below(S, k)) \in Nat /\ Cardinality(S) \in Nat
    BY <1>2, FS_CardinalityType
  <1> QED
    BY <1>2, <1>3

\* The number of elements below one tells which it is.
LEMMA RankTells ==
  ASSUME NEW S, S \subseteq Nat, IsFiniteSet(S), NEW k \in S, NEW m \in S,
         Cardinality(Below(S, k)) = Cardinality(Below(S, m))
  PROVE  k = m
PROOF
  <1>1. k \in Nat /\ m \in Nat
    OBVIOUS
  <1>2. ~(k < m)
    <2> SUFFICES ASSUME k < m PROVE FALSE
      OBVIOUS
    <2>1. /\ Cardinality(Below(S, k)) \in Nat /\ Cardinality(Below(S, m)) \in Nat
          /\ Cardinality(Below(S, k)) < Cardinality(Below(S, m))
      BY RankDiffers
    <2> QED
      BY <1>1, <2>1
  <1>3. ~(m < k)
    <2> SUFFICES ASSUME m < k PROVE FALSE
      OBVIOUS
    <2>1. /\ Cardinality(Below(S, k)) \in Nat /\ Cardinality(Below(S, m)) \in Nat
          /\ Cardinality(Below(S, m)) < Cardinality(Below(S, k))
      BY RankDiffers
    <2> QED
      BY <1>1, <2>1
  <1> QED
    BY <1>1, <1>2, <1>3

\* Some element has each number of elements below it.
LEMMA RankExists ==
  ASSUME NEW S, S \subseteq Nat, IsFiniteSet(S), NEW n \in 0..(Cardinality(S) - 1)
  PROVE  \E k \in S : Cardinality(Below(S, k)) = n
PROOF
  <1> DEFINE c == Cardinality(S)
             R == 0..(c - 1)
             f == [k \in S |-> Cardinality(Below(S, k))]
  <1>1. c \in Nat
    BY FS_CardinalityType
  <1>2. IsFiniteSet(R) /\ Cardinality(R) = c
    <2>1. 0 \in Int /\ c - 1 \in Int
      BY <1>1
    <2> QED
      BY <1>1, <2>1, FS_Interval
  <1>3. f \in [S -> R]
    BY RankBounded
  <1>4. ASSUME NEW k \in S, NEW m \in S, f[k] = f[m] PROVE k = m
    <2>1. Cardinality(Below(S, k)) = Cardinality(Below(S, m))
      BY <1>4
    <2> QED
      BY <2>1, RankTells
  <1>5. f \in Injection(S, R)
    BY <1>3, <1>4 DEF Injection, IsInjective
  <1>6. f \in Surjection(S, R)
    BY <1>2, <1>5, FS_Injection
  <1> QED
    BY <1>6 DEF Surjection

\* The least number has none below it.
LEMMA MinIs ==
  ASSUME NEW S, S \subseteq Nat, IsFiniteSet(S), S # {}
  PROVE  Min(S) \in S /\ \A k \in S : Min(S) <= k
PROOF
  <1>1. Cardinality(S) \in Nat /\ Cardinality(S) # 0
    <2>1. Cardinality(S) # 0
      BY FS_EmptySet
    <2>2. Cardinality(S) \in Nat
      BY FS_CardinalityType
    <2> QED
      BY <2>1, <2>2
  <1>2. 0 \in 0..(Cardinality(S) - 1)
    BY <1>1
  <1>3. PICK m \in S : Cardinality(Below(S, m)) = 0
    BY <1>2, RankExists
  <1>4. Below(S, m) = {}
    <2>1. Below(S, m) \in SUBSET S
      BY DEF Below
    <2>2. IsFiniteSet(Below(S, m))
      BY <2>1, FS_Subset
    <2> QED
      BY <1>3, <2>2, FS_EmptySet
  <1>5. \A k \in S : m <= k
    <2>1. \A k \in S : ~(k < m) /\ k \in Nat /\ m \in Nat
      BY <1>4 DEF Below
    <2> QED
      BY <2>1
  <1> QED
    BY <1>5 DEF Min

\* InOrder gives each element the place after those below it.
LEMMA PlaceInOrder ==
  ASSUME NEW S, S \subseteq Nat, IsFiniteSet(S), NEW k \in S
  PROVE  /\ Cardinality(Below(S, k)) + 1 \in 1 .. Cardinality(S)
         /\ InOrder(S)[Cardinality(Below(S, k)) + 1] = k
PROOF
  <1> DEFINE n == Cardinality(Below(S, k)) + 1
             P(m) == Cardinality({j \in S : j < m}) = n - 1
  <1>1. /\ Cardinality(S) \in Nat /\ n \in 1 .. Cardinality(S)
        /\ Cardinality(Below(S, k)) \in Nat
    <2>1. Cardinality(S) \in Nat
      BY FS_CardinalityType
    <2>2. Cardinality(Below(S, k)) \in 0..(Cardinality(S) - 1)
      BY RankBounded
    <2> QED
      BY <2>1, <2>2
  <1>2. P(k)
    <2>1. Cardinality(Below(S, k)) \in Nat
      BY <1>1
    <2> QED
      BY <2>1 DEF Below
  <1>3. ASSUME NEW m \in S, P(m) PROVE m = k
    <2>1. Cardinality(Below(S, m)) = n - 1
      BY <1>3 DEF Below
    <2>2. Cardinality(Below(S, k)) \in Nat
      BY <1>1
    <2>3. Cardinality(Below(S, m)) = Cardinality(Below(S, k)) /\ m \in Nat /\ k \in Nat
      BY <2>1, <2>2
    <2> HIDE DEF n, P
    <2> QED
      BY <2>3, RankTells
  <1>4. (CHOOSE m \in S : P(m)) = k
    BY <1>2, <1>3
  <1>5. InOrder(S)[n] = CHOOSE m \in S : P(m)
    BY <1>1 DEF InOrder
  <1> QED
    BY <1>1, <1>4, <1>5

\* InOrder is a sequence of all the elements.
LEMMA InOrderIs ==
  ASSUME NEW S, S \subseteq Nat, IsFiniteSet(S)
  PROVE  /\ Cardinality(S) \in Nat
         /\ InOrder(S) \in Seq(S) /\ Len(InOrder(S)) = Cardinality(S)
         /\ \A n \in 1 .. Cardinality(S) : \E k \in S :
              n = Cardinality(Below(S, k)) + 1 /\ InOrder(S)[n] = k
PROOF
  <1>1. Cardinality(S) \in Nat
    BY FS_CardinalityType
  <1>2. ASSUME NEW n \in 1 .. Cardinality(S)
        PROVE  \E k \in S : n = Cardinality(Below(S, k)) + 1 /\ InOrder(S)[n] = k
    <2>1. n - 1 \in 0..(Cardinality(S) - 1)
      BY <1>1
    <2>2. PICK k \in S : Cardinality(Below(S, k)) = n - 1
      BY <2>1, RankExists
    <2>3. InOrder(S)[Cardinality(Below(S, k)) + 1] = k
      BY PlaceInOrder
    <2> QED
      BY <1>1, <2>2, <2>3
  <1>3. InOrder(S) \in [1 .. Cardinality(S) -> S]
    <2> DEFINE e(n) == CHOOSE k \in S : Cardinality({j \in S : j < k}) = n - 1
    <2>1. InOrder(S) = [n \in 1 .. Cardinality(S) |-> e(n)]
      BY DEF InOrder
    <2> HIDE DEF e
    <2>2. \A n \in 1 .. Cardinality(S) : e(n) \in S
      BY <1>2, <2>1
    <2> QED
      BY <2>1, <2>2
  <1> QED
    BY <1>1, <1>2, <1>3

\* A larger number comes last.
LEMMA InOrderGrows ==
  ASSUME NEW S, S \subseteq Nat, IsFiniteSet(S), NEW m \in Nat, \A k \in S : k < m
  PROVE  /\ IsFiniteSet(S \cup {m})
         /\ Cardinality(S \cup {m}) = Cardinality(S) + 1
         /\ InOrder(S \cup {m}) = Append(InOrder(S), m)
PROOF
  <1> DEFINE T == S \cup {m}
  <1>1. m \notin S /\ T \subseteq Nat
    OBVIOUS
  <1>2. IsFiniteSet(T) /\ Cardinality(T) = Cardinality(S) + 1
    BY <1>1, FS_AddElement
  <1>3. /\ Cardinality(S) \in Nat /\ InOrder(S) \in Seq(S) /\ Len(InOrder(S)) = Cardinality(S)
        /\ \A n \in 1 .. Cardinality(S) : \E k \in S :
             n = Cardinality(Below(S, k)) + 1 /\ InOrder(S)[n] = k
    BY InOrderIs
  <1>4. InOrder(T) \in Seq(T) /\ Len(InOrder(T)) = Cardinality(T)
    BY <1>1, <1>2, InOrderIs
  <1>5. ASSUME NEW n \in 1 .. Cardinality(S) PROVE InOrder(T)[n] = InOrder(S)[n]
    <2>1. PICK k \in S : n = Cardinality(Below(S, k)) + 1 /\ InOrder(S)[n] = k
      BY <1>3
    <2>2. Below(T, k) = Below(S, k) /\ k \in T
      BY DEF Below
    <2>3. InOrder(T)[Cardinality(Below(T, k)) + 1] = k
      BY <1>1, <1>2, <2>2, PlaceInOrder
    <2> QED
      BY <2>1, <2>2, <2>3
  <1>6. InOrder(T)[Cardinality(S) + 1] = m
    <2>1. Below(T, m) = S /\ m \in T
      <3>1. ~(m < m) /\ \A x \in T : x # m => x \in S
        OBVIOUS
      <3> QED
        BY <3>1 DEF Below
    <2>2. InOrder(T)[Cardinality(Below(T, m)) + 1] = m
      BY <1>1, <1>2, <2>1, PlaceInOrder
    <2> QED
      BY <2>1, <2>2
  <1> DEFINE s == InOrder(S)
             t == InOrder(T)
  <1> HIDE DEF s, t, T
  <1>7. s \in Seq(T) /\ m \in T
    BY <1>3 DEF s, T
  <1>8. /\ Append(s, m) \in Seq(T) /\ Len(Append(s, m)) = Len(s) + 1
        /\ \A i \in 1 .. Len(s) : Append(s, m)[i] = s[i]
        /\ Append(s, m)[Len(s) + 1] = m
    BY <1>7, AppendProperties
  <1>9. t = Append(s, m)
    <2>1. Len(t) = Len(Append(s, m)) /\ t \in Seq(T) /\ Len(s) \in Nat
      BY <1>2, <1>3, <1>4, <1>8 DEF s, t
    <2>2. \A i \in 1 .. Len(t) : t[i] = Append(s, m)[i]
      BY <1>3, <1>5, <1>6, <1>8, <2>1 DEF s, t
    <2> QED
      BY <1>8, <2>1, <2>2, SeqEqual
  <1> QED
    BY <1>2, <1>9 DEF s, t, T

-----------------------------------------------------------------------------
(* The invariants.                                                         *)

TypeInv ==
  /\ line \in Seq(Chars) /\ line # <<>> /\ PATH \in Seq(Chars)
  /\ pc \in {"parse", "quote", "undefined", "null", "ampersand", "path", "entry", "search",
            "pipe", "run", "done"}
  /\ inputIndex \in 1 .. Len(line) + 1 /\ spaceFlag \in {0, 1}
  /\ buffer \in Seq(Chars)
  /\ argv \in Seq(Seq(Chars)) /\ argc = Len(argv)
  /\ argv1 \in Seq(Seq(Chars)) /\ argv2 \in Seq(Seq(Chars))
  /\ findAmp \in BOOLEAN
  /\ parsedPath \in Seq(Seq(Chars)) /\ pathIndex \in Nat

\* Where there are words, entries, and no copies of words.
StageInv ==
  /\ pc \in {"ampersand", "path", "entry", "search", "pipe", "run"} => argv # <<>>
  /\ pc \in {"parse", "quote", "ampersand", "pipe"} => argv1 = <<>> /\ argv2 = <<>>
  /\ pc \in {"path", "entry", "search"} /\ argv2 = <<>> => argv1 = <<>>
  /\ pc = "entry" => pathIndex \in DOMAIN PATH /\ parsedPath # <<>>
  /\ pc \in {"search", "pipe", "run"} => PATH # <<>>
  /\ pc = "search" => pathIndex \in DOMAIN parsedPath

\* The words allocated are those the arrays point to.
HeapInv ==
  IF pc = "done"
    THEN heap = {}
    ELSE heap = {<<"argv", i>> : i \in DOMAIN argv} \cup {<<"argv1", i>> : i \in DOMAIN argv1}
                  \cup {<<"argv2", i>> : i \in DOMAIN argv2}

\* The words that begin at the places of S.
WordsOf(S) == [i \in DOMAIN InOrder(S) |-> WordAt(InOrder(S)[i])]

\* A word begins at s and all characters from there to i are plain.
InWord(s, i) ==
  /\ s \in Starts /\ s < i
  /\ \A m \in s .. i - 1 : Plain(m)

\* The words before i are in argv, but for the one that i is in.
ParsedTo(i) ==
  /\ QuotesBefore(i) % 2 = 0
  /\ spaceFlag = 0 <=> i > 1 /\ Plain(i - 1)
  /\ IF spaceFlag = 0 /\ i <= Len(line)
       THEN \E s \in Starts : /\ InWord(s, i)
                              /\ Below(Starts, i) = Below(Starts, s) \cup {s}
                              /\ buffer = SubSeq(line, s, i - 1)
                              /\ argv = WordsOf(Below(Starts, s))
       ELSE argv = WordsOf(Below(Starts, i)) /\ (spaceFlag = 1 => buffer = <<>>)

\* The same between quotes.
QuotedTo(i) ==
  /\ QuotesBefore(i) % 2 = 1
  /\ spaceFlag = 1
  /\ \E o \in Starts : /\ o < i /\ Opening(o)
                       /\ \A m \in o + 1 .. i - 1 : line[m] # Quote
                       /\ Below(Starts, i) = Below(Starts, o) \cup {o}
                       /\ buffer = SubSeq(line, o + 1, i - 1)
                       /\ argv = WordsOf(Below(Starts, o))

ParseInv ==
  WellFormed =>
    /\ pc = "parse" => ParsedTo(inputIndex)
    /\ pc = "quote" => QuotedTo(inputIndex)
    /\ pc \in {"parse", "quote", "ampersand"} => findAmp = FALSE
    /\ pc = "ampersand" => argv = Words

\* The entries of PATH before i, the last not ended.
ColonsTo(i) == {k \in DOMAIN PATH : PATH[k] = ":" /\ k < i}
Pieces(ends) == [n \in 1 .. Len(ends) - 1 |-> SubSeq(PATH, ends[n] + 1, ends[n + 1] - 1)]
EntriesTo(i) == Pieces(InOrder(ColonsTo(i) \cup {0, i}))

Full(n, name) == Entries[n] \o <<"/">> \o name

PathInv ==
  /\ pc = "entry" => pathIndex \in DOMAIN PATH /\ parsedPath = EntriesTo(pathIndex)
  /\ pc = "search" => /\ parsedPath = Entries /\ pathIndex \in DOMAIN Entries
                      /\ \A n \in 1 .. pathIndex - 1 : Full(n, Name) \notin files

\* The words after the first was resolved, and those behind the bar.
FirstResolved == [Command EXCEPT ![1] = Resolved(Command[1])]
Second == SubSeq(Command, Min(Bars) + 1, Len(Command))
Before == SubSeq(FirstResolved, 1, Min(Bars) - 1)

Resolving == pc \in {"path", "entry", "search"}

CommandInv ==
  WellFormed =>
    /\ pc \in {"path", "entry", "search", "pipe", "run"} =>
         Command \in Seq(Seq(Chars)) /\ Command # <<>> /\ findAmp = InBackground
    /\ Resolving /\ ~InPipe => argv = Command /\ argv1 = <<>>
    /\ pc = "pipe" => argv = FirstResolved
    /\ Resolving /\ InPipe =>
         /\ argv = FirstResolved /\ IsPipe /\ Min(Bars) # Len(Command)
         /\ argv1 = Before /\ argv2 = Second
    /\ pc = "run" =>
         /\ argv = FirstResolved
         /\ IF IsPipe THEN /\ Min(Bars) # Len(Command)
                           /\ argv1 = Before
                           /\ argv2 = [Second EXCEPT ![1] = Resolved(Second[1])]
                      ELSE argv1 = <<>> /\ argv2 = <<>>
    /\ pc = "null" => Command = <<>> \/ (IsPipe /\ Min(Bars) = Len(Command))

-----------------------------------------------------------------------------
(* Types, stages and the words allocated.                                  *)

LEMMA SubSeqIs ==
  ASSUME NEW T, NEW s \in Seq(T), NEW m \in 1 .. Len(s) + 1, NEW n \in m - 1 .. Len(s)
  PROVE  /\ SubSeq(s, m, n) \in Seq(T) /\ Len(SubSeq(s, m, n)) = n - m + 1
         /\ \A i \in 1 .. n - m + 1 : SubSeq(s, m, n)[i] = s[m + i - 1]
PROOF
  <1>0. Len(s) \in Nat
    BY LenProperties
  <1>1. m \in Int /\ n \in Int
    BY <1>0
  <1>2. \A i \in m .. n : s[i] \in T
    BY <1>0
  <1>3. /\ SubSeq(s, m, n) \in Seq(T)
        /\ Len(SubSeq(s, m, n)) = IF m <= n THEN n - m + 1 ELSE 0
        /\ \A i \in 1 .. n - m + 1 : SubSeq(s, m, n)[i] = s[m + i - 1]
    BY <1>1, <1>2, SubSeqProperties
  <1>4. ~(m <= n) => n - m + 1 = 0
    BY <1>0, <1>1
  <1> QED
    BY <1>3, <1>4

LEMMA FrontIs ==
  ASSUME NEW T, NEW s \in Seq(T), s # <<>>
  PROVE  /\ Front(s) \in Seq(T) /\ Len(Front(s)) = Len(s) - 1 /\ Len(s) \in Nat \ {0}
         /\ \A i \in 1 .. Len(s) - 1 : Front(s)[i] = s[i]
         /\ Last(s) = s[Len(s)] /\ Last(s) \in T
PROOF
  <1>1. Len(s) \in Nat \ {0}
    BY EmptySeq, LenProperties
  <1> DEFINE n == Len(s) - 1
  <1>2. 1 \in 1 .. Len(s) + 1 /\ n \in 1 - 1 .. Len(s) /\ n \in Nat
    BY <1>1
  <1>3. Front(s) = SubSeq(s, 1, n)
    BY DEF Front
  <1> HIDE DEF n
  <1>4. /\ SubSeq(s, 1, n) \in Seq(T) /\ Len(SubSeq(s, 1, n)) = n - 1 + 1
        /\ \A i \in 1 .. n - 1 + 1 : SubSeq(s, 1, n)[i] = s[1 + i - 1]
    BY <1>2, SubSeqIs
  <1>5. n - 1 + 1 = n /\ \A i \in 1 .. n : 1 + i - 1 = i
    BY <1>2
  <1>6. /\ Front(s) \in Seq(T) /\ Len(Front(s)) = n
        /\ \A i \in 1 .. n : Front(s)[i] = s[i]
    BY <1>3, <1>4, <1>5
  <1> QED
    BY <1>1, <1>6 DEF Last, n

\* Another first element.
LEMMA FirstReplaced ==
  ASSUME NEW T, NEW s \in Seq(T), s # <<>>, NEW x \in T
  PROVE  /\ [s EXCEPT ![1] = x] \in Seq(T) /\ [s EXCEPT ![1] = x] # <<>>
         /\ Len([s EXCEPT ![1] = x]) = Len(s) /\ DOMAIN [s EXCEPT ![1] = x] = DOMAIN s
         /\ [s EXCEPT ![1] = x][1] = x
         /\ \A i \in 2 .. Len(s) : [s EXCEPT ![1] = x][i] = s[i]
PROOF
  <1> DEFINE t == [s EXCEPT ![1] = x]
  <1>1. Len(s) \in Nat \ {0} /\ s \in [1 .. Len(s) -> T]
    BY EmptySeq, LenProperties
  <1>2. 1 \in 1 .. Len(s)
    BY <1>1
  <1>3. t \in [1 .. Len(s) -> T] /\ t[1] = x /\ \A i \in 2 .. Len(s) : t[i] = s[i]
    BY <1>1, <1>2
  <1> HIDE DEF t
  <1>4. t \in Seq(T) /\ Len(t) = Len(s) /\ DOMAIN t = DOMAIN s
    BY <1>1, <1>3
  <1>5. t # <<>>
    BY <1>1, <1>4
  <1> QED
    BY <1>3, <1>4, <1>5 DEF t

LEMMA InitTypes == Init => TypeInv /\ StageInv
PROOF
  <1> SUFFICES ASSUME Init PROVE TypeInv /\ StageInv
    OBVIOUS
  <1>1. line \in Seq(Chars) /\ line # <<>> /\ PATH \in Seq(Chars)
    BY LinesAssumption DEF Init
  <1>2. 1 \in 1 .. Len(line) + 1
    BY <1>1
  <1>3. <<>> \in Seq(Chars) /\ <<>> \in Seq(Seq(Chars)) /\ Len(<<>>) = 0
    OBVIOUS
  <1> QED
    BY <1>1, <1>2, <1>3 DEF Init, TypeInv, StageInv

LEMMA FullNameType ==
  ASSUME TypeInv, argv # <<>>, NEW e \in Seq(Chars)
  PROVE  /\ Name \in Seq(Chars)
         /\ e \o <<"/">> \o Name \in Seq(Chars)
PROOF
  <1>1. Name \in Seq(Chars)
    <2>1. argv \in Seq(Seq(Chars)) /\ argv2 \in Seq(Seq(Chars))
      BY DEF TypeInv
    <2>2. argv[1] \in Seq(Chars)
      BY <2>1
    <2>3. argv2 # <<>> => argv2[1] \in Seq(Chars)
      BY <2>1
    <2> QED
      BY <2>2, <2>3 DEF Name, InPipe
  <1>2. <<"/">> \in Seq(Chars)
    BY LinesAssumption
  <1> QED
    BY <1>1, <1>2, ConcatProperties

LEMMA ParseTypes ==
  ASSUME TypeInv, StageInv, HeapInv,
         OpenQuote \/ QuotedChar \/ Overrun \/ CloseQuote \/ SkipSpace \/ EndWord
           \/ OrdinaryChar \/ Parsed
  PROVE  TypeInv' /\ StageInv' /\ HeapInv'
PROOF
  <1>1. /\ Len(line) \in Nat /\ inputIndex \in Nat
        /\ ~AtEnd(inputIndex) => inputIndex + 1 \in 1 .. Len(line) + 1 /\ line[inputIndex] \in Chars
    BY DEF TypeInv, AtEnd
  <1>2. ASSUME NEW w \in Seq(Chars), PushWord(w)
        PROVE  argv' \in Seq(Seq(Chars)) /\ argc' = Len(argv') /\ argv' # <<>>
               /\ DOMAIN argv' = DOMAIN argv \cup {argc + 1}
    <2>1. argv \in Seq(Seq(Chars)) /\ argc = Len(argv)
      BY DEF TypeInv
    <2>2. Len(argv) \in Nat /\ argv' = Append(argv, w) /\ argc' = argc + 1
      BY <1>2, <2>1 DEF PushWord
    <2>3. argv' \in Seq(Seq(Chars)) /\ Len(argv') = Len(argv) + 1 /\ argv' # <<>>
      BY <2>1, <2>2, AppendProperties
    <2>4. DOMAIN argv' = 1 .. Len(argv) + 1 /\ DOMAIN argv = 1 .. Len(argv)
      BY <2>1, <2>3
    <2> QED
      BY <2>1, <2>2, <2>3, <2>4
  <1>3. ASSUME NEW w \in Seq(Chars), PushWord(w), pc \in {"parse", "quote"},
               UNCHANGED pipeVars, pc' # "done"
        PROVE  HeapInv'
    <2>1. DOMAIN argv' = DOMAIN argv \cup {argc + 1}
      BY <1>2, <1>3
    <2>2. heap' = heap \cup {<<"argv", argc + 1>>}
      BY <1>3 DEF PushWord
    <2>3. argv1' = argv1 /\ argv2' = argv2
      BY <1>3 DEF pipeVars
    <2>4. heap = {<<"argv", i>> : i \in DOMAIN argv} \cup {<<"argv1", i>> : i \in DOMAIN argv1}
                  \cup {<<"argv2", i>> : i \in DOMAIN argv2}
      BY <1>3 DEF HeapInv
    <2>5. {<<"argv", i>> : i \in DOMAIN argv'} = {<<"argv", i>> : i \in DOMAIN argv} \cup {<<"argv", argc + 1>>}
      BY <2>1
    <2> QED
      BY <1>3, <2>2, <2>3, <2>4, <2>5 DEF HeapInv
  <1>4. ASSUME UNCHANGED <<argv, argc, pipeVars, heap>>, pc # "done", pc' # "done" PROVE HeapInv'
    BY <1>4 DEF HeapInv, pipeVars
  <1> USE DEF input, parseVars, pathVars, pipeVars
  <1>5. CASE OpenQuote
    <2>1. TypeInv' /\ StageInv'
      BY <1>1, <1>5 DEF OpenQuote, Reads, TypeInv, StageInv
    <2> QED
      BY <1>4, <1>5, <2>1 DEF OpenQuote, Reads
  <1>6. CASE QuotedChar
    <2>1. buffer' \in Seq(Chars)
      BY <1>1, <1>6, AppendProperties DEF QuotedChar, TypeInv
    <2>2. TypeInv' /\ StageInv'
      BY <1>1, <1>6, <2>1 DEF QuotedChar, TypeInv, StageInv
    <2> QED
      BY <1>4, <1>6, <2>2 DEF QuotedChar
  <1>7. CASE Overrun
    <2>1. TypeInv' /\ StageInv'
      BY <1>7 DEF Overrun, TypeInv, StageInv
    <2> QED
      BY <1>4, <1>7, <2>1 DEF Overrun
  <1>8. CASE CloseQuote
    <2>1. buffer \in Seq(Chars) /\ PushWord(buffer)
      BY <1>8 DEF CloseQuote, TypeInv
    <2>2. HeapInv'
      BY <1>3, <1>8, <2>1 DEF CloseQuote
    <2>3. argv' \in Seq(Seq(Chars)) /\ argc' = Len(argv')
      BY <1>2, <2>1
    <2>4. TypeInv' /\ StageInv'
      BY <1>1, <1>8, <2>3 DEF CloseQuote, TypeInv, StageInv
    <2> QED
      BY <2>2, <2>4
  <1>9. CASE SkipSpace
    <2>1. TypeInv' /\ StageInv'
      BY <1>1, <1>9 DEF SkipSpace, Reads, TypeInv, StageInv
    <2> QED
      BY <1>4, <1>9, <2>1 DEF SkipSpace, Reads
  <1>10. CASE EndWord
    <2>1. buffer \in Seq(Chars) /\ PushWord(buffer)
      BY <1>10 DEF EndWord, TypeInv
    <2>2. HeapInv'
      BY <1>3, <1>10, <2>1 DEF EndWord, Reads
    <2>3. argv' \in Seq(Seq(Chars)) /\ argc' = Len(argv')
      BY <1>2, <2>1
    <2>4. TypeInv' /\ StageInv'
      BY <1>1, <1>10, <2>3 DEF EndWord, Reads, TypeInv, StageInv
    <2> QED
      BY <2>2, <2>4
  <1>11. CASE OrdinaryChar
    <2>1. /\ pc = "parse" /\ pc' = "parse" /\ ~AtEnd(inputIndex)
          /\ PushWord(buffer') \/ UNCHANGED <<argv, argc, heap>>
          /\ UNCHANGED <<input, pc, findAmp, pipeVars, pathVars>>
          /\ buffer' = Append(buffer, line[inputIndex])
          /\ spaceFlag' = 0 /\ inputIndex' = inputIndex + 1
      BY <1>11 DEF OrdinaryChar, Reads
    <2>2. buffer' \in Seq(Chars)
      BY <1>1, <2>1, AppendProperties DEF TypeInv
    <2>3. argv' \in Seq(Seq(Chars)) /\ argc' = Len(argv')
      BY <1>2, <2>1, <2>2 DEF TypeInv
    <2>4. HeapInv'
      BY <1>3, <1>4, <2>1, <2>2
    <2>5. TypeInv' /\ StageInv'
      BY <1>1, <2>1, <2>2, <2>3 DEF TypeInv, StageInv
    <2> QED
      BY <2>4, <2>5
  <1>12. CASE Parsed
    <2>1. TypeInv' /\ StageInv'
      BY <1>12 DEF Parsed, TypeInv, StageInv
    <2> QED
      BY <1>4, <1>12, <2>1 DEF Parsed
  <1> QED
    BY <1>5, <1>6, <1>7, <1>8, <1>9, <1>10, <1>11, <1>12

LEMMA AmpersandTypes ==
  ASSUME TypeInv, StageInv, HeapInv, NoAmpersand \/ TakeAmpersand
  PROVE  TypeInv' /\ StageInv' /\ HeapInv'
PROOF
  <1> USE DEF input, parseVars, pathVars, pipeVars
  <1>0. /\ pc = "ampersand" /\ pc' \in {"null", "path"} /\ (pc' = "path" => argv' # <<>>)
        /\ UNCHANGED <<input, parseVars, pipeVars, pathVars>>
    BY DEF NoAmpersand, TakeAmpersand, Fetch
  <1>1. CASE NoAmpersand
    <2>1. TypeInv' /\ StageInv'
      BY <1>0, <1>1 DEF NoAmpersand, TypeInv, StageInv
    <2>2. HeapInv'
      BY <1>0, <1>1 DEF NoAmpersand, HeapInv
    <2> QED
      BY <2>1, <2>2
  <1>2. CASE TakeAmpersand
    <2>1. argv \in Seq(Seq(Chars)) /\ argv # <<>> /\ argc = Len(argv)
      BY <1>0 DEF TypeInv, StageInv
    <2>2. /\ Front(argv) \in Seq(Seq(Chars)) /\ Len(Front(argv)) = Len(argv) - 1
          /\ Len(argv) \in Nat \ {0}
      BY <2>1, FrontIs
    <2>3. /\ argv' \in Seq(Seq(Chars)) /\ argc' = Len(argv')
          /\ DOMAIN argv' = DOMAIN argv \ {Len(argv)}
      <3>1. argv' = Front(argv) /\ argc' = argc - 1
        BY <1>2 DEF TakeAmpersand
      <3>2. argv' \in Seq(Seq(Chars)) /\ argc' = Len(argv')
        BY <2>1, <2>2, <3>1
      <3>3. DOMAIN argv' = 1 .. Len(argv) - 1 /\ DOMAIN argv = 1 .. Len(argv)
        BY <2>1, <2>2, <3>1
      <3> QED
        BY <2>2, <3>2, <3>3
    <2>4. TypeInv' /\ StageInv'
      BY <1>0, <1>2, <2>3 DEF TakeAmpersand, TypeInv, StageInv
    <2>5. HeapInv'
      <3>1. heap = {<<"argv", i>> : i \in DOMAIN argv}
        BY <1>0, <2>1 DEF HeapInv, StageInv
      <3>2. heap' = {<<"argv", i>> : i \in DOMAIN argv'}
        BY <1>2, <2>3, <3>1 DEF TakeAmpersand
      <3>3. argv1' = <<>> /\ argv2' = <<>>
        BY <1>0 DEF StageInv
      <3> QED
        BY <1>0, <3>2, <3>3 DEF HeapInv
    <2> QED
      BY <2>4, <2>5
  <1> QED
    BY <1>1, <1>2

LEMMA PathTypes ==
  ASSUME TypeInv, StageInv, HeapInv, PathBegins \/ Colon \/ EntryChar \/ Found \/ NotHere
  PROVE  TypeInv' /\ StageInv' /\ HeapInv'
PROOF
  <1> USE DEF input, parseVars, pathVars, pipeVars
  <1>0. /\ pc # "done" /\ pc' # "done" /\ UNCHANGED <<input, parseVars, argc, findAmp, heap>>
        /\ argv # <<>>
    BY DEF PathBegins, Colon, EntryChar, Found, NotHere, PathGoesOn, AfterSearch, StageInv
  <1>1. CASE PathBegins
    <2>1. << <<>> >> \in Seq(Seq(Chars)) /\ << <<>> >> # <<>> /\ (PATH # <<>> => 1 \in DOMAIN PATH)
      BY DEF TypeInv
    <2>2. TypeInv' /\ StageInv'
      BY <1>0, <1>1, <2>1 DEF PathBegins, TypeInv, StageInv
    <2>3. HeapInv'
      BY <1>0, <1>1 DEF PathBegins, HeapInv
    <2> QED
      BY <2>2, <2>3
  <1>2. CASE Colon \/ EntryChar
    <2>1. /\ pc = "entry" /\ PathGoesOn
          /\ parsedPath' \in {Append(parsedPath, <<>>), Extended(PATH[pathIndex])}
      BY <1>2 DEF Colon, EntryChar
    <2>2. /\ parsedPath \in Seq(Seq(Chars)) /\ parsedPath # <<>>
          /\ PATH \in Seq(Chars) /\ pathIndex \in 1 .. Len(PATH) /\ PATH[pathIndex] \in Chars
      BY <2>1 DEF TypeInv, StageInv
    <2>3. Append(parsedPath, <<>>) \in Seq(Seq(Chars)) /\ Append(parsedPath, <<>>) # <<>>
      <3>1. <<>> \in Seq(Chars)
        OBVIOUS
      <3> QED
        BY <2>2, <3>1, AppendProperties
    <2>4. Extended(PATH[pathIndex]) \in Seq(Seq(Chars)) /\ Extended(PATH[pathIndex]) # <<>>
      <3>1. Front(parsedPath) \in Seq(Seq(Chars)) /\ Last(parsedPath) \in Seq(Chars)
        BY <2>2, FrontIs
      <3>2. Append(Last(parsedPath), PATH[pathIndex]) \in Seq(Chars)
        BY <2>2, <3>1, AppendProperties
      <3> DEFINE f == Front(parsedPath)
                 e == Append(Last(parsedPath), PATH[pathIndex])
                 W == Seq(Chars)
      <3> HIDE DEF f, e, W
      <3>3. f \in Seq(W) /\ e \in W
        BY <3>1, <3>2 DEF f, e, W
      <3>4. Append(f, e) \in Seq(W) /\ Append(f, e) # <<>>
        BY <3>3, AppendProperties
      <3> QED
        BY <3>4 DEF Extended, f, e, W
    <2>5. parsedPath' \in Seq(Seq(Chars)) /\ parsedPath' # <<>>
      BY <2>1, <2>3, <2>4
    <2>6. /\ pathIndex' \in Nat /\ pc' \in {"search", "entry"}
          /\ pc' = "search" => pathIndex' = 1
          /\ pc' = "entry" => pathIndex' \in 1 .. Len(PATH)
          /\ UNCHANGED <<argv, pipeVars>>
      BY <2>1, <2>2 DEF PathGoesOn
    <2>7. 1 \in DOMAIN parsedPath'
      BY <2>5
    <2>8. TypeInv' /\ StageInv'
      <3>1. TypeInv'
        BY <1>0, <2>5, <2>6 DEF TypeInv
      <3>2. pc' = "entry" => pathIndex' \in DOMAIN PATH'
        BY <1>0, <2>2, <2>6
      <3>3. pc' = "search" => pathIndex' \in DOMAIN parsedPath'
        BY <2>6, <2>7
      <3>4. PATH' # <<>>
        BY <1>0, <2>2
      <3>5. argv' # <<>> /\ (argv2' = <<>> => argv1' = <<>>)
        BY <1>0, <2>1, <2>6 DEF StageInv
      <3> QED
        BY <2>5, <2>6, <3>1, <3>2, <3>3, <3>4, <3>5 DEF StageInv
    <2>9. HeapInv'
      BY <1>0, <2>6 DEF HeapInv
    <2> QED
      BY <2>8, <2>9
  <1>3. CASE Found
    <2>1. parsedPath[pathIndex] \in Seq(Chars)
      BY <1>3 DEF Found, TypeInv, StageInv
    <2>2. FullName \in Seq(Chars)
      BY <1>0, <2>1, FullNameType DEF FullName
    <2>3. /\ argv' \in Seq(Seq(Chars)) /\ DOMAIN argv' = DOMAIN argv /\ Len(argv') = Len(argv)
          /\ argv' # <<>>
      <3>1. argv' \in {argv, [argv EXCEPT ![1] = FullName]} /\ argv \in Seq(Seq(Chars))
        BY <1>3 DEF Found, TypeInv
      <3>2. LET t == [argv EXCEPT ![1] = FullName]
            IN t \in Seq(Seq(Chars)) /\ DOMAIN t = DOMAIN argv /\ Len(t) = Len(argv) /\ t # <<>>
        BY <1>0, <2>2, <3>1, FirstReplaced
      <3> QED
        BY <1>0, <3>1, <3>2
    <2>4. /\ argv2' \in Seq(Seq(Chars)) /\ DOMAIN argv2' = DOMAIN argv2
          /\ ~InPipe => argv2' = <<>>
      <3>1. argv2' \in {argv2, [argv2 EXCEPT ![1] = FullName]} /\ argv2 \in Seq(Seq(Chars))
        BY <1>3 DEF Found, TypeInv
      <3>2. ~InPipe => argv2' = <<>>
        BY <1>3 DEF Found, InPipe
      <3>3. LET t == [argv2 EXCEPT ![1] = FullName]
            IN argv2 # <<>> => t \in Seq(Seq(Chars)) /\ DOMAIN t = DOMAIN argv2
        BY <2>2, <3>1, FirstReplaced
      <3>4. argv2' = argv2 \/ (argv2 # <<>> /\ argv2' = [argv2 EXCEPT ![1] = FullName])
        BY <1>3 DEF Found, InPipe
      <3> QED
        BY <3>1, <3>2, <3>3, <3>4
    <2>5. UNCHANGED <<pathVars, argv1>> /\ pc' = AfterSearch
      BY <1>3 DEF Found
    <2>6. pc = "search" /\ pc' \in {"run", "pipe"} /\ (pc' = "pipe" => argv2' = <<>> /\ argv1' = <<>>)
      BY <1>3, <2>4, <2>5 DEF Found, AfterSearch, InPipe, StageInv
    <2>7. TypeInv' /\ StageInv'
      BY <1>0, <2>3, <2>4, <2>5, <2>6 DEF TypeInv, StageInv
    <2>8. HeapInv'
      BY <1>0, <2>3, <2>4, <2>5 DEF HeapInv
    <2> QED
      BY <2>7, <2>8
  <1>4. CASE NotHere
    <2>1. /\ pc = "search" /\ UNCHANGED <<argv, pipeVars, parsedPath>> /\ pathIndex' = pathIndex + 1
          /\ pc' = IF pathIndex = Len(parsedPath) THEN AfterSearch ELSE "search"
      BY <1>4 DEF NotHere
    <2>2. pathIndex \in 1 .. Len(parsedPath) /\ parsedPath \in Seq(Seq(Chars))
      BY <2>1 DEF TypeInv, StageInv
    <2>3. /\ pathIndex' \in Nat
          /\ pc' = "search" => pathIndex' \in DOMAIN parsedPath'
          /\ pc' \in {"search", "run", "pipe"} /\ (pc' = "pipe" => argv2 = <<>>)
      <3>1. Len(parsedPath) \in Nat /\ DOMAIN parsedPath = 1 .. Len(parsedPath)
        BY <2>2
      <3>2. pathIndex # Len(parsedPath) => pathIndex + 1 \in 1 .. Len(parsedPath)
        <4> DEFINE n == Len(parsedPath)
        <4>1. n \in Nat /\ pathIndex \in 1 .. n
          BY <2>2, <3>1
        <4> HIDE DEF n
        <4>2. pathIndex # n => pathIndex + 1 \in 1 .. n
          BY <4>1
        <4> QED
          BY <4>2 DEF n
      <3>3. pc' = "search" => pathIndex' \in DOMAIN parsedPath'
        BY <2>1, <3>1, <3>2 DEF AfterSearch
      <3>4. pc' \in {"search", "run", "pipe"} /\ (pc' = "pipe" => argv2 = <<>>)
        BY <2>1 DEF AfterSearch, InPipe
      <3>5. pathIndex' \in Nat
        <4>1. pathIndex \in Nat
          BY DEF TypeInv
        <4> QED
          BY <2>1, <4>1
      <3> QED
        BY <3>3, <3>4, <3>5
    <2>4. TypeInv' /\ StageInv'
      BY <1>0, <2>1, <2>3 DEF TypeInv, StageInv
    <2>5. HeapInv'
      BY <1>0, <2>1 DEF HeapInv
    <2> QED
      BY <2>4, <2>5
  <1> QED
    BY <1>1, <1>2, <1>3, <1>4

LEMMA PipeTypes ==
  ASSUME TypeInv, StageInv, HeapInv, NoPipe \/ CopyCommands \/ FreeWords
  PROVE  TypeInv' /\ StageInv' /\ HeapInv'
PROOF
  <1> USE DEF input, parseVars, pathVars, pipeVars
  <1>1. CASE NoPipe
    <2>1. TypeInv' /\ StageInv'
      BY <1>1 DEF NoPipe, TypeInv, StageInv
    <2>2. HeapInv'
      BY <1>1 DEF NoPipe, HeapInv
    <2> QED
      BY <2>1, <2>2
  <1>2. CASE CopyCommands
    <2>1. PICK i \in 2 .. Len(argv) :
            argv1' = SubSeq(argv, 1, i - 1) /\ argv2' = SubSeq(argv, i + 1, Len(argv))
      BY <1>2 DEF CopyCommands
    <2>2. argv \in Seq(Seq(Chars)) /\ Len(argv) \in Nat /\ argv1 = <<>> /\ argv2 = <<>> /\ argv # <<>>
      BY <1>2 DEF CopyCommands, TypeInv, StageInv
    <2>3. argv1' \in Seq(Seq(Chars))
      <3>1. 1 \in 1 .. Len(argv) + 1 /\ i - 1 \in 1 - 1 .. Len(argv)
        BY <2>2
      <3> QED
        BY <2>1, <2>2, <3>1, SubSeqIs
    <2>4. argv2' \in Seq(Seq(Chars))
      <3>1. i + 1 \in 1 .. Len(argv) + 1 /\ Len(argv) \in (i + 1) - 1 .. Len(argv)
        BY <2>2
      <3> QED
        BY <2>1, <2>2, <3>1, SubSeqIs
    <2>5. TypeInv' /\ StageInv'
      BY <1>2, <2>2, <2>3, <2>4 DEF CopyCommands, TypeInv, StageInv
    <2>6. HeapInv'
      <3>1. heap = {<<"argv", k>> : k \in DOMAIN argv}
        BY <1>2, <2>2 DEF CopyCommands, HeapInv
      <3>2. /\ heap' = heap \cup {<<"argv1", k>> : k \in DOMAIN argv1'} \cup {<<"argv2", k>> : k \in DOMAIN argv2'}
            /\ pc' # "done" /\ argv' = argv
        BY <1>2 DEF CopyCommands
      <3> QED
        BY <3>1, <3>2 DEF HeapInv
    <2> QED
      BY <2>5, <2>6
  <1>3. CASE FreeWords
    <2>1. DOMAIN argv = 1 .. argc
      BY DEF TypeInv
    <2>2. TypeInv' /\ StageInv'
      BY <1>3 DEF FreeWords, TypeInv, StageInv
    <2>3. HeapInv'
      BY <1>3, <2>1 DEF FreeWords, HeapInv
    <2> QED
      BY <2>2, <2>3
  <1> QED
    BY <1>1, <1>2, <1>3

LEMMA NextTypes == TypeInv /\ StageInv /\ HeapInv /\ [Next]_vars => TypeInv' /\ StageInv' /\ HeapInv'
PROOF
  <1> SUFFICES ASSUME TypeInv, StageInv, HeapInv, [Next]_vars PROVE TypeInv' /\ StageInv' /\ HeapInv'
    OBVIOUS
  <1>1. CASE UNCHANGED vars
    BY <1>1 DEF vars, input, parseVars, pathVars, pipeVars, TypeInv, StageInv, HeapInv
  <1>2. CASE Next
    BY <1>2, ParseTypes, AmpersandTypes, PathTypes, PipeTypes DEF Next
  <1> QED
    BY <1>1, <1>2

\* Every variable keeps its type, argc counts the words, and the places argv
\* and PATH are read at are in them.  (parser.c 44-103; fs.c 167-267)
THEOREM TypesHold == Spec => [](TypeInv /\ StageInv /\ HeapInv)
PROOF
  <1>1. Init => HeapInv
    BY DEF Init, HeapInv
  <1> QED
    BY <1>1, InitTypes, NextTypes, PTL DEF Spec

\* The words freed after a command are the words allocated.  (parser.c 34-36;
\* mysh.c 205; fs.c 178-202)
THEOREM FreedOnce == Spec => []EachWordFreedOnce
PROOF
  <1>1. TypeInv /\ HeapInv => EachWordFreedOnce
    <2> SUFFICES ASSUME TypeInv, HeapInv PROVE EachWordFreedOnce
      OBVIOUS
    <2>1. DOMAIN argv = 1 .. argc
      BY DEF TypeInv
    <2>2. pc = "run" => {<<"argv", i>> : i \in DOMAIN argv} \subseteq heap
      BY DEF HeapInv
    <2> QED
      BY <2>1, <2>2 DEF HeapInv, EachWordFreedOnce
  <1> QED
    BY <1>1, TypesHold, PTL

-----------------------------------------------------------------------------
(* The entries of PATH.                                                    *)

LEMMA AppendIs ==
  ASSUME NEW T, NEW s \in Seq(T), NEW x \in T
  PROVE  /\ Append(s, x) \in Seq(T) /\ Append(s, x) # <<>> /\ Len(Append(s, x)) = Len(s) + 1
         /\ \A i \in 1 .. Len(s) : Append(s, x)[i] = s[i]
         /\ Append(s, x)[Len(s) + 1] = x
         /\ Front(Append(s, x)) = s /\ Last(Append(s, x)) = x
PROOF
  <1>1. /\ Append(s, x) \in Seq(T) /\ Append(s, x) # <<>> /\ Len(Append(s, x)) = Len(s) + 1
        /\ \A i \in 1 .. Len(s) : Append(s, x)[i] = s[i]
        /\ Append(s, x)[Len(s) + 1] = x
        /\ Len(s) \in Nat
    BY AppendProperties, LenProperties
  <1> DEFINE t == Append(s, x)
  <1> HIDE DEF t
  <1>2. t \in Seq(T) /\ t # <<>> /\ Len(t) = Len(s) + 1 /\ \A i \in 1 .. Len(s) : t[i] = s[i]
        /\ t[Len(s) + 1] = x
    BY <1>1 DEF t
  <1>3. /\ Front(t) \in Seq(T) /\ Len(Front(t)) = Len(t) - 1
        /\ \A i \in 1 .. Len(t) - 1 : Front(t)[i] = t[i]
        /\ Last(t) = t[Len(t)]
    BY <1>2, FrontIs
  <1>4. Len(t) - 1 = Len(s)
    BY <1>1, <1>2
  <1>5. Front(t) = s
    BY <1>1, <1>2, <1>3, <1>4, SeqEqual
  <1> QED
    BY <1>1, <1>2, <1>3, <1>5 DEF t

LEMMA SubSeqGrows ==
  ASSUME NEW T, NEW s \in Seq(T), NEW m \in 1 .. Len(s), NEW n \in m .. Len(s)
  PROVE  SubSeq(s, m, n) = Append(SubSeq(s, m, n - 1), s[n])
PROOF
  <1>1. Len(s) \in Nat
    BY LenProperties
  <1> DEFINE u == SubSeq(s, m, n)
             v == SubSeq(s, m, n - 1)
  <1>2. m \in 1 .. Len(s) + 1 /\ n \in m - 1 .. Len(s) /\ n - 1 \in m - 1 .. Len(s)
    BY <1>1
  <1>3. u \in Seq(T) /\ Len(u) = n - m + 1 /\ \A i \in 1 .. n - m + 1 : u[i] = s[m + i - 1]
    BY <1>2, SubSeqIs
  <1>4. v \in Seq(T) /\ Len(v) = n - 1 - m + 1 /\ \A i \in 1 .. n - 1 - m + 1 : v[i] = s[m + i - 1]
    BY <1>2, SubSeqIs
  <1>5. s[n] \in T
    BY <1>1
  <1> HIDE DEF u, v
  <1>6. /\ Append(v, s[n]) \in Seq(T) /\ Len(Append(v, s[n])) = Len(v) + 1
        /\ \A i \in 1 .. Len(v) : Append(v, s[n])[i] = v[i]
        /\ Append(v, s[n])[Len(v) + 1] = s[n]
    BY <1>4, <1>5, AppendIs
  <1>7. m \in Nat /\ n \in Nat /\ m <= n
    BY <1>1
  <1> DEFINE t == Append(v, s[n])
             k == n - m
  <1> HIDE DEF t
  <1>8. Len(u) = k + 1 /\ Len(t) = k + 1 /\ k \in Nat
    BY <1>3, <1>4, <1>6, <1>7 DEF t
  <1>9. ASSUME NEW i \in 1 .. Len(u) PROVE u[i] = t[i]
    <2>1. i \in 1 .. n - m + 1
      BY <1>3, <1>9
    <2>2. CASE i = n - m + 1
      <3>1. m + i - 1 = n /\ i = Len(v) + 1
        BY <1>4, <1>7, <2>2
      <3> QED
        BY <1>3, <1>6, <2>1, <3>1 DEF t
    <2>3. CASE i # n - m + 1
      <3>1. i \in 1 .. n - 1 - m + 1
        BY <1>7, <2>1, <2>3
      <3> QED
        BY <1>3, <1>4, <1>6, <2>1, <3>1 DEF t
    <2> QED
      BY <2>2, <2>3
  <1>10. u = t
    BY <1>3, <1>6, <1>8, <1>9, SeqEqual DEF t
  <1> QED
    BY <1>10 DEF t, u, v

\* One place more is one piece more.
LEMMA PiecesGrow ==
  ASSUME PATH \in Seq(Chars), NEW ends \in Seq(Nat), ends # <<>>,
         \A i \in 1 .. Len(ends) : ends[i] <= Len(PATH),
         NEW m \in 1 .. Len(PATH) + 1
  PROVE  /\ Pieces(ends) \in Seq(Seq(Chars))
         /\ SubSeq(PATH, Last(ends) + 1, m - 1) \in Seq(Chars)
         /\ Pieces(Append(ends, m)) = Append(Pieces(ends), SubSeq(PATH, Last(ends) + 1, m - 1))
PROOF
  <1>1. Len(ends) \in Nat \ {0} /\ Len(PATH) \in Nat /\ Last(ends) = ends[Len(ends)]
    <2>1. Len(ends) \in Nat \ {0} /\ Last(ends) = ends[Len(ends)]
      BY FrontIs
    <2> QED
      BY <2>1
  <1>2. ASSUME NEW a \in Nat, NEW b \in 0 .. Len(PATH) + 1 PROVE SubSeq(PATH, a + 1, b - 1) \in Seq(Chars)
    <2>1. a + 1 \in Int /\ b - 1 \in Int
      BY <1>1
    <2>2. \A i \in a + 1 .. b - 1 : PATH[i] \in Chars
      BY <1>1
    <2> QED
      BY <2>1, <2>2, SubSeqProperties
  <1> DEFINE w(n) == SubSeq(PATH, ends[n] + 1, ends[n + 1] - 1)
  <1>3. Pieces(ends) = [n \in 1 .. Len(ends) - 1 |-> w(n)]
    BY DEF Pieces
  <1>4. ASSUME NEW n \in 1 .. Len(ends) - 1 PROVE w(n) \in Seq(Chars)
    <2>1. n \in 1 .. Len(ends) /\ n + 1 \in 1 .. Len(ends)
      BY <1>1
    <2>2. ends[n] \in Nat /\ ends[n + 1] \in 0 .. Len(PATH) + 1
      BY <1>1, <2>1
    <2> QED
      BY <1>2, <2>2
  <1>5. Len(ends) - 1 \in Nat
    BY <1>1
  <1> DEFINE W == Seq(Chars)
  <1>6. Pieces(ends) \in Seq(W) /\ Len(Pieces(ends)) = Len(ends) - 1
    <2> HIDE DEF w, W
    <2>1. \A n \in 1 .. Len(ends) - 1 : w(n) \in W
      BY <1>4 DEF W
    <2> QED
      BY <1>3, <1>5, <2>1
  <1> DEFINE x == SubSeq(PATH, Last(ends) + 1, m - 1)
             t == Append(ends, m)
  <1>7. x \in W
    <2>1. Last(ends) \in Nat /\ m \in 0 .. Len(PATH) + 1
      BY <1>1
    <2> QED
      BY <1>2, <2>1
  <1>8. t \in Seq(Nat) /\ Len(t) = Len(ends) + 1 /\ (\A i \in 1 .. Len(ends) : t[i] = ends[i])
        /\ t[Len(ends) + 1] = m
    <2>1. m \in Nat
      BY <1>1
    <2> QED
      BY <2>1, AppendIs
  <1> HIDE DEF t
  <1>9. /\ Append(Pieces(ends), x) \in Seq(W) /\ Len(Append(Pieces(ends), x)) = Len(ends)
        /\ \A n \in 1 .. Len(ends) - 1 : Append(Pieces(ends), x)[n] = w(n)
        /\ Append(Pieces(ends), x)[Len(ends)] = x
    <2> HIDE DEF W, x, w
    <2>1. /\ Append(Pieces(ends), x) \in Seq(W) /\ Len(Append(Pieces(ends), x)) = Len(Pieces(ends)) + 1
          /\ \A i \in 1 .. Len(Pieces(ends)) : Append(Pieces(ends), x)[i] = Pieces(ends)[i]
          /\ Append(Pieces(ends), x)[Len(Pieces(ends)) + 1] = x
      BY <1>6, <1>7, AppendIs
    <2>2. Len(ends) - 1 + 1 = Len(ends)
      BY <1>1
    <2> QED
      BY <1>3, <1>6, <2>1, <2>2
  <1> DEFINE y(n) == SubSeq(PATH, t[n] + 1, t[n + 1] - 1)
  <1>10. Pieces(t) = [n \in 1 .. Len(ends) |-> y(n)]
    <2>1. Len(t) - 1 = Len(ends)
      BY <1>1, <1>8
    <2> QED
      BY <2>1 DEF Pieces
  <1>11. ASSUME NEW n \in 1 .. Len(ends) PROVE Append(Pieces(ends), x)[n] = y(n)
    <2>1. CASE n = Len(ends)
      <3>1. t[n] = Last(ends) /\ t[n + 1] = m
        BY <1>1, <1>8, <2>1
      <3> QED
        BY <1>9, <2>1, <3>1
    <2>2. CASE n # Len(ends)
      <3>1. n \in 1 .. Len(ends) - 1 /\ n + 1 \in 1 .. Len(ends)
        BY <1>1, <2>2
      <3>2. t[n] = ends[n] /\ t[n + 1] = ends[n + 1]
        BY <1>8, <3>1
      <3> QED
        BY <1>9, <3>1, <3>2
    <2> QED
      BY <2>1, <2>2
  <1>12. Pieces(t) = Append(Pieces(ends), x)
    <2> DEFINE z == Append(Pieces(ends), x)
    <2>1. z \in Seq(W) /\ Len(z) = Len(ends) /\ \A n \in 1 .. Len(ends) : z[n] = y(n)
      BY <1>9, <1>11
    <2> HIDE DEF z, y, W, x
    <2>2. z = [n \in 1 .. Len(ends) |-> z[n]]
      BY <2>1
    <2> QED
      BY <1>10, <2>1, <2>2 DEF z
  <1> QED
    BY <1>6, <1>7, <1>12 DEF t

\* Up to i, PATH is cut at the colons before i.
LEMMA EntriesToIs ==
  ASSUME PATH \in Seq(Chars), NEW i \in 1 .. Len(PATH) + 1
  PROVE  LET ends == InOrder(ColonsTo(i) \cup {0}) IN
         /\ ColonsTo(i) \cup {0} \in SUBSET Nat /\ IsFiniteSet(ColonsTo(i) \cup {0})
         /\ \A k \in ColonsTo(i) \cup {0} : k < i
         /\ ends \in Seq(Nat) /\ ends # <<>>
         /\ \A n \in 1 .. Len(ends) : ends[n] < i
         /\ InOrder(ColonsTo(i) \cup {0, i}) = Append(ends, i)
         /\ Pieces(ends) \in Seq(Seq(Chars))
         /\ SubSeq(PATH, Last(ends) + 1, i - 1) \in Seq(Chars)
         /\ EntriesTo(i) = Append(Pieces(ends), SubSeq(PATH, Last(ends) + 1, i - 1))
PROOF
  <1> DEFINE B == ColonsTo(i) \cup {0}
             ends == InOrder(B)
  <1>1. Len(PATH) \in Nat /\ DOMAIN PATH = 1 .. Len(PATH) /\ i \in Nat
    OBVIOUS
  <1>2. ColonsTo(i) \in SUBSET (1 .. Len(PATH)) /\ \A k \in ColonsTo(i) : k < i
    BY <1>1 DEF ColonsTo
  <1>3. B \in SUBSET (0 .. Len(PATH)) /\ B \in SUBSET Nat /\ \A k \in B : k < i
    BY <1>1, <1>2
  <1>4. IsFiniteSet(B)
    <2>1. 0 \in Int /\ Len(PATH) \in Int
      BY <1>1
    <2>2. IsFiniteSet(0 .. Len(PATH))
      BY <2>1, FS_Interval
    <2> QED
      BY <1>3, <2>2, FS_Subset
  <1> HIDE DEF B
  <1>5. Cardinality(B) \in Nat /\ ends \in Seq(B) /\ Len(ends) = Cardinality(B)
    BY <1>3, <1>4, InOrderIs
  <1>6. Cardinality(B) # 0
    <2>1. B # {}
      BY DEF B
    <2> QED
      BY <1>4, <2>1, FS_EmptySet
  <1> HIDE DEF ends
  <1>7. ends \in Seq(Nat) /\ ends # <<>> /\ Len(ends) \in Nat
    <2>1. ends \in [1 .. Len(ends) -> B] /\ Len(ends) \in Nat /\ Len(ends) # 0
      BY <1>5, <1>6
    <2>2. ends \in [1 .. Len(ends) -> Nat]
      BY <1>3, <2>1
    <2> QED
      BY <2>1, <2>2
  <1>8. ASSUME NEW n \in 1 .. Len(ends) PROVE ends[n] < i /\ ends[n] <= Len(PATH)
    <2>1. ends[n] \in B
      BY <1>5
    <2>2. ends[n] \in Nat /\ ends[n] < i
      BY <1>3, <2>1
    <2> QED
      BY <1>1, <2>2
  <1>9. InOrder(B \cup {i}) = Append(ends, i)
    BY <1>1, <1>3, <1>4, InOrderGrows DEF ends
  <1>10. B \cup {i} = ColonsTo(i) \cup {0, i}
    BY DEF B
  <1>11. /\ Pieces(ends) \in Seq(Seq(Chars))
         /\ SubSeq(PATH, Last(ends) + 1, i - 1) \in Seq(Chars)
         /\ Pieces(Append(ends, i)) = Append(Pieces(ends), SubSeq(PATH, Last(ends) + 1, i - 1))
    BY <1>7, <1>8, PiecesGrow
  <1>12. EntriesTo(i) = Pieces(Append(ends, i))
    BY <1>9, <1>10 DEF EntriesTo
  <1> QED
    BY <1>3, <1>4, <1>7, <1>8, <1>9, <1>10, <1>11, <1>12 DEF B, ends

\* How the entries grow with each character of PATH.
LEMMA EntriesGrow ==
  ASSUME PATH \in Seq(Chars), PATH # <<>>
  PROVE  /\ EntriesTo(1) = << <<>> >>
         /\ EntriesTo(Len(PATH) + 1) = Entries
         /\ \A i \in DOMAIN PATH :
              EntriesTo(i + 1) =
                IF PATH[i] = ":" THEN Append(EntriesTo(i), <<>>)
                ELSE Append(Front(EntriesTo(i)), Append(Last(EntriesTo(i)), PATH[i]))
PROOF
  <1>1. Len(PATH) \in Nat /\ DOMAIN PATH = 1 .. Len(PATH)
    OBVIOUS
  <1>2. EntriesTo(1) = << <<>> >>
    <2>1. ColonsTo(1) \cup {0} = {} \cup {0}
      BY <1>1 DEF ColonsTo
    <2>2. InOrder({}) = <<>> /\ IsFiniteSet({}) /\ {} \subseteq Nat
      <3>1. Cardinality({}) = 0 /\ IsFiniteSet({})
        BY FS_EmptySet
      <3>2. InOrder({}) \in Seq({}) /\ Len(InOrder({})) = 0
        BY <3>1, InOrderIs
      <3> QED
        BY <3>1, <3>2
    <2>3. InOrder(ColonsTo(1) \cup {0}) = <<0>>
      <3>1. 0 \in Nat /\ \A k \in {} : k < 0
        OBVIOUS
      <3>2. InOrder({} \cup {0}) = Append(InOrder({}), 0)
        BY <2>2, <3>1, InOrderGrows
      <3> QED
        <4>1. Append(<<>>, 0) = <<0>>
          OBVIOUS
        <4> QED
          BY <2>1, <2>2, <3>2, <4>1
    <2>4. 1 \in 1 .. Len(PATH) + 1
      BY <1>1
    <2>5. EntriesTo(1) = Append(Pieces(<<0>>), SubSeq(PATH, Last(<<0>>) + 1, 1 - 1))
      BY <2>3, <2>4, EntriesToIs
    <2>6. Pieces(<<0>>) = <<>> /\ Last(<<0>>) = 0
      BY DEF Pieces, Last
    <2>7. SubSeq(PATH, 0 + 1, 1 - 1) = <<>>
      BY SubSeqEmpty
    <2> QED
      BY <2>5, <2>6, <2>7
  <1>3. EntriesTo(Len(PATH) + 1) = Entries
    <2>1. ColonsTo(Len(PATH) + 1) = {k \in DOMAIN PATH : PATH[k] = ":"}
      BY <1>1 DEF ColonsTo
    <2> QED
      BY <2>1 DEF EntriesTo, Pieces, Entries
  <1>4. ASSUME NEW i \in DOMAIN PATH
        PROVE  EntriesTo(i + 1) =
                 IF PATH[i] = ":" THEN Append(EntriesTo(i), <<>>)
                 ELSE Append(Front(EntriesTo(i)), Append(Last(EntriesTo(i)), PATH[i]))
    <2> DEFINE ends == InOrder(ColonsTo(i) \cup {0})
               w == SubSeq(PATH, Last(ends) + 1, i - 1)
               p == Pieces(ends)
               endsN == InOrder(ColonsTo(i + 1) \cup {0})
    <2>1. i \in 1 .. Len(PATH) + 1 /\ i + 1 \in 1 .. Len(PATH) + 1 /\ i \in 1 .. Len(PATH)
      BY <1>1
    <2>2. /\ ColonsTo(i) \cup {0} \in SUBSET Nat /\ IsFiniteSet(ColonsTo(i) \cup {0})
          /\ \A k \in ColonsTo(i) \cup {0} : k < i
          /\ ends \in Seq(Nat) /\ ends # <<>>
          /\ \A n \in 1 .. Len(ends) : ends[n] < i
          /\ p \in Seq(Seq(Chars)) /\ w \in Seq(Chars)
          /\ EntriesTo(i) = Append(p, w)
          /\ InOrder(ColonsTo(i) \cup {0, i}) = Append(ends, i)
      BY <2>1, EntriesToIs
    <2>3. EntriesTo(i + 1) = Append(Pieces(endsN), SubSeq(PATH, Last(endsN) + 1, i + 1 - 1))
      <3> DEFINE e(j) == InOrder(ColonsTo(j) \cup {0})
      <3>1. \A j \in 1 .. Len(PATH) + 1 :
              EntriesTo(j) = Append(Pieces(e(j)), SubSeq(PATH, Last(e(j)) + 1, j - 1))
        BY EntriesToIs
      <3>2. endsN = e(i + 1)
        OBVIOUS
      <3> HIDE DEF e, endsN
      <3> QED
        BY <2>1, <3>1, <3>2
    <2> HIDE DEF ends, w, p, endsN
    <2>4. i + 1 - 1 = i /\ i \in Nat
      BY <2>1
    <2>5. Front(Append(p, w)) = p /\ Last(Append(p, w)) = w
      BY <2>2, AppendIs
    <2>6. CASE PATH[i] = ":"
      <3>1. ColonsTo(i + 1) \cup {0} = ColonsTo(i) \cup {0, i}
        BY <1>1, <2>1, <2>6 DEF ColonsTo
      <3>2. endsN = Append(ends, i)
        BY <2>2, <3>1 DEF endsN
      <3>3. Last(endsN) = i
        BY <2>2, <2>4, <3>2, AppendIs
      <3>4. Pieces(endsN) = EntriesTo(i)
        BY <2>2, <3>1 DEF EntriesTo, endsN
      <3>5. SubSeq(PATH, i + 1, i) = <<>>
        BY <2>4, SubSeqEmpty
      <3> QED
        BY <2>3, <2>4, <2>6, <3>3, <3>4, <3>5
    <2>7. CASE PATH[i] # ":"
      <3>1. ColonsTo(i + 1) = ColonsTo(i)
        BY <1>1, <2>1, <2>7 DEF ColonsTo
      <3>2. endsN = ends
        BY <3>1 DEF ends, endsN
      <3>3. Last(ends) \in Nat /\ Last(ends) < i
        <4>1. Last(ends) = ends[Len(ends)] /\ Len(ends) \in Nat \ {0} /\ Last(ends) \in Nat
          BY <2>2, FrontIs
        <4> QED
          BY <2>2, <4>1
      <3>4. SubSeq(PATH, Last(ends) + 1, i) = Append(w, PATH[i])
        <4>1. Last(ends) + 1 \in 1 .. Len(PATH) /\ i \in Last(ends) + 1 .. Len(PATH)
          BY <1>1, <2>1, <3>3
        <4> QED
          BY <4>1, SubSeqGrows DEF w
      <3>5. EntriesTo(i + 1) = Append(p, Append(w, PATH[i]))
        BY <2>3, <2>4, <3>2, <3>4 DEF p
      <3> QED
        BY <2>2, <2>5, <2>7, <3>5
    <2> QED
      BY <2>6, <2>7
  <1> QED
    BY <1>2, <1>3, <1>4

-----------------------------------------------------------------------------
(* What a line means does not change while it is worked on.                *)

LEMMA MeaningKept ==
  ASSUME UNCHANGED input
  PROVE  /\ WellFormed' = WellFormed /\ Starts' = Starts /\ Words' = Words
         /\ Entries' = Entries /\ InBackground' = InBackground /\ Command' = Command
         /\ Bars' = Bars /\ IsPipe' = IsPipe
         /\ \A k : /\ QuotesBefore(k)' = QuotesBefore(k) /\ Opening(k)' = Opening(k)
                  /\ Plain(k)' = Plain(k) /\ WordAt(k)' = WordAt(k)
         /\ \A S : WordsOf(S)' = WordsOf(S)
         /\ \A i : EntriesTo(i)' = EntriesTo(i)
         /\ \A name : Resolved(name)' = Resolved(name)
         /\ \A n, name : Full(n, name)' = Full(n, name)
PROOF
  <1>0. line' = line /\ PATH' = PATH /\ files' = files
    BY DEF input
  <1>1. ASSUME NEW k PROVE QuotesBefore(k)' = QuotesBefore(k)
    BY <1>0 DEF QuotesBefore
  <1>2. ASSUME NEW k PROVE Opening(k)' = Opening(k) /\ Plain(k)' = Plain(k)
    BY <1>0, <1>1 DEF Opening, Plain
  <1>3. WellFormed' = WellFormed
    BY <1>0, <1>1, <1>2 DEF WellFormed
  <1>4. Starts' = Starts
    BY <1>0, <1>2 DEF Starts
  <1>5. ASSUME NEW k PROVE WordAt(k)' = WordAt(k)
    <2> DEFINE quotes(l, n) == Cardinality({j \in 1 .. n - 1 : l[j] = Quote})
               opening(l, n) == l[n] = Quote /\ quotes(l, n) % 2 = 0
               plain(l, n) == l[n] \notin {Quote, Space} /\ quotes(l, n) % 2 = 0
               word(l) == IF opening(l, k)
                 THEN SubSeq(l, k + 1, (CHOOSE j \in k + 1 .. Len(l) :
                        l[j] = Quote /\ \A m \in k + 1 .. j - 1 : l[m] # Quote) - 1)
                 ELSE SubSeq(l, k, CHOOSE j \in k .. Len(l) :
                        /\ \A m \in k .. j : plain(l, m)
                        /\ j = Len(l) \/ ~plain(l, j + 1))
    <2>1. WordAt(k) = word(line) /\ WordAt(k)' = word(line')
      BY DEF WordAt, Opening, Plain, QuotesBefore
    <2> HIDE DEF word
    <2> QED
      BY <1>0, <2>1
  <1>6. Words' = Words
    BY <1>4, <1>5 DEF Words
  <1>7. Entries' = Entries
    BY <1>0 DEF Entries
  <1>8. ASSUME NEW name PROVE Resolved(name)' = Resolved(name)
    BY <1>0, <1>7 DEF Resolved
  <1>9. InBackground' = InBackground /\ Command' = Command
    BY <1>6 DEF InBackground, Command
  <1>10. Bars' = Bars /\ IsPipe' = IsPipe
    BY <1>8, <1>9 DEF Bars, IsPipe
  <1>11. ASSUME NEW S PROVE WordsOf(S)' = WordsOf(S)
    BY <1>5 DEF WordsOf
  <1>12. ASSUME NEW i PROVE EntriesTo(i)' = EntriesTo(i)
    BY <1>0 DEF EntriesTo, ColonsTo, Pieces
  <1>13. ASSUME NEW n, NEW name PROVE Full(n, name)' = Full(n, name)
    BY <1>7 DEF Full
  <1> QED
    BY <1>1, <1>2, <1>3, <1>4, <1>5, <1>6, <1>7, <1>8, <1>9, <1>10, <1>11, <1>12, <1>13

-----------------------------------------------------------------------------
(* The search along PATH.                                                  *)

LEMMA EntriesAre ==
  ASSUME PATH \in Seq(Chars), PATH # <<>>
  PROVE  Entries \in Seq(Seq(Chars)) /\ Entries # <<>>
PROOF
  <1> DEFINE n == Len(PATH) + 1
             e == InOrder(ColonsTo(n) \cup {0})
  <1>1. n \in 1 .. Len(PATH) + 1
    OBVIOUS
  <1>2. /\ Pieces(e) \in Seq(Seq(Chars)) /\ SubSeq(PATH, Last(e) + 1, n - 1) \in Seq(Chars)
        /\ EntriesTo(n) = Append(Pieces(e), SubSeq(PATH, Last(e) + 1, n - 1))
    <2> HIDE DEF n
    <2> QED
      BY <1>1, EntriesToIs
  <1>3. EntriesTo(n) = Entries
    BY EntriesGrow
  <1> DEFINE f == Pieces(e)
             x == SubSeq(PATH, Last(e) + 1, n - 1)
             W == Seq(Chars)
  <1> HIDE DEF f, x, W
  <1>4. f \in Seq(W) /\ x \in W /\ Entries = Append(f, x)
    BY <1>2, <1>3 DEF f, x, W
  <1>5. Entries \in Seq(W) /\ Entries # <<>>
    BY <1>4, AppendIs
  <1> QED
    BY <1>5 DEF W

\* The first entry that has the name resolves it.
LEMMA SearchFinds ==
  ASSUME PATH \in Seq(Chars), PATH # <<>>, NEW name, NEW p \in DOMAIN Entries,
         \A n \in 1 .. p - 1 : Full(n, name) \notin files
  PROVE  /\ Full(p, name) \in files => Resolved(name) = Full(p, name)
         /\ p = Len(Entries) /\ Full(p, name) \notin files => Resolved(name) = name
         /\ p # Len(Entries) => p + 1 \in DOMAIN Entries
PROOF
  <1>1. Len(Entries) \in Nat /\ DOMAIN Entries = 1 .. Len(Entries) /\ p \in 1 .. Len(Entries)
    BY EntriesAre
  <1> DEFINE has == {n \in DOMAIN Entries : Full(n, name) \in files}
  <1>2. Resolved(name) = IF has = {} THEN name ELSE Full(Min(has), name)
    BY DEF Resolved, Full
  <1>3. \A n \in has : n \in Nat /\ ~(n \in 1 .. p - 1) /\ n \in 1 .. Len(Entries)
    BY <1>1
  <1>4. \A n \in has : p <= n
    BY <1>1, <1>3
  <1>5. CASE Full(p, name) \in files
    <2>1. p \in has /\ p \in Nat
      BY <1>1, <1>5
    <2>2. Min(has) = p
      <3>1. \A x \in has : (\A y \in has : x <= y) => x = p
        BY <1>3, <1>4, <2>1
      <3> HIDE DEF has
      <3> QED
        BY <1>4, <2>1, <3>1 DEF Min
    <2> HIDE DEF has
    <2> QED
      BY <1>1, <1>2, <1>5, <2>1, <2>2
  <1>6. CASE Full(p, name) \notin files
    <2>1. p = Len(Entries) => has = {}
      <3>1. \A n \in has : n # p
        BY <1>6
      <3> QED
        BY <1>1, <1>3, <1>4, <3>1
    <2> HIDE DEF has
    <2> QED
      BY <1>1, <1>2, <1>6, <2>1
  <1> QED
    BY <1>5, <1>6

LEMMA NextPath == TypeInv /\ StageInv /\ PathInv /\ [Next]_vars => PathInv'
PROOF
  <1> SUFFICES ASSUME TypeInv, StageInv, PathInv, [Next]_vars PROVE PathInv'
    OBVIOUS
  <1> USE DEF pathVars, parseVars, pipeVars
  <1>1. PATH \in Seq(Chars) /\ UNCHANGED input
    BY DEF TypeInv, Next, vars, OpenQuote, QuotedChar, Overrun, CloseQuote, SkipSpace, EndWord,
      OrdinaryChar, Parsed, NoAmpersand, TakeAmpersand, PathBegins, Colon, EntryChar, Found,
      NotHere, NoPipe, CopyCommands, FreeWords, PathGoesOn
  <1>2. /\ PATH' = PATH /\ files' = files /\ Entries' = Entries
        /\ \A i : EntriesTo(i)' = EntriesTo(i)
        /\ \A n, name : Full(n, name)' = Full(n, name)
    BY <1>1, MeaningKept DEF input
  <1>3. CASE UNCHANGED vars
    <2>1. UNCHANGED <<pc, parsedPath, pathIndex, argv, argv2>>
      BY <1>3 DEF vars
    <2>2. Name' = Name
      BY <2>1 DEF Name, InPipe
    <2> QED
      BY <1>2, <2>1, <2>2 DEF PathInv
  <1>4. CASE PathBegins
    <2>1. /\ pc' = "entry" => PATH # <<>>
          /\ pc' # "search" /\ pathIndex' = 1 /\ parsedPath' = << <<>> >>
      BY <1>4 DEF PathBegins
    <2>2. PATH # <<>> => EntriesTo(1) = << <<>> >> /\ 1 \in DOMAIN PATH
      BY <1>1, EntriesGrow
    <2> QED
      BY <1>2, <2>1, <2>2 DEF PathInv
  <1>5. CASE Colon \/ EntryChar
    <2>1. /\ pc = "entry" /\ PathGoesOn
          /\ parsedPath' = IF PATH[pathIndex] = ":" THEN Append(parsedPath, <<>>)
                           ELSE Append(Front(parsedPath), Append(Last(parsedPath), PATH[pathIndex]))
      BY <1>5 DEF Colon, EntryChar, Extended
    <2>2. pathIndex \in DOMAIN PATH /\ parsedPath = EntriesTo(pathIndex)
      BY <2>1 DEF PathInv
    <2>3. PATH # <<>> /\ Len(PATH) \in Nat /\ pathIndex \in 1 .. Len(PATH)
      BY <1>1, <2>2
    <2>4. parsedPath' = EntriesTo(pathIndex + 1)
      BY <1>1, <2>1, <2>2, <2>3, EntriesGrow
    <2>5. CASE pathIndex = Len(PATH)
      <3>1. pathIndex' = 1 /\ pc' = "search" /\ parsedPath' = Entries
        BY <1>1, <2>1, <2>3, <2>4, <2>5, EntriesGrow DEF PathGoesOn
      <3>2. 1 \in DOMAIN Entries
        BY <1>1, <2>3, EntriesAre
      <3> QED
        BY <1>2, <3>1, <3>2 DEF PathInv
    <2>6. CASE pathIndex # Len(PATH)
      <3>1. pathIndex' = pathIndex + 1 /\ pc' = "entry"
        BY <2>1, <2>6 DEF PathGoesOn
      <3>2. pathIndex + 1 \in 1 .. Len(PATH)
        BY <2>3, <2>6
      <3> QED
        BY <1>1, <1>2, <2>4, <3>1, <3>2 DEF PathInv
    <2> QED
      BY <2>5, <2>6
  <1>6. CASE NotHere
    <2>1. /\ pc = "search" /\ UNCHANGED <<argv, argv2, parsedPath>> /\ pathIndex' = pathIndex + 1
          /\ pc' = IF pathIndex = Len(parsedPath) THEN AfterSearch ELSE "search"
          /\ FullName \notin files
      BY <1>6 DEF NotHere
    <2>2. /\ parsedPath = Entries /\ pathIndex \in DOMAIN Entries
          /\ \A n \in 1 .. pathIndex - 1 : Full(n, Name) \notin files
      BY <2>1 DEF PathInv
    <2>3. Name' = Name
      BY <2>1 DEF Name, InPipe
    <2>4. CASE pathIndex = Len(parsedPath)
      BY <2>1, <2>4 DEF AfterSearch, PathInv
    <2>5. CASE pathIndex # Len(parsedPath)
      <3>1. PATH # <<>>
        BY <2>1 DEF StageInv
      <3>2. pathIndex + 1 \in DOMAIN Entries
        BY <1>1, <2>2, <2>5, <3>1, SearchFinds
      <3>3. Full(pathIndex, Name) \notin files
        BY <2>1, <2>2 DEF Full, FullName
      <3>4. \A n \in 1 .. pathIndex' - 1 : Full(n, Name) \notin files
        <4>1. pathIndex \in Nat /\ \A n \in 1 .. pathIndex + 1 - 1 : n = pathIndex \/ n \in 1 .. pathIndex - 1
          BY <2>2 DEF TypeInv
        <4> QED
          BY <2>1, <2>2, <3>3, <4>1
      <3> QED
        BY <1>2, <2>1, <2>2, <2>3, <2>5, <3>2, <3>4 DEF PathInv
    <2> QED
      BY <2>4, <2>5
  <1>7. CASE Next /\ ~(PathBegins \/ Colon \/ EntryChar \/ NotHere)
    <2>1. pc' # "entry" /\ pc' # "search"
      BY <1>7 DEF Next, OpenQuote, QuotedChar, Overrun, CloseQuote, SkipSpace, EndWord,
        OrdinaryChar, Reads, Parsed, NoAmpersand, TakeAmpersand, Fetch, Found, AfterSearch,
        NoPipe, CopyCommands, FreeWords
    <2> QED
      BY <2>1 DEF PathInv
  <1> QED
    BY <1>3, <1>4, <1>5, <1>6, <1>7 DEF Next

-----------------------------------------------------------------------------
(* Quotes and words of a line.                                             *)

LEMMA QuotesGrow ==
  ASSUME line \in Seq(Chars)
  PROVE  /\ QuotesBefore(1) = 0
         /\ \A k \in 1 .. Len(line) + 1 : QuotesBefore(k) \in Nat
         /\ \A k \in 1 .. Len(line) :
              QuotesBefore(k + 1) = IF line[k] = Quote THEN QuotesBefore(k) + 1 ELSE QuotesBefore(k)
PROOF
  <1> DEFINE Q(k) == {j \in 1 .. k - 1 : line[j] = Quote}
  <1>1. QuotesBefore(1) = 0
    <2>1. Q(1) = {}
      OBVIOUS
    <2> QED
      BY <2>1, FS_EmptySet DEF QuotesBefore
  <1>2. ASSUME NEW k \in 1 .. Len(line) + 1 PROVE IsFiniteSet(Q(k)) /\ Cardinality(Q(k)) \in Nat
    <2>1. 1 \in Int /\ k - 1 \in Int
      BY <1>2
    <2>2. IsFiniteSet(1 .. k - 1)
      BY <2>1, FS_Interval
    <2>3. Q(k) \in SUBSET (1 .. k - 1)
      OBVIOUS
    <2>4. IsFiniteSet(Q(k))
      BY <2>2, <2>3, FS_Subset
    <2> HIDE DEF Q
    <2> QED
      BY <2>4, FS_CardinalityType
  <1>3. ASSUME NEW k \in 1 .. Len(line)
        PROVE  QuotesBefore(k + 1) = IF line[k] = Quote THEN QuotesBefore(k) + 1 ELSE QuotesBefore(k)
    <2>1. k \in Nat /\ k \in 1 .. Len(line) + 1
      BY <1>3
    <2>2. \A j : j \in 1 .. k + 1 - 1 <=> j \in 1 .. k - 1 \/ j = k
      BY <2>1, <1>3
    <2>3. CASE line[k] = Quote
      <3>1. Q(k + 1) = Q(k) \cup {k} /\ k \notin Q(k)
        BY <2>1, <2>2, <2>3
      <3>2. IsFiniteSet(Q(k))
        BY <1>2, <2>1
      <3> HIDE DEF Q
      <3>3. Cardinality(Q(k + 1)) = Cardinality(Q(k)) + 1
        BY <3>1, <3>2, FS_AddElement
      <3> QED
        BY <2>3, <3>3 DEF QuotesBefore, Q
    <2>4. CASE line[k] # Quote
      <3>1. Q(k + 1) = Q(k)
        BY <2>2, <2>4
      <3> QED
        BY <2>4, <3>1 DEF QuotesBefore
    <2> QED
      BY <2>3, <2>4
  <1> QED
    BY <1>1, <1>2, <1>3 DEF QuotesBefore

\* A quote changes the parity of the quotes before, nothing else does.
LEMMA ParityChanges ==
  ASSUME line \in Seq(Chars), NEW k \in 1 .. Len(line)
  PROVE  /\ QuotesBefore(k) % 2 \in {0, 1}
         /\ line[k] = Quote => QuotesBefore(k + 1) % 2 = 1 - (QuotesBefore(k) % 2)
         /\ line[k] # Quote => QuotesBefore(k + 1) % 2 = QuotesBefore(k) % 2
PROOF
  <1>1. QuotesBefore(k) \in Nat
    BY QuotesGrow
  <1>2. QuotesBefore(k + 1) = IF line[k] = Quote THEN QuotesBefore(k) + 1 ELSE QuotesBefore(k)
    BY QuotesGrow
  <1>3. \A n \in Nat : (n % 2) \in {0, 1} /\ ((n + 1) % 2) = 1 - (n % 2)
    OBVIOUS
  <1> QED
    BY <1>1, <1>2, <1>3

LEMMA StartsAre ==
  ASSUME line \in Seq(Chars)
  PROVE  /\ Starts \in SUBSET (1 .. Len(line)) /\ Starts \in SUBSET Nat /\ IsFiniteSet(Starts)
         /\ \A i : Below(Starts, i) \in SUBSET Starts /\ IsFiniteSet(Below(Starts, i))
         /\ Below(Starts, 1) = {} /\ Below(Starts, Len(line) + 1) = Starts
         /\ \A i \in Nat : Below(Starts, i + 1) = IF i \in Starts THEN Below(Starts, i) \cup {i}
                                                 ELSE Below(Starts, i)
PROOF
  <1>1. Starts \in SUBSET (1 .. Len(line)) /\ Starts \in SUBSET Nat /\ Len(line) \in Nat
    BY DEF Starts
  <1>2. IsFiniteSet(Starts)
    <2>1. 1 \in Int /\ Len(line) \in Int
      BY <1>1
    <2>2. IsFiniteSet(1 .. Len(line))
      BY <2>1, FS_Interval
    <2> QED
      BY <1>1, <2>2, FS_Subset
  <1>3. ASSUME NEW i PROVE Below(Starts, i) \in SUBSET Starts /\ IsFiniteSet(Below(Starts, i))
    <2>1. Below(Starts, i) \in SUBSET Starts
      BY DEF Below
    <2> QED
      BY <1>2, <2>1, FS_Subset
  <1>4. Below(Starts, 1) = {} /\ Below(Starts, Len(line) + 1) = Starts
    <2>1. \A k \in Starts : ~(k < 1) /\ k < Len(line) + 1
      BY <1>1
    <2> QED
      BY <2>1 DEF Below
  <1>5. ASSUME NEW i \in Nat
        PROVE  Below(Starts, i + 1) = IF i \in Starts THEN Below(Starts, i) \cup {i} ELSE Below(Starts, i)
    <2>1. \A k \in Starts : k < i + 1 <=> k < i \/ k = i
      BY <1>1
    <2>2. ~(i < i)
      OBVIOUS
    <2> QED
      BY <2>1, <2>2 DEF Below
  <1> QED
    BY <1>1, <1>2, <1>3, <1>4, <1>5

\* A later word comes last.
LEMMA WordsGrow ==
  ASSUME line \in Seq(Chars), NEW m \in Starts
  PROVE  WordsOf(Below(Starts, m) \cup {m}) = Append(WordsOf(Below(Starts, m)), WordAt(m))
PROOF
  <1> DEFINE S == Below(Starts, m)
             s == InOrder(S)
             T == {WordAt(k) : k \in Starts}
  <1>1. S \in SUBSET Nat /\ IsFiniteSet(S) /\ S \in SUBSET Starts /\ m \in Nat /\ \A k \in S : k < m
    BY StartsAre DEF Below
  <1> HIDE DEF S
  <1>2. InOrder(S \cup {m}) = Append(s, m)
    BY <1>1, InOrderGrows
  <1>3. s \in Seq(S)
    BY <1>1, InOrderIs
  <1> HIDE DEF s
  <1>4. s \in Seq(Starts) /\ Len(s) \in Nat /\ DOMAIN s = 1 .. Len(s)
    <2>1. s \in [1 .. Len(s) -> S] /\ Len(s) \in Nat
      BY <1>3
    <2>2. s \in [1 .. Len(s) -> Starts]
      BY <1>1, <2>1
    <2> QED
      BY <2>1, <2>2
  <1>5. /\ Append(s, m) \in Seq(Starts) /\ Len(Append(s, m)) = Len(s) + 1
        /\ \A i \in 1 .. Len(s) : Append(s, m)[i] = s[i]
        /\ Append(s, m)[Len(s) + 1] = m
    BY <1>4, AppendIs
  <1> DEFINE u == WordsOf(S)
             v == WordsOf(S \cup {m})
             w == Append(u, WordAt(m))
  <1>6. u = [i \in 1 .. Len(s) |-> WordAt(s[i])]
    BY <1>4 DEF WordsOf, s
  <1>7. v = [i \in 1 .. Len(s) + 1 |-> WordAt(Append(s, m)[i])]
    <2>1. DOMAIN Append(s, m) = 1 .. Len(s) + 1
      BY <1>5
    <2> QED
      BY <1>2, <2>1 DEF WordsOf
  <1>8. \A k \in Starts : WordAt(k) \in T
    OBVIOUS
  <1> HIDE DEF u, v, T
  <1>9. u \in Seq(T) /\ Len(u) = Len(s)
    <2>1. \A i \in 1 .. Len(s) : WordAt(s[i]) \in T
      BY <1>4, <1>8
    <2> QED
      BY <1>4, <1>6, <2>1
  <1>10. /\ w \in Seq(T) /\ Len(w) = Len(s) + 1 /\ (\A i \in 1 .. Len(s) : w[i] = u[i])
         /\ w[Len(s) + 1] = WordAt(m)
    BY <1>8, <1>9, AppendIs
  <1> HIDE DEF w
  <1>11. v \in Seq(T) /\ Len(v) = Len(s) + 1
    <2>1. \A i \in 1 .. Len(s) + 1 : WordAt(Append(s, m)[i]) \in T
      BY <1>4, <1>5, <1>8
    <2>2. Len(s) + 1 \in Nat
      BY <1>4
    <2> QED
      BY <1>7, <2>1, <2>2
  <1>12. ASSUME NEW i \in 1 .. Len(s) + 1 PROVE v[i] = w[i]
    <2>1. CASE i = Len(s) + 1
      BY <1>5, <1>7, <1>10, <2>1
    <2>2. CASE i # Len(s) + 1
      <3>1. i \in 1 .. Len(s)
        BY <1>4, <2>2
      <3> QED
        BY <1>5, <1>6, <1>7, <1>10, <3>1
    <2> QED
      BY <2>1, <2>2
  <1>13. v = w
    BY <1>10, <1>11, <1>12, SeqEqual
  <1> QED
    BY <1>13 DEF v, w, u, S

\* A quoted word ends before the next quote.
LEMMA QuotedWord ==
  ASSUME line \in Seq(Chars), NEW o \in 1 .. Len(line), Opening(o), NEW i \in 1 .. Len(line), o < i,
         line[i] = Quote, \A m \in o + 1 .. i - 1 : line[m] # Quote
  PROVE  WordAt(o) = SubSeq(line, o + 1, i - 1)
PROOF
  <1> DEFINE P(j) == line[j] = Quote /\ \A m \in o + 1 .. j - 1 : line[m] # Quote
             D == o + 1 .. Len(line)
  <1>1. i \in D /\ P(i)
    OBVIOUS
  <1>2. ASSUME NEW j \in D, P(j) PROVE j = i
    <2>1. ~(j < i)
      BY <1>2
    <2>2. ~(i < j)
      BY <1>2
    <2> QED
      BY <2>1, <2>2
  <1>3. (CHOOSE j \in D : P(j)) = i
    <2> HIDE DEF D, P
    <2> QED
      BY <1>1, <1>2
  <1>4. WordAt(o) = SubSeq(line, o + 1, (CHOOSE j \in D : P(j)) - 1)
    BY DEF WordAt
  <1> QED
    BY <1>3, <1>4

\* Another word ends before the first character that is not plain.
LEMMA PlainWord ==
  ASSUME line \in Seq(Chars), NEW s \in 1 .. Len(line), NEW i \in s .. Len(line),
         \A m \in s .. i : Plain(m), i = Len(line) \/ ~Plain(i + 1)
  PROVE  WordAt(s) = SubSeq(line, s, i)
PROOF
  <1> DEFINE P(j) == (\A m \in s .. j : Plain(m)) /\ (j = Len(line) \/ ~Plain(j + 1))
             D == s .. Len(line)
  <1>1. i \in D /\ P(i)
    OBVIOUS
  <1>2. ASSUME NEW j \in D, P(j) PROVE j = i
    <2>1. ~(j < i)
      BY <1>2
    <2>2. ~(i < j)
      BY <1>2
    <2> QED
      BY <2>1, <2>2
  <1>3. (CHOOSE j \in D : P(j)) = i
    <2> HIDE DEF D, P
    <2> QED
      BY <1>1, <1>2
  <1>4. ~Opening(s)
    BY DEF Opening, Plain
  <1>5. WordAt(s) = SubSeq(line, s, CHOOSE j \in D : P(j))
    BY <1>4 DEF WordAt
  <1> QED
    BY <1>3, <1>5

-----------------------------------------------------------------------------
(* The parse follows the line.                                             *)

\* Where a word begins, and where none does.
LEMMA StartsHere ==
  ASSUME line \in Seq(Chars), NEW i \in 1 .. Len(line)
  PROVE  /\ Opening(i) => i \in Starts
         /\ Plain(i) /\ (i = 1 \/ ~Plain(i - 1)) => i \in Starts
         /\ Plain(i) /\ i # 1 /\ Plain(i - 1) => i \notin Starts
         /\ ~Opening(i) /\ ~Plain(i) => i \notin Starts
  BY DEF Starts, Opening, Plain

LEMMA NextParse ==
  ASSUME TypeInv, StageInv, ParseInv, WellFormed,
         OpenQuote \/ QuotedChar \/ Overrun \/ CloseQuote \/ SkipSpace \/ EndWord
           \/ OrdinaryChar \/ Parsed
  PROVE  /\ pc' = "parse" => ParsedTo(inputIndex)'
         /\ pc' = "quote" => QuotedTo(inputIndex)'
         /\ findAmp' = FALSE
         /\ pc' \in {"ampersand", "null"} => argv' = Words
PROOF
  <1> USE DEF input, parseVars, pathVars, pipeVars
  <1>0. PICK i : i = inputIndex
    OBVIOUS
  <1>1. /\ line \in Seq(Chars) /\ Len(line) \in Nat \ {0} /\ i \in 1 .. Len(line) + 1 /\ i \in Nat
        /\ ~AtEnd(i) => i \in 1 .. Len(line)
        /\ AtEnd(i) => i = Len(line) + 1
        /\ i + 1 > 1 /\ i + 1 - 1 = i
    BY <1>0 DEF TypeInv, AtEnd
  <1>2. /\ pc \in {"parse", "quote"} /\ UNCHANGED <<input, findAmp>> /\ findAmp = FALSE
        /\ pc = "parse" => ParsedTo(i)
        /\ pc = "quote" => QuotedTo(i)
    BY <1>0 DEF OpenQuote, QuotedChar, Overrun, CloseQuote, SkipSpace, EndWord, OrdinaryChar,
      Reads, Parsed, ParseInv
  <1>3. /\ Starts' = Starts
        /\ \A k : QuotesBefore(k)' = QuotesBefore(k) /\ Opening(k)' = Opening(k) /\ Plain(k)' = Plain(k)
        /\ \A S : WordsOf(S)' = WordsOf(S)
        /\ line' = line
    BY <1>2, MeaningKept
  <1>4. \A S, k : Below(S, k)' = Below(S, k)
    BY DEF Below
  <1>5. ASSUME inputIndex' = i + 1, QuotesBefore(i + 1) % 2 = 0, spaceFlag' = 0 <=> Plain(i),
               spaceFlag' # 0 \/ i + 1 > Len(line), argv' = WordsOf(Below(Starts, i + 1)),
               spaceFlag' = 1 => buffer' = <<>>
        PROVE  ParsedTo(inputIndex)'
    <2>1. ~(spaceFlag' = 0 /\ i + 1 <= Len(line))
      BY <1>1, <1>5
    <2> QED
      BY <1>1, <1>3, <1>4, <1>5, <2>1 DEF ParsedTo
  <1>6. ASSUME inputIndex' = i + 1, QuotesBefore(i + 1) % 2 = 0, spaceFlag' = 0, Plain(i),
               i + 1 <= Len(line), NEW s \in Starts, InWord(s, i + 1),
               Below(Starts, i + 1) = Below(Starts, s) \cup {s},
               buffer' = SubSeq(line, s, i), argv' = WordsOf(Below(Starts, s))
        PROVE  ParsedTo(inputIndex)'
    <2>1. InWord(s, i + 1)'
      BY <1>1, <1>3, <1>6 DEF InWord
    <2> QED
      <3>1. (QuotesBefore(inputIndex) % 2 = 0)' /\ (inputIndex > 1 /\ Plain(inputIndex - 1))'
            /\ (inputIndex <= Len(line))'
        BY <1>1, <1>3, <1>6
      <3>2. WordsOf(Below(Starts, s))' = WordsOf(Below(Starts, s))
        BY <1>3, <1>4
      <3>3. (Below(Starts, inputIndex) = Below(Starts, s) \cup {s})'
        BY <1>3, <1>4, <1>6
      <3>4. (buffer = SubSeq(line, s, inputIndex - 1))'
        <4>1. inputIndex' - 1 = i
          BY <1>1, <1>6
        <4> QED
          BY <1>3, <1>6, <4>1
      <3>5. InWord(s, inputIndex)'
        BY <1>6, <2>1
      <3>6. s \in Starts' /\ (argv = WordsOf(Below(Starts, s)))'
        BY <1>3, <1>6, <3>2
      <3> QED
        BY <1>6, <3>1, <3>3, <3>4, <3>5, <3>6 DEF ParsedTo
  <1>7. ASSUME inputIndex' = i + 1, QuotesBefore(i + 1) % 2 = 1, spaceFlag' = 1,
               NEW o \in Starts, o < i + 1, Opening(o), \A m \in o + 1 .. i : line[m] # Quote,
               Below(Starts, i + 1) = Below(Starts, o) \cup {o},
               buffer' = SubSeq(line, o + 1, i), argv' = WordsOf(Below(Starts, o))
        PROVE  QuotedTo(inputIndex)'
    <2>1. (QuotesBefore(inputIndex) % 2 = 1)' /\ (o < inputIndex /\ Opening(o))'
      BY <1>3, <1>7
    <2>2. (\A m \in o + 1 .. inputIndex - 1 : line[m] # Quote)'
      BY <1>1, <1>3, <1>7
    <2>3. (Below(Starts, inputIndex) = Below(Starts, o) \cup {o})'
      BY <1>3, <1>4, <1>7
    <2>4. (buffer = SubSeq(line, o + 1, inputIndex - 1))'
      <3>1. inputIndex' - 1 = i
        BY <1>1, <1>7
      <3> QED
        BY <1>3, <1>7, <3>1
    <2>5. WordsOf(Below(Starts, o))' = WordsOf(Below(Starts, o))
      BY <1>3, <1>4
    <2>6. o \in Starts' /\ (argv = WordsOf(Below(Starts, o)))'
      BY <1>3, <1>7, <2>5
    <2> QED
      BY <1>7, <2>1, <2>2, <2>3, <2>4, <2>6 DEF QuotedTo
  <1>8. CASE OpenQuote
    <2>1. /\ pc = "parse" /\ ~AtEnd(i) /\ line[i] = Quote /\ pc' = "quote" /\ inputIndex' = i + 1
          /\ UNCHANGED <<spaceFlag, buffer, argv>>
      BY <1>0, <1>8 DEF OpenQuote, Reads
    <2>2. i \in 1 .. Len(line) /\ ParsedTo(i)
      BY <1>1, <1>2, <2>1
    <2>3. Opening(i) /\ i \in Starts
      BY <1>1, <2>1, <2>2, StartsHere DEF ParsedTo, Opening
    <2>4. ~(i > 1 /\ Plain(i - 1))
      <3>1. i > 1 => i \in 2 .. Len(line)
        BY <1>1, <2>2
      <3> QED
        BY <2>3, <3>1 DEF WellFormed
    <2>5. spaceFlag = 1 /\ buffer = <<>> /\ argv = WordsOf(Below(Starts, i))
      BY <2>2, <2>4 DEF ParsedTo, TypeInv
    <2>6. QuotesBefore(i + 1) % 2 = 1
      <3>1. QuotesBefore(i + 1) % 2 = 1 - (QuotesBefore(i) % 2)
        BY <1>1, <2>1, <2>2, ParityChanges
      <3> QED
        BY <2>2, <3>1 DEF ParsedTo
    <2>7. Below(Starts, i + 1) = Below(Starts, i) \cup {i}
      BY <1>1, <2>3, StartsAre
    <2>8. SubSeq(line, i + 1, i) = <<>>
      BY <1>1, SubSeqEmpty
    <2>9. i < i + 1 /\ \A m \in i + 1 .. i : line[m] # Quote
      BY <1>1
    <2>10. QuotedTo(inputIndex)'
      BY <1>7, <2>1, <2>3, <2>5, <2>6, <2>7, <2>8, <2>9
    <2> QED
      BY <1>2, <2>1, <2>10
  <1>9. CASE QuotedChar
    <2>1. /\ pc = "quote" /\ ~AtEnd(i) /\ line[i] # Quote /\ pc' = "quote" /\ inputIndex' = i + 1
          /\ UNCHANGED <<spaceFlag, argv>> /\ buffer' = Append(buffer, line[i])
      BY <1>0, <1>9 DEF QuotedChar
    <2>2. i \in 1 .. Len(line) /\ QuotedTo(i)
      BY <1>1, <1>2, <2>1
    <2>3. PICK o \in Starts :
               /\ o < i /\ Opening(o)
               /\ \A m \in o + 1 .. i - 1 : line[m] # Quote
               /\ Below(Starts, i) = Below(Starts, o) \cup {o}
               /\ buffer = SubSeq(line, o + 1, i - 1)
               /\ argv = WordsOf(Below(Starts, o))
      BY <2>2 DEF QuotedTo
    <2>4. QuotesBefore(i + 1) % 2 = 1
      BY <1>1, <2>1, <2>2, ParityChanges DEF QuotedTo
    <2>5. i \notin Starts
      BY <1>1, <2>2, StartsHere DEF QuotedTo, Opening, Plain
    <2>6. Below(Starts, i + 1) = Below(Starts, i)
      BY <1>1, <2>5, StartsAre
    <2>7. o \in 1 .. Len(line) /\ o \in Nat
      BY <1>1, StartsAre
    <2>8. buffer' = SubSeq(line, o + 1, i)
      <3>1. o + 1 \in 1 .. Len(line) /\ i \in o + 1 .. Len(line)
        BY <1>1, <2>2, <2>3, <2>7
      <3>2. SubSeq(line, o + 1, i) = Append(SubSeq(line, o + 1, i - 1), line[i])
        BY <1>1, <3>1, SubSeqGrows
      <3> QED
        BY <2>1, <2>3, <3>2
    <2>9. o < i + 1 /\ \A m \in o + 1 .. i : line[m] # Quote
      <3>1. o < i + 1 /\ \A m \in o + 1 .. i : m = i \/ m \in o + 1 .. i - 1
        BY <1>1, <2>3, <2>7
      <3> QED
        BY <2>1, <2>3, <3>1
    <2>10. spaceFlag' = 1
      BY <2>1, <2>2 DEF QuotedTo
    <2>11. QuotedTo(inputIndex)'
      BY <1>7, <2>1, <2>3, <2>4, <2>6, <2>8, <2>9, <2>10
    <2> QED
      BY <1>2, <2>1, <2>11
  <1>10. CASE Overrun
    BY <1>2, <1>10 DEF Overrun
  <1>11. CASE CloseQuote
    <2>1. /\ pc = "quote" /\ ~AtEnd(i) /\ line[i] = Quote /\ pc' = "parse" /\ inputIndex' = i + 1
          /\ UNCHANGED spaceFlag /\ buffer' = <<>> /\ argv' = Append(argv, buffer)
      BY <1>0, <1>11 DEF CloseQuote, PushWord
    <2>2. i \in 1 .. Len(line) /\ QuotedTo(i)
      BY <1>1, <1>2, <2>1
    <2>3. PICK o \in Starts :
               /\ o < i /\ Opening(o)
               /\ \A m \in o + 1 .. i - 1 : line[m] # Quote
               /\ Below(Starts, i) = Below(Starts, o) \cup {o}
               /\ buffer = SubSeq(line, o + 1, i - 1)
               /\ argv = WordsOf(Below(Starts, o))
      BY <2>2 DEF QuotedTo
    <2>4. QuotesBefore(i + 1) % 2 = 0
      <3>1. QuotesBefore(i + 1) % 2 = 1 - (QuotesBefore(i) % 2)
        BY <1>1, <2>1, <2>2, ParityChanges
      <3> QED
        BY <2>2, <3>1 DEF QuotedTo
    <2>5. i \notin Starts /\ ~Plain(i)
      BY <1>1, <2>2, StartsHere DEF QuotedTo, Opening, Plain
    <2>6. Below(Starts, i + 1) = Below(Starts, i)
      BY <1>1, <2>5, StartsAre
    <2>7. buffer = WordAt(o)
      <3>1. o \in 1 .. Len(line)
        BY <1>1, StartsAre
      <3> QED
        BY <1>1, <2>1, <2>2, <2>3, <3>1, QuotedWord
    <2>8. argv' = WordsOf(Below(Starts, i + 1))
      BY <1>1, <2>1, <2>3, <2>6, <2>7, WordsGrow
    <2>9. spaceFlag' = 1
      BY <2>1, <2>2 DEF QuotedTo
    <2>10. ParsedTo(inputIndex)'
      BY <1>5, <2>1, <2>4, <2>5, <2>8, <2>9
    <2> QED
      BY <1>2, <2>1, <2>10
  <1>12. CASE SkipSpace
    <2>1. /\ pc = "parse" /\ ~AtEnd(i) /\ line[i] = Space /\ pc' = "parse" /\ inputIndex' = i + 1
          /\ spaceFlag = 1 /\ UNCHANGED <<spaceFlag, buffer, argv>>
      BY <1>0, <1>12 DEF SkipSpace, Reads
    <2>2. i \in 1 .. Len(line) /\ ParsedTo(i)
      BY <1>1, <1>2, <2>1
    <2>3. line[i] # Quote /\ ~Plain(i) /\ ~Opening(i)
      BY <2>1 DEF Plain, Opening, Quote, Space
    <2>4. QuotesBefore(i + 1) % 2 = 0
      BY <1>1, <2>2, <2>3, ParityChanges DEF ParsedTo
    <2>5. i \notin Starts
      BY <1>1, <2>2, <2>3, StartsHere
    <2>6. Below(Starts, i + 1) = Below(Starts, i)
      BY <1>1, <2>5, StartsAre
    <2>7. argv' = WordsOf(Below(Starts, i + 1)) /\ buffer' = <<>>
      BY <2>1, <2>2, <2>6 DEF ParsedTo
    <2>8. ParsedTo(inputIndex)'
      BY <1>5, <2>1, <2>3, <2>4, <2>7
    <2> QED
      BY <1>2, <2>1, <2>8
  <1>13. CASE EndWord
    <2>1. /\ pc = "parse" /\ ~AtEnd(i) /\ line[i] = Space /\ pc' = "parse" /\ inputIndex' = i + 1
          /\ spaceFlag # 1 /\ spaceFlag' = 1 /\ buffer' = <<>> /\ argv' = Append(argv, buffer)
      BY <1>0, <1>13 DEF EndWord, Reads, PushWord
    <2>2. i \in 1 .. Len(line) /\ ParsedTo(i) /\ spaceFlag = 0
      BY <1>1, <1>2, <2>1 DEF TypeInv
    <2>3. line[i] # Quote /\ ~Plain(i) /\ ~Opening(i)
      BY <2>1 DEF Plain, Opening, Quote, Space
    <2>4. QuotesBefore(i + 1) % 2 = 0
      BY <1>1, <2>2, <2>3, ParityChanges DEF ParsedTo
    <2>5. i \notin Starts
      BY <1>1, <2>2, <2>3, StartsHere
    <2>6. Below(Starts, i + 1) = Below(Starts, i)
      BY <1>1, <2>5, StartsAre
    <2>7. i <= Len(line)
      BY <1>1, <2>2
    <2>8. PICK s \in Starts :
               /\ InWord(s, i)
               /\ Below(Starts, i) = Below(Starts, s) \cup {s}
               /\ buffer = SubSeq(line, s, i - 1)
               /\ argv = WordsOf(Below(Starts, s))
      BY <2>2, <2>7 DEF ParsedTo
    <2>9. buffer = WordAt(s)
      <3>1. s \in 1 .. Len(line) /\ s < i
        BY <1>1, <2>8, StartsAre DEF InWord
      <3>2. i - 1 \in s .. Len(line) /\ i - 1 + 1 = i
        BY <1>1, <2>2, <3>1
      <3>3. \A m \in s .. i - 1 : Plain(m)
        BY <2>8 DEF InWord
      <3>4. ~Plain(i - 1 + 1)
        BY <2>3, <3>2
      <3> QED
        BY <1>1, <2>8, <3>1, <3>2, <3>3, <3>4, PlainWord
    <2>10. argv' = WordsOf(Below(Starts, i + 1))
      BY <1>1, <2>1, <2>6, <2>8, <2>9, WordsGrow
    <2>11. ParsedTo(inputIndex)'
      BY <1>5, <2>1, <2>3, <2>4, <2>10
    <2> QED
      BY <1>2, <2>1, <2>11
  <1>14. CASE OrdinaryChar
    <2>1. /\ pc = "parse" /\ ~AtEnd(i) /\ line[i] \notin {Quote, Space} /\ pc' = "parse"
          /\ inputIndex' = i + 1 /\ spaceFlag' = 0 /\ buffer' = Append(buffer, line[i])
          /\ argv' = IF AtEnd(i + 1) THEN Append(argv, buffer') ELSE argv
      BY <1>0, <1>14 DEF OrdinaryChar, Reads, PushWord
    <2>2. i \in 1 .. Len(line) /\ ParsedTo(i) /\ i <= Len(line)
      BY <1>1, <1>2, <2>1
    <2>3. Plain(i) /\ ~Opening(i)
      BY <2>1, <2>2 DEF Plain, Opening, ParsedTo
    <2>4. QuotesBefore(i + 1) % 2 = 0
      BY <1>1, <2>1, <2>2, ParityChanges DEF ParsedTo
    <2>5. PICK s \in Starts :
               /\ InWord(s, i + 1)
               /\ Below(Starts, i + 1) = Below(Starts, s) \cup {s}
               /\ buffer' = SubSeq(line, s, i)
               /\ argv = WordsOf(Below(Starts, s))
      <3>1. CASE spaceFlag = 1
        <4>1. ~(i > 1 /\ Plain(i - 1)) /\ argv = WordsOf(Below(Starts, i)) /\ buffer = <<>>
          BY <2>2, <3>1 DEF ParsedTo
        <4>2. i \in Starts
          <5>1. i = 1 \/ ~Plain(i - 1)
            BY <1>1, <4>1
          <5> QED
            BY <1>1, <2>2, <2>3, <5>1, StartsHere
        <4>3. Below(Starts, i + 1) = Below(Starts, i) \cup {i}
          BY <1>1, <4>2, StartsAre
        <4>4. InWord(i, i + 1)
          <5>1. i < i + 1 /\ \A m \in i .. (i + 1) - 1 : m = i
            BY <1>1
          <5>2. \A m \in i .. (i + 1) - 1 : Plain(m)
            BY <2>3, <5>1, Zenon
          <5> QED
            BY <4>2, <5>1, <5>2, Zenon DEF InWord
        <4>5. buffer' = SubSeq(line, i, i)
          <5>1. i \in 1 .. Len(line) /\ i \in i .. Len(line) /\ i - 1 < i /\ i - 1 \in Int /\ i \in Int
            BY <1>1, <2>2
          <5>2. SubSeq(line, i, i) = Append(SubSeq(line, i, i - 1), line[i])
            BY <1>1, <5>1, SubSeqGrows
          <5>3. SubSeq(line, i, i - 1) = <<>>
            BY <5>1, SubSeqEmpty
          <5> QED
            BY <2>1, <4>1, <5>2, <5>3
        <4> QED
          BY <4>1, <4>2, <4>3, <4>4, <4>5
      <3>2. CASE spaceFlag = 0
        <4>1. PICK s \in Starts :
                   /\ InWord(s, i)
                   /\ Below(Starts, i) = Below(Starts, s) \cup {s}
                   /\ buffer = SubSeq(line, s, i - 1)
                   /\ argv = WordsOf(Below(Starts, s))
          BY <2>2, <3>2 DEF ParsedTo
        <4>2. i # 1 /\ Plain(i - 1)
          BY <2>2, <3>2 DEF ParsedTo
        <4>3. i \notin Starts
          BY <1>1, <2>2, <2>3, <4>2, StartsHere
        <4>4. Below(Starts, i + 1) = Below(Starts, i)
          BY <1>1, <4>3, StartsAre
        <4>5. s \in 1 .. Len(line) /\ s < i /\ \A m \in s .. i - 1 : Plain(m)
          BY <1>1, <4>1, StartsAre DEF InWord
        <4>6. InWord(s, i + 1)
          <5>1. s < i + 1 /\ \A m \in s .. (i + 1) - 1 : m = i \/ m \in s .. i - 1
            BY <1>1, <4>5
          <5>2. \A m \in s .. (i + 1) - 1 : Plain(m)
            BY <2>3, <4>5, <5>1, Zenon
          <5> QED
            BY <5>1, <5>2, Zenon DEF InWord
        <4>7. buffer' = SubSeq(line, s, i)
          <5>1. i \in s .. Len(line)
            BY <1>1, <2>2, <4>5
          <5>2. SubSeq(line, s, i) = Append(SubSeq(line, s, i - 1), line[i])
            BY <1>1, <4>5, <5>1, SubSeqGrows
          <5> QED
            BY <2>1, <4>1, <5>2
        <4> QED
          BY <4>1, <4>4, <4>6, <4>7
      <3> QED
        BY <3>1, <3>2 DEF TypeInv
    <2>6. CASE i + 1 <= Len(line)
      <3>1. argv' = argv
        BY <1>1, <2>1, <2>6 DEF AtEnd
      <3>2. ParsedTo(inputIndex)'
        BY <1>6, <2>1, <2>3, <2>4, <2>5, <2>6, <3>1
      <3> QED
        BY <1>2, <2>1, <3>2
    <2>7. CASE i + 1 > Len(line)
      <3>1. argv' = Append(argv, buffer') /\ i = Len(line)
        BY <1>1, <2>1, <2>2, <2>7 DEF AtEnd
      <3>2. buffer' = WordAt(s)
        <4>1. s \in 1 .. Len(line) /\ s < i + 1 /\ \A m \in s .. i + 1 - 1 : Plain(m)
          BY <1>1, <2>5, StartsAre DEF InWord
        <4>2. i \in s .. Len(line) /\ \A m \in s .. i : Plain(m)
          BY <1>1, <2>2, <4>1
        <4> QED
          BY <1>1, <2>5, <3>1, <4>1, <4>2, PlainWord
      <3>3. argv' = WordsOf(Below(Starts, i + 1))
        BY <1>1, <2>5, <3>1, <3>2, WordsGrow
      <3>4. ParsedTo(inputIndex)'
        <4>1. spaceFlag' # 1 /\ inputIndex' = i + 1 /\ (spaceFlag' = 0 <=> Plain(i))
          BY <2>1, <2>3
        <4> QED
          BY <1>5, <2>4, <2>7, <3>3, <4>1
      <3> QED
        BY <1>2, <2>1, <3>4
    <2> QED
      <3>1. i + 1 <= Len(line) \/ i + 1 > Len(line)
        BY <1>1
      <3> QED
        BY <2>6, <2>7, <3>1
  <1>15. CASE Parsed
    <2>1. pc = "parse" /\ i = Len(line) + 1 /\ argv' = argv /\ pc' \in {"null", "ampersand"}
      BY <1>0, <1>1, <1>15 DEF Parsed
    <2>2. ParsedTo(i) /\ ~(i <= Len(line))
      BY <1>1, <1>2, <2>1
    <2>3. argv = WordsOf(Starts)
      BY <1>1, <2>1, <2>2, StartsAre DEF ParsedTo
    <2> QED
      BY <1>2, <2>1, <2>3 DEF Words, WordsOf
  <1> QED
    BY <1>8, <1>9, <1>10, <1>11, <1>12, <1>13, <1>14, <1>15

LEMMA NextParseInv == TypeInv /\ StageInv /\ ParseInv /\ [Next]_vars => ParseInv'
PROOF
  <1> SUFFICES ASSUME TypeInv, StageInv, ParseInv, [Next]_vars PROVE ParseInv'
    OBVIOUS
  <1> USE DEF pathVars, parseVars, pipeVars
  <1>1. UNCHANGED input
    BY DEF Next, vars, OpenQuote, QuotedChar, Overrun, CloseQuote, SkipSpace, EndWord,
      OrdinaryChar, Parsed, NoAmpersand, TakeAmpersand, PathBegins, Colon, EntryChar, Found,
      NotHere, NoPipe, CopyCommands, FreeWords, PathGoesOn
  <1>2. /\ WellFormed' = WellFormed /\ Words' = Words /\ Starts' = Starts
        /\ \A k : QuotesBefore(k)' = QuotesBefore(k) /\ Opening(k)' = Opening(k) /\ Plain(k)' = Plain(k)
        /\ \A S : WordsOf(S)' = WordsOf(S)
        /\ line' = line
    BY <1>1, MeaningKept DEF input
  <1>3. CASE UNCHANGED vars
    <2>1. UNCHANGED <<pc, inputIndex, spaceFlag, buffer, argv, findAmp>>
      BY <1>3 DEF vars
    <2>2. \A S, k : Below(S, k)' = Below(S, k)
      BY DEF Below
    <2>3. ParsedTo(inputIndex) => ParsedTo(inputIndex)'
      BY <1>2, <2>1, <2>2 DEF ParsedTo, InWord
    <2>4. QuotedTo(inputIndex) => QuotedTo(inputIndex)'
      BY <1>2, <2>1, <2>2 DEF QuotedTo
    <2> QED
      BY <1>2, <2>1, <2>3, <2>4 DEF ParseInv
  <1>4. CASE OpenQuote \/ QuotedChar \/ Overrun \/ CloseQuote \/ SkipSpace \/ EndWord
               \/ OrdinaryChar \/ Parsed
    <2>1. WellFormed => /\ pc' = "parse" => ParsedTo(inputIndex)'
                        /\ pc' = "quote" => QuotedTo(inputIndex)'
                        /\ findAmp' = FALSE
                        /\ pc' \in {"ampersand", "null"} => argv' = Words
      BY <1>4, NextParse
    <2> QED
      BY <1>2, <2>1 DEF ParseInv
  <1>5. CASE NoAmpersand \/ TakeAmpersand \/ PathBegins \/ Colon \/ EntryChar \/ Found \/ NotHere
               \/ NoPipe \/ CopyCommands \/ FreeWords
    <2>1. pc' \notin {"parse", "quote", "ampersand"}
      BY <1>5 DEF NoAmpersand, TakeAmpersand, Fetch, PathBegins, Colon, EntryChar, PathGoesOn,
        Found, NotHere, AfterSearch, NoPipe, CopyCommands, FreeWords
    <2> QED
      BY <2>1 DEF ParseInv
  <1> QED
    BY <1>3, <1>4, <1>5 DEF Next

-----------------------------------------------------------------------------
(* Where a bar is.                                                         *)

\* Another first word leaves the others.
LEMMA TailSame ==
  ASSUME NEW T, NEW s \in Seq(T), NEW t \in Seq(T), s # <<>>, Len(t) = Len(s),
         \A i \in 2 .. Len(s) : t[i] = s[i]
  PROVE  Tail(t) = Tail(s)
PROOF
  <1>1. Len(s) \in Nat \ {0}
    BY EmptySeq, LenProperties
  <1>2. t # <<>>
    BY <1>1
  <1>3. Tail(s) \in Seq(T) /\ Len(Tail(s)) = Len(s) - 1 /\ \A i \in 1 .. Len(Tail(s)) : Tail(s)[i] = s[i + 1]
    BY HeadTailProperties
  <1>4. Tail(t) \in Seq(T) /\ Len(Tail(t)) = Len(t) - 1 /\ \A i \in 1 .. Len(Tail(t)) : Tail(t)[i] = t[i + 1]
    BY <1>2, HeadTailProperties
  <1>5. \A i \in 1 .. Len(s) - 1 : i + 1 \in 2 .. Len(s)
    BY <1>1
  <1>6. \A i \in 1 .. Len(Tail(t)) : Tail(t)[i] = Tail(s)[i]
    BY <1>3, <1>4, <1>5
  <1> QED
    BY <1>3, <1>4, <1>6, SeqEqual

\* The name with its directory is never a bar, as it has a slash.
LEMMA ResolvedBar ==
  ASSUME PATH \in Seq(Chars), PATH # <<>>, NEW name \in Seq(Chars)
  PROVE  Resolved(name) = Bar <=> name = Bar /\ Resolved(Bar) = Bar
PROOF
  <1>1. \A n \in DOMAIN Entries : Full(n, name) # Bar
    <2> TAKE n \in DOMAIN Entries
    <2> DEFINE e == Entries[n]
    <2>1. e \in Seq(Chars)
      BY EntriesAre
    <2> HIDE DEF e
    <2>2. <<"/">> \in Seq(Chars) /\ Len(<<"/">>) = 1 /\ <<"/">>[1] = "/"
      BY LinesAssumption
    <2>3. Len(e) \in Nat /\ Len(name) \in Nat
      BY <2>1
    <2>4. /\ e \o <<"/">> \in Seq(Chars) /\ Len(e \o <<"/">>) = Len(e) + 1
          /\ (e \o <<"/">>)[Len(e) + 1] = "/"
      <3>1. /\ e \o <<"/">> \in Seq(Chars) /\ Len(e \o <<"/">>) = Len(e) + Len(<<"/">>)
            /\ \A i \in 1 .. Len(e) + Len(<<"/">>) : (e \o <<"/">>)[i] =
                  IF i <= Len(e) THEN e[i] ELSE <<"/">>[i - Len(e)]
        BY <2>1, <2>2, ConcatProperties
      <3>2. Len(e) + 1 \in 1 .. Len(e) + 1 /\ ~(Len(e) + 1 <= Len(e)) /\ Len(e) + 1 - Len(e) = 1
        BY <2>3
      <3> QED
        BY <2>2, <3>1, <3>2
    <2> DEFINE d == e \o <<"/">>
    <2> HIDE DEF d
    <2>5. d \in Seq(Chars) /\ Len(d) = Len(e) + 1 /\ d[Len(e) + 1] = "/"
      BY <2>4 DEF d
    <2>6. /\ Len(d \o name) = Len(d) + Len(name)
          /\ \A i \in 1 .. Len(d) + Len(name) : (d \o name)[i] =
                IF i <= Len(d) THEN d[i] ELSE name[i - Len(d)]
      BY <2>5, ConcatProperties
    <2>7. Len(d \o name) >= Len(e) + 1 /\ (d \o name)[Len(e) + 1] = "/"
      <3>1. Len(e) + 1 \in 1 .. Len(d) + Len(name) /\ Len(e) + 1 <= Len(d)
        BY <2>3, <2>5
      <3> QED
        BY <2>3, <2>5, <2>6, <3>1
    <2>8. d \o name # Bar
      <3> SUFFICES ASSUME d \o name = Bar PROVE FALSE
        OBVIOUS
      <3>1. Len(d \o name) = 1 /\ (d \o name)[1] = "|"
        BY DEF Bar
      <3>2. Len(e) + 1 = 1
        BY <2>3, <2>7, <3>1
      <3> QED
        BY <2>7, <3>1, <3>2
    <2> QED
      BY <2>8 DEF Full, d, e
  <1>2. Resolved(name) = name \/ \E n \in DOMAIN Entries : Resolved(name) = Full(n, name)
    <2> DEFINE has == {n \in DOMAIN Entries : Full(n, name) \in files}
    <2>1. Resolved(name) = IF has = {} THEN name ELSE Full(Min(has), name)
      BY DEF Resolved, Full
    <2>2. has # {} => Min(has) \in has
      <3>1. Len(Entries) \in Nat /\ DOMAIN Entries = 1 .. Len(Entries)
        BY EntriesAre
      <3>2. has \in SUBSET (1 .. Len(Entries)) /\ has \in SUBSET Nat /\ 1 \in Int /\ Len(Entries) \in Int
        BY <3>1
      <3>3. IsFiniteSet(1 .. Len(Entries))
        BY <3>2, FS_Interval
      <3> HIDE DEF has
      <3>4. IsFiniteSet(has)
        BY <3>2, <3>3, FS_Subset
      <3> QED
        BY <3>2, <3>4, MinIs
    <2> QED
      BY <2>1, <2>2
  <1> QED
    BY <1>1, <1>2

LEMMA FirstBarIs ==
  ASSUME TypeInv, PATH # <<>>, Command \in Seq(Seq(Chars)), Command # <<>>, argv = FirstResolved
  PROVE  /\ \A i \in 2 .. Len(argv) : IsFirstBar(i) => IsPipe /\ i = Min(Bars)
         /\ IsPipe => Min(Bars) \in 2 .. Len(argv) /\ IsFirstBar(Min(Bars))
         /\ Len(argv) = Len(Command) /\ Len(argv) \in Nat \ {0}
         /\ argv[1] = Resolved(Command[1]) /\ \A i \in 2 .. Len(argv) : argv[i] = Command[i]
PROOF
  <1>1. PATH \in Seq(Chars) /\ argv \in Seq(Seq(Chars))
    BY DEF TypeInv
  <1>2. Len(Command) \in Nat \ {0} /\ Command[1] \in Seq(Chars)
    BY EmptySeq, LenProperties
  <1>3. /\ Len(argv) = Len(Command) /\ argv[1] = Resolved(Command[1])
        /\ \A i \in 2 .. Len(argv) : argv[i] = Command[i]
    <2> DEFINE c == Command
               x == Resolved(Command[1])
    <2>1. argv = [c EXCEPT ![1] = x] /\ c \in [1 .. Len(c) -> Seq(Chars)] /\ 1 \in 1 .. Len(c)
      BY <1>2 DEF FirstResolved
    <2> HIDE DEF c, x
    <2>2. DOMAIN argv = 1 .. Len(c) /\ argv[1] = x /\ \A i \in 2 .. Len(c) : argv[i] = c[i]
      BY <2>1
    <2>3. Len(argv) = Len(c)
      BY <1>1, <1>2, <2>2 DEF c
    <2> QED
      BY <2>2, <2>3 DEF c, x
  <1>4. 1 \in Bars <=> argv[1] = Bar
    BY <1>1, <1>2, <1>3, ResolvedBar DEF Bars
  <1>5. \A i \in 2 .. Len(argv) : i \in Bars <=> argv[i] = Bar
    BY <1>2, <1>3 DEF Bars
  <1>6. \A i \in Bars : i \in 1 .. Len(argv) /\ i \in Nat /\ (i = 1 \/ i \in 2 .. Len(argv))
    BY <1>2, <1>3 DEF Bars
  <1>7. ASSUME NEW i \in 2 .. Len(argv), IsFirstBar(i) PROVE IsPipe /\ i = Min(Bars)
    <2>1. i \in Bars /\ i \in Nat /\ 1 \in 1 .. i - 1
      BY <1>2, <1>3, <1>5, <1>7 DEF IsFirstBar
    <2>2. 1 \notin Bars
      BY <1>4, <1>7, <2>1 DEF IsFirstBar
    <2>3. ASSUME NEW k \in Bars PROVE i <= k
      <3>1. k \in 2 .. Len(argv) /\ argv[k] = Bar
        BY <1>5, <1>6, <2>2
      <3>2. k \notin 1 .. i - 1
        BY <1>7, <3>1 DEF IsFirstBar
      <3> QED
        BY <1>2, <1>3, <2>1, <3>1, <3>2
    <2>4. \A x \in Bars : (\A y \in Bars : x <= y) => x = i
      BY <1>6, <2>1, <2>3
    <2>5. Min(Bars) = i
      BY <2>1, <2>3, <2>4 DEF Min
    <2> QED
      BY <2>1, <2>2, <2>5 DEF IsPipe
  <1>8. ASSUME IsPipe PROVE Min(Bars) \in 2 .. Len(argv) /\ IsFirstBar(Min(Bars))
    <2>1. Bars # {} /\ 1 \notin Bars
      BY <1>8 DEF IsPipe
    <2>2. Bars \in SUBSET (1 .. Len(argv)) /\ Bars \in SUBSET Nat /\ 1 \in Int /\ Len(argv) \in Int
      BY <1>2, <1>3, <1>6
    <2>3. IsFiniteSet(Bars)
      <3>1. IsFiniteSet(1 .. Len(argv))
        BY <2>2, FS_Interval
      <3> QED
        BY <2>2, <3>1, FS_Subset
    <2> DEFINE b == Min(Bars)
    <2>4. b \in Bars /\ \A k \in Bars : b <= k
      BY <2>1, <2>2, <2>3, MinIs
    <2> HIDE DEF b
    <2>5. b \in 2 .. Len(argv) /\ argv[b] = Bar /\ b \in Nat
      BY <1>5, <1>6, <2>1, <2>4
    <2>6. ASSUME NEW j \in 1 .. b - 1 PROVE argv[j] # Bar
      <3>1. j \notin Bars
        BY <2>4, <2>5, <2>6
      <3>2. j = 1 \/ j \in 2 .. Len(argv)
        BY <1>2, <1>3, <2>5
      <3> QED
        BY <1>4, <1>5, <3>1, <3>2
    <2> QED
      BY <2>5, <2>6 DEF IsFirstBar, b
  <1> QED
    BY <1>2, <1>3, <1>7, <1>8

-----------------------------------------------------------------------------
(* The commands are those of the line.                                     *)

\* Once PATH is searched, the name is what PATH says.
LEMMA NameResolved ==
  ASSUME TypeInv, StageInv, PathInv, pc = "search"
  PROVE  /\ FullName \in files => Resolved(Name) = FullName
         /\ FullName \notin files /\ pathIndex = Len(parsedPath) => Resolved(Name) = Name
PROOF
  <1>1. /\ parsedPath = Entries /\ pathIndex \in DOMAIN Entries
        /\ \A n \in 1 .. pathIndex - 1 : Full(n, Name) \notin files
    BY DEF PathInv
  <1>2. PATH \in Seq(Chars) /\ PATH # <<>>
    BY DEF TypeInv, StageInv
  <1>3. FullName = Full(pathIndex, Name)
    BY <1>1 DEF FullName, Full
  <1> DEFINE name == Name
  <1> HIDE DEF name
  <1>4. \A n \in 1 .. pathIndex - 1 : Full(n, name) \notin files
    BY <1>1 DEF name
  <1>5. /\ Full(pathIndex, name) \in files => Resolved(name) = Full(pathIndex, name)
        /\ pathIndex = Len(Entries) /\ Full(pathIndex, name) \notin files => Resolved(name) = name
    BY <1>1, <1>2, <1>4, SearchFinds
  <1> QED
    BY <1>1, <1>3, <1>5 DEF name

LEMMA NextCommand ==
  ASSUME TypeInv, StageInv, ParseInv, PathInv, CommandInv, WellFormed, Next
  PROVE  CommandInv'
PROOF
  <1> USE DEF pathVars, parseVars, pipeVars
  <1>1. UNCHANGED input
    BY DEF Next, OpenQuote, QuotedChar, Overrun, CloseQuote, SkipSpace, EndWord,
      OrdinaryChar, Parsed, NoAmpersand, TakeAmpersand, PathBegins, Colon, EntryChar, Found,
      NotHere, NoPipe, CopyCommands, FreeWords, PathGoesOn
  <1>2. /\ Words' = Words /\ InBackground' = InBackground /\ Command' = Command
        /\ Bars' = Bars /\ IsPipe' = IsPipe
        /\ FirstResolved' = FirstResolved /\ Second' = Second /\ Before' = Before
        /\ \A name : Resolved(name)' = Resolved(name)
    <2>1. /\ Words' = Words /\ InBackground' = InBackground /\ Command' = Command
          /\ Bars' = Bars /\ IsPipe' = IsPipe
          /\ \A name : Resolved(name)' = Resolved(name)
      BY <1>1, MeaningKept
    <2>2. FirstResolved' = FirstResolved /\ Second' = Second
      BY <2>1 DEF FirstResolved, Second
    <2>3. Before' = Before
      BY <2>1, <2>2 DEF Before
    <2> QED
      BY <2>1, <2>2, <2>3
  <1>3. CASE OpenQuote \/ QuotedChar \/ Overrun \/ CloseQuote \/ SkipSpace \/ EndWord
               \/ OrdinaryChar \/ Parsed
    <2>1. pc' \in {"parse", "quote", "undefined", "ampersand", "null"} /\ (pc' = "null" => argv' = <<>>)
      BY <1>3 DEF OpenQuote, QuotedChar, Overrun, CloseQuote, SkipSpace, EndWord, OrdinaryChar,
        Reads, Parsed
    <2>2. pc' = "null" => argv' = Words
      BY <1>3, NextParse
    <2>3. pc' = "null" => Command' = <<>>
      BY <1>2, <2>1, <2>2 DEF InBackground, Command
    <2> QED
      BY <2>1, <2>3 DEF CommandInv, Resolving
  <1>4. CASE NoAmpersand \/ TakeAmpersand
    <2>1. /\ pc = "ampersand" /\ argv = Words /\ findAmp = FALSE /\ argv # <<>>
          /\ argv \in Seq(Seq(Chars)) /\ argv1 = <<>> /\ argv2 = <<>>
      BY <1>4 DEF NoAmpersand, TakeAmpersand, ParseInv, StageInv, TypeInv
    <2>2. /\ pc' = IF argv' = <<>> THEN "null" ELSE "path"
          /\ UNCHANGED <<argv1, argv2>>
      BY <1>4 DEF NoAmpersand, TakeAmpersand, Fetch
    <2>3. argv' = Command /\ findAmp' = InBackground
      BY <1>4, <2>1 DEF NoAmpersand, TakeAmpersand, InBackground, Command
    <2>4. Command \in Seq(Seq(Chars))
      BY <2>1, FrontIs DEF Command
    <2>5. ~InPipe'
      BY <2>1, <2>2 DEF InPipe
    <2> QED
      BY <1>2, <2>1, <2>2, <2>3, <2>4, <2>5 DEF CommandInv, Resolving
  <1>5. CASE PathBegins \/ Colon \/ EntryChar \/ (NotHere /\ pathIndex # Len(parsedPath))
    <2>1. /\ Resolving /\ pc' \in {"undefined", "entry", "search"}
          /\ UNCHANGED <<argv, argv1, argv2, findAmp>>
      BY <1>5 DEF PathBegins, Colon, EntryChar, NotHere, PathGoesOn, Resolving
    <2>2. InPipe' = InPipe
      BY <2>1 DEF InPipe
    <2> QED
      BY <1>2, <2>1, <2>2 DEF CommandInv, Resolving
  <1>6. CASE Found \/ (NotHere /\ pathIndex = Len(parsedPath))
    <2>1. /\ pc = "search" /\ UNCHANGED <<findAmp, argv1>>
          /\ pc' = AfterSearch /\ argv # <<>> /\ argv \in Seq(Seq(Chars)) /\ argv2 \in Seq(Seq(Chars))
      BY <1>6 DEF Found, NotHere, StageInv, TypeInv
    <2>2. /\ FullName \in files => Resolved(Name) = FullName
          /\ FullName \notin files /\ pathIndex = Len(parsedPath) => Resolved(Name) = Name
      BY <2>1, NameResolved
    <2>3. ASSUME NEW T, NEW s \in Seq(T), s # <<>> PROVE s = [s EXCEPT ![1] = s[1]]
      BY LenProperties
    <2>4. CASE InPipe
      <3>1. UNCHANGED argv /\ argv2' = [argv2 EXCEPT ![1] = Resolved(argv2[1])]
        <4>1. Name = argv2[1] /\ argv2 # <<>>
          BY <2>4 DEF Name, InPipe
        <4>2. CASE Found
          BY <2>2, <2>4, <4>1, <4>2 DEF Found
        <4>3. CASE NotHere /\ pathIndex = Len(parsedPath)
          <5>1. Resolved(argv2[1]) = argv2[1] /\ UNCHANGED <<argv, argv2>>
            BY <2>2, <4>1, <4>3 DEF NotHere
          <5> QED
            BY <2>1, <2>3, <4>1, <5>1
        <4> QED
          BY <1>6, <4>2, <4>3
      <3>2. pc' = "run"
        BY <2>1, <2>4 DEF AfterSearch
      <3>3. /\ Command \in Seq(Seq(Chars)) /\ Command # <<>> /\ findAmp = InBackground
            /\ argv = FirstResolved /\ IsPipe /\ Min(Bars) # Len(Command)
            /\ argv1 = Before /\ argv2 = Second
        BY <2>1, <2>4 DEF CommandInv, Resolving
      <3> QED
        BY <1>2, <2>1, <3>1, <3>2, <3>3 DEF CommandInv, Resolving
    <2>5. CASE ~InPipe
      <3>1. UNCHANGED argv2 /\ argv' = [argv EXCEPT ![1] = Resolved(argv[1])]
        <4>1. Name = argv[1]
          BY <2>5 DEF Name
        <4>2. CASE Found
          BY <2>2, <2>5, <4>1, <4>2 DEF Found
        <4>3. CASE NotHere /\ pathIndex = Len(parsedPath)
          <5>1. Resolved(argv[1]) = argv[1] /\ UNCHANGED <<argv, argv2>>
            BY <2>2, <4>1, <4>3 DEF NotHere
          <5> QED
            BY <2>1, <2>3, <5>1
        <4> QED
          BY <1>6, <4>2, <4>3
      <3>2. pc' = "pipe"
        BY <2>1, <2>5 DEF AfterSearch
      <3>3. /\ Command \in Seq(Seq(Chars)) /\ Command # <<>> /\ findAmp = InBackground
            /\ argv = Command
        BY <2>1, <2>5 DEF CommandInv, Resolving
      <3> QED
        BY <1>2, <2>1, <3>1, <3>2, <3>3 DEF CommandInv, Resolving, FirstResolved
    <2> QED
      BY <2>4, <2>5
  <1>7. CASE NoPipe \/ CopyCommands
    <2>1. /\ pc = "pipe" /\ argv = FirstResolved /\ Command \in Seq(Seq(Chars)) /\ Command # <<>>
          /\ PATH # <<>> /\ argv1 = <<>> /\ argv2 = <<>> /\ findAmp = InBackground
          /\ UNCHANGED <<argv, findAmp>> /\ argv \in Seq(Seq(Chars))
      BY <1>7 DEF NoPipe, CopyCommands, CommandInv, StageInv, TypeInv
    <2>2. /\ \A i \in 2 .. Len(argv) : IsFirstBar(i) => IsPipe /\ i = Min(Bars)
          /\ IsPipe => Min(Bars) \in 2 .. Len(argv) /\ IsFirstBar(Min(Bars))
          /\ Len(argv) = Len(Command) /\ Len(argv) \in Nat \ {0}
          /\ \A i \in 2 .. Len(argv) : argv[i] = Command[i]
      BY <2>1, FirstBarIs
    <2>3. CASE NoPipe
      <3>1. ~IsPipe
        BY <2>2, <2>3 DEF NoPipe
      <3>2. pc' = "run" /\ UNCHANGED <<argv1, argv2>>
        BY <2>3 DEF NoPipe
      <3> QED
        BY <1>2, <2>1, <3>1, <3>2 DEF CommandInv, Resolving
    <2>4. CASE CopyCommands
      <3> DEFINE b == Min(Bars)
      <3>1. /\ IsPipe /\ b \in 2 .. Len(argv)
            /\ argv1' = SubSeq(argv, 1, b - 1) /\ argv2' = SubSeq(argv, b + 1, Len(argv))
        BY <2>2, <2>4 DEF CopyCommands
      <3>2. argv1' = Before
        BY <2>1, <3>1 DEF Before
      <3>3. /\ argv2' = Second
            /\ argv2' = <<>> <=> b = Len(Command)
        <4> HIDE DEF b
        <4> DEFINE n == Len(argv)
                   u == SubSeq(argv, b + 1, n)
                   v == SubSeq(Command, b + 1, n)
        <4>1. b + 1 \in 1 .. n + 1 /\ n \in (b + 1) - 1 .. n /\ n \in Nat /\ b \in Nat
          BY <2>2, <3>1
        <4>2. /\ u \in Seq(Seq(Chars)) /\ Len(u) = n - (b + 1) + 1
              /\ \A i \in 1 .. n - (b + 1) + 1 : u[i] = argv[(b + 1) + i - 1]
          BY <2>1, <4>1, SubSeqIs
        <4>3. /\ v \in Seq(Seq(Chars)) /\ Len(v) = n - (b + 1) + 1
              /\ \A i \in 1 .. n - (b + 1) + 1 : v[i] = Command[(b + 1) + i - 1]
          BY <2>1, <2>2, <4>1, SubSeqIs
        <4>4. \A i \in 1 .. n - (b + 1) + 1 : (b + 1) + i - 1 \in 2 .. n
          BY <3>1, <4>1
        <4> HIDE DEF n, u, v
        <4>5. u = v
          <5>1. \A i \in 1 .. Len(u) : u[i] = v[i]
            BY <2>2, <4>2, <4>3, <4>4 DEF n
          <5> QED
            BY <4>2, <4>3, <5>1, SeqEqual
        <4>6. u = <<>> <=> b = n
          <5>1. n - (b + 1) + 1 = 0 <=> b = n
            BY <4>1
          <5>2. Len(u) = 0 <=> u = <<>>
            BY <4>2
          <5> QED
            BY <4>2, <5>1, <5>2
        <4> QED
          BY <2>2, <3>1, <4>5, <4>6 DEF Second, n, u, v, b
      <3>4. pc' = IF argv2' = <<>> THEN "null" ELSE "path"
        BY <2>4 DEF CopyCommands
      <3>5. InPipe' <=> argv2' # <<>>
        BY DEF InPipe
      <3> QED
        BY <1>2, <2>1, <3>1, <3>2, <3>3, <3>4, <3>5 DEF CommandInv, Resolving
    <2> QED
      BY <1>7, <2>3, <2>4
  <1>8. CASE FreeWords
    BY <1>8 DEF FreeWords, CommandInv, Resolving
  <1> QED
    BY <1>3, <1>4, <1>5, <1>6, <1>7, <1>8 DEF Next

Inv == TypeInv /\ StageInv /\ HeapInv /\ ParseInv /\ PathInv /\ CommandInv

LEMMA InitInv == Init => Inv
PROOF
  <1> SUFFICES ASSUME Init PROVE Inv
    OBVIOUS
  <1>1. TypeInv /\ StageInv
    BY InitTypes
  <1>2. HeapInv /\ PathInv /\ CommandInv
    BY DEF Init, HeapInv, PathInv, CommandInv, Resolving
  <1>3. line \in Seq(Chars) /\ pc = "parse" /\ inputIndex = 1 /\ spaceFlag = 1 /\ buffer = <<>>
        /\ argv = <<>> /\ findAmp = FALSE
    BY <1>1 DEF Init, TypeInv
  <1>4. QuotesBefore(1) % 2 = 0
    BY <1>3, QuotesGrow
  <1>5. WordsOf(Below(Starts, 1)) = <<>>
    <2>1. Below(Starts, 1) = {}
      BY <1>3, StartsAre
    <2>2. InOrder({}) = <<>>
      <3>1. Cardinality({}) = 0 /\ IsFiniteSet({}) /\ {} \subseteq Nat
        BY FS_EmptySet
      <3>2. InOrder({}) \in Seq({}) /\ Len(InOrder({})) = 0
        BY <3>1, InOrderIs
      <3> QED
        BY <3>2
    <2> QED
      BY <2>1, <2>2 DEF WordsOf
  <1>6. ParsedTo(inputIndex)
    BY <1>3, <1>4, <1>5 DEF ParsedTo
  <1> QED
    BY <1>1, <1>2, <1>3, <1>6 DEF Inv, ParseInv

LEMMA NextInv == Inv /\ [Next]_vars => Inv'
PROOF
  <1> SUFFICES ASSUME Inv, [Next]_vars PROVE Inv'
    OBVIOUS
  <1>1. TypeInv' /\ StageInv' /\ HeapInv' /\ PathInv' /\ ParseInv'
    BY NextTypes, NextPath, NextParseInv DEF Inv
  <1>2. UNCHANGED input
    BY DEF vars, input, pathVars, parseVars, pipeVars, Next, OpenQuote, QuotedChar, Overrun,
      CloseQuote, SkipSpace, EndWord, OrdinaryChar, Parsed, NoAmpersand, TakeAmpersand, PathBegins,
      Colon, EntryChar, Found, NotHere, NoPipe, CopyCommands, FreeWords, PathGoesOn
  <1>3. CommandInv'
    <2>1. CASE ~WellFormed
      BY <1>2, <2>1, MeaningKept DEF CommandInv
    <2>2. CASE WellFormed /\ Next
      BY <2>2, NextCommand DEF Inv
    <2>3. CASE UNCHANGED vars
      <3>1. /\ WellFormed' = WellFormed /\ InBackground' = InBackground /\ Command' = Command
            /\ Bars' = Bars /\ IsPipe' = IsPipe
            /\ \A name : Resolved(name)' = Resolved(name)
        BY <1>2, MeaningKept
      <3>2. FirstResolved' = FirstResolved /\ Second' = Second
        BY <3>1 DEF FirstResolved, Second
      <3>3. Before' = Before
        BY <3>1, <3>2 DEF Before
      <3>4. UNCHANGED <<pc, argv, argv1, argv2, findAmp>>
        BY <2>3 DEF vars, pipeVars
      <3> QED
        BY <3>1, <3>2, <3>3, <3>4 DEF Inv, CommandInv, Resolving, InPipe
    <2> QED
      BY <2>1, <2>2, <2>3
  <1> QED
    BY <1>1, <1>3 DEF Inv

LEMMA InvHolds == Spec => []Inv
  BY InitInv, NextInv, PTL DEF Spec

\* The commands run: the first words, the other words, and of a pipe both.
LEMMA CommandsRun ==
  ASSUME Inv, pc = "run", WellFormed
  PROVE  /\ argv[1] = Resolved(Command[1]) /\ Tail(argv) = Tail(Command)
         /\ IsPipe => /\ argv1[1] = argv[1] /\ argv2[1] = Resolved(Command[Min(Bars) + 1])
                      /\ Tail(argv1) = Tail(SubSeq(Command, 1, Min(Bars) - 1))
                      /\ Tail(argv2) = Tail(SubSeq(Command, Min(Bars) + 1, Len(Command)))
PROOF
  <1> DEFINE W == Seq(Chars)
             n == Len(Command)
             b == Min(Bars)
  <1>1. /\ TypeInv /\ PATH # <<>> /\ Command \in Seq(W) /\ Command # <<>> /\ argv = FirstResolved
        /\ argv \in Seq(W) /\ argv1 \in Seq(W) /\ argv2 \in Seq(W)
    BY DEF Inv, StageInv, CommandInv, TypeInv
  <1>2. /\ IsPipe => b \in 2 .. n
        /\ Len(argv) = n /\ n \in Nat \ {0}
        /\ argv[1] = Resolved(Command[1]) /\ \A i \in 2 .. n : argv[i] = Command[i]
    <2>1. /\ IsPipe => Min(Bars) \in 2 .. Len(argv)
          /\ Len(argv) = Len(Command) /\ Len(argv) \in Nat \ {0}
          /\ argv[1] = Resolved(Command[1]) /\ \A i \in 2 .. Len(argv) : argv[i] = Command[i]
      BY <1>1, FirstBarIs
    <2> QED
      BY <2>1
  <1>3. Tail(argv) = Tail(Command)
    BY <1>1, <1>2, TailSame
  <1>4. ASSUME IsPipe
        PROVE  /\ argv1[1] = argv[1] /\ argv2[1] = Resolved(Command[b + 1])
               /\ Tail(argv1) = Tail(SubSeq(Command, 1, b - 1))
               /\ Tail(argv2) = Tail(SubSeq(Command, b + 1, n))
    <2>1. /\ b # n /\ argv1 = SubSeq(argv, 1, b - 1)
          /\ argv2 = [SubSeq(Command, b + 1, n) EXCEPT ![1] = Resolved(SubSeq(Command, b + 1, n)[1])]
      BY <1>1, <1>4 DEF Inv, CommandInv, Before, Second
    <2> DEFINE u == SubSeq(Command, 1, b - 1)
               v == SubSeq(Command, b + 1, n)
               x == Resolved(v[1])
    <2> HIDE DEF n, b, W
    <2>2. /\ b \in Nat /\ b >= 2 /\ n \in Nat /\ b < n
          /\ 1 \in 1 .. n + 1 /\ b - 1 \in 1 - 1 .. n /\ b + 1 \in 1 .. n + 1 /\ n \in (b + 1) - 1 .. n
          /\ \A i \in 1 .. b - 1 : 1 + i - 1 = i
      BY <1>2, <1>4, <2>1
    <2>3. /\ u \in Seq(W) /\ Len(u) = b - 1 - 1 + 1
          /\ \A i \in 1 .. b - 1 - 1 + 1 : u[i] = Command[1 + i - 1]
      BY <1>1, <2>2, SubSeqIs DEF n
    <2>4. /\ Len(argv1) = b - 1 - 1 + 1
          /\ \A i \in 1 .. b - 1 - 1 + 1 : argv1[i] = argv[1 + i - 1]
      BY <1>1, <1>2, <2>1, <2>2, SubSeqIs
    <2>5. /\ v \in Seq(W) /\ Len(v) = n - (b + 1) + 1
          /\ \A i \in 1 .. n - (b + 1) + 1 : v[i] = Command[(b + 1) + i - 1]
      BY <1>1, <2>2, SubSeqIs DEF n
    <2> HIDE DEF u, v, x
    <2>6. /\ b - 1 - 1 + 1 = b - 1 /\ b - 1 \in Nat /\ 1 \in 1 .. b - 1
          /\ \A i \in 2 .. b - 1 : i \in 1 .. b - 1 /\ i \in 2 .. n
          /\ 1 \in 1 .. n - (b + 1) + 1 /\ (b + 1) + 1 - 1 = b + 1
      BY <2>2
    <2>7. argv1[1] = argv[1]
      BY <2>2, <2>4, <2>6
    <2>8. Tail(argv1) = Tail(u)
      <3>1. Len(argv1) = Len(u) /\ u # <<>> /\ Len(u) = b - 1
        BY <2>3, <2>4, <2>6
      <3>2. \A i \in 2 .. Len(u) : argv1[i] = u[i]
        BY <1>2, <2>2, <2>3, <2>4, <2>6, <3>1
      <3> QED
        BY <1>1, <2>3, <3>1, <3>2, TailSame
    <2>9. v[1] = Command[b + 1] /\ v # <<>>
      BY <2>5, <2>6
    <2>10. argv2 = [v EXCEPT ![1] = x]
      BY <2>1 DEF v, x
    <2>11. /\ Len(argv2) = Len(v) /\ argv2[1] = x /\ \A i \in 2 .. Len(v) : argv2[i] = v[i]
      <3>1. Len(v) \in Nat \ {0} /\ v \in [1 .. Len(v) -> W] /\ 1 \in 1 .. Len(v)
        BY <2>5, <2>9
      <3>2. DOMAIN argv2 = 1 .. Len(v) /\ argv2[1] = x /\ \A i \in 2 .. Len(v) : argv2[i] = v[i]
        BY <2>10, <3>1
      <3> QED
        BY <1>1, <3>1, <3>2
    <2>12. Tail(argv2) = Tail(v)
      BY <1>1, <2>5, <2>9, <2>11, TailSame
    <2>13. argv2[1] = Resolved(Command[b + 1])
      BY <2>9, <2>11 DEF x
    <2> QED
      BY <2>7, <2>8, <2>12, <2>13 DEF u, v
  <1> QED
    BY <1>2, <1>3, <1>4

-----------------------------------------------------------------------------
(* Theorems.                                                               *)

\* The words are those the line shows, in their order, for a line of any
\* length.  (parser.c 44-103)
THEOREM ParsedAsTyped == Spec => []WordsAsTyped
PROOF
  <1>1. Inv => WordsAsTyped
    BY DEF Inv, TypeInv, ParseInv, WordsAsTyped
  <1> QED
    BY <1>1, InvHolds, PTL

\* What runs is what the line says.  (parser.c 20-42; mysh.c 143-158; fs.c
\* 167-197)
THEOREM RunAsTyped == Spec => []Understood
PROOF
  <1>1. Inv => Understood
    <2> SUFFICES ASSUME Inv, pc = "run", WellFormed PROVE Understood
      BY DEF Understood
    <2>1. findAmp = InBackground /\ (~IsPipe => argv1 = <<>> /\ argv2 = <<>>)
      BY DEF Inv, CommandInv
    <2> QED
      BY <2>1, CommandsRun DEF Understood
  <1> QED
    BY <1>1, InvHolds, PTL

\* The names run are those the first fitting entry of PATH gives, for a PATH of
\* any length.  (fs.c 195, 213-267; mysh.c 143)
THEOREM FoundFirst == Spec => []FirstInPath
PROOF
  <1>1. Inv => FirstInPath
    BY CommandsRun DEF FirstInPath
  <1> QED
    BY <1>1, InvHolds, PTL

\* A NULL is taken for a string exactly when a command is missing.  (mysh.c 78,
\* 91; fs.c 195)
THEOREM NullIsMissingCommand == Spec => []NullWhenNoCommand
PROOF
  <1>1. Inv => NullWhenNoCommand
    BY DEF Inv, CommandInv, NullWhenNoCommand
  <1> QED
    BY <1>1, InvHolds, PTL

=============================================================================
