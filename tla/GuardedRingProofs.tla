------------------------- MODULE GuardedRingProofs --------------------------
(***************************************************************************)
(* Under an ideal lock the ring of ringbuffer.c is a bounded first-in      *)
(* first-out queue, for any number of generators, values and slots.        *)
(***************************************************************************)
EXTENDS GuardedRing, FiniteSetTheorems, FunctionTheorems, SequenceTheorems, TLAPS

-----------------------------------------------------------------------------
(* The inductive invariant.                                                *)

GeneratorOps == {"generate", "enter", "retry", "store", "leave", "count"}
CounterOps == {"enter", "retry", "load", "leave", "count"}
InsideOps == {"enter", "retry", "store", "load", "leave"}

RingTypeOK ==
  /\ ringbuffer \in [0..NrSlots -> Values \cup {Garbage}]
  /\ front \in 0..NrSlots /\ rear \in 0..NrSlots
  /\ op \in [Workers -> GeneratorOps \cup CounterOps]
  /\ val \in [Workers -> Values \cup {Garbage}]
  /\ left \in [Workers -> Nat]
  /\ generated \in [Values -> Nat] /\ occurrances \in [Values -> Nat]
  /\ main \in {"fini_generators", "fini_counter", "fini_ringbuffer", "exit"}
  /\ inside \subseteq Workers

\* Each thread runs its own operation; the ring is touched under the lock.
OpsInv ==
  /\ op[Counter] \in CounterOps
  /\ \A g \in Generators : op[g] \in GeneratorOps
  /\ \A t \in Workers : op[t] \in {"retry", "store", "load", "leave"} => t \in inside
  /\ \A t \in inside : op[t] \in InsideOps
  /\ \A t, u \in inside : t = u

\* A generator that enqueues has a value; the counter has one when it has
\* dequeued.
ValuesInv ==
  /\ \A g \in Generators : op[g] \in {"enter", "retry", "store"} => val[g] \in Values
  /\ val[Counter] \in Values <=> op[Counter] \in {"leave", "count"}

\* A thread with nothing left to move does not ask for the lock any more, and
\* main goes on only when that is so.
JoinInv ==
  /\ \A t \in Workers : t \in inside \/ op[t] = "count" => left[t] > 0
  /\ \A g \in Generators : op[g] = "enter" => left[g] > 0
  /\ main # "fini_generators" => \A g \in Generators : left[g] = 0
  /\ main \in {"fini_ringbuffer", "exit"} => left[Counter] = 0

\* The cells in use hold values; front does not catch up with a store, nor rear
\* with a load.
CellsInv ==
  /\ Storing => (rear - front) % max > 0
  /\ op[Counter] = "load" => (rear - front) % max < NrSlots
  /\ \A i \in 1..Used : Queued(i) \in Values

RingInv == RingTypeOK /\ OpsInv /\ ValuesInv /\ JoinInv /\ CellsInv

-----------------------------------------------------------------------------
(* Indices that wrap around.                                               *)

\* % on the numbers it meets here.
LEMMA Wrap ==
  /\ max \in Nat \ {0}
  /\ \A x \in 0..(max - 1) : x % max = x
  /\ \A x \in max..(2 * max - 1) : x % max = x - max
  /\ \A x \in (-max)..(-1) : x % max = x + max
PROOF
  <1>1. max \in Nat \ {0}
    BY RingBufferAssumption DEF max
  <1> HIDE DEF max
  <1>2. ASSUME NEW x \in 0..(max - 1) PROVE x % max = x
    BY <1>1
  <1>3. ASSUME NEW x \in max..(2 * max - 1) PROVE x % max = x - max
    BY <1>1
  <1>4. ASSUME NEW x \in (-max)..(-1) PROVE x % max = x + max
    BY <1>1
  <1> QED
    BY <1>1, <1>2, <1>3, <1>4

\* The next index, and the distance of two.
Succ(i) == IF i = NrSlots THEN 0 ELSE i + 1
Dist(i, j) == IF i <= j THEN j - i ELSE j - i + max

LEMMA NextIndex ==
  ASSUME NEW i \in 0..NrSlots
  PROVE  (i + 1) % max = Succ(i) /\ Succ(i) \in 0..NrSlots
PROOF
  BY Wrap, RingBufferAssumption DEF max, Succ

LEMMA Distance ==
  ASSUME NEW i \in 0..NrSlots, NEW j \in 0..NrSlots
  PROVE  (j - i) % max = Dist(i, j) /\ Dist(i, j) \in 0..NrSlots
PROOF
  BY Wrap, RingBufferAssumption DEF max, Dist

\* The k-th index from i on.
LEMMA Index ==
  ASSUME NEW i \in 0..NrSlots, NEW k \in 1..(NrSlots + 1)
  PROVE  /\ (i + k - 1) % max = IF i + k <= max THEN i + k - 1 ELSE i + k - 1 - max
         /\ (i + k - 1) % max \in 0..NrSlots
PROOF
  BY Wrap, RingBufferAssumption DEF max

-----------------------------------------------------------------------------
(* The contents of the ring.                                               *)

\* A thread that works in the ring is the only one that does.
Alone(t) == \A u \in Workers \ {t} : op[u] \notin {"retry", "store", "load", "leave"}

LEMMA InsideAlone ==
  ASSUME RingInv, NEW t \in inside
  PROVE  Alone(t)
PROOF
  BY DEF RingInv, OpsInv, Alone

\* What Used and First are, without %.
LEMMA UsedIs ==
  ASSUME RingInv
  PROVE  /\ Used = Dist(front, rear) + (IF op[Counter] = "load" THEN 1 ELSE 0)
                                     - (IF Storing THEN 1 ELSE 0)
         /\ First = IF op[Counter] = "load" THEN front ELSE Succ(front)
         /\ Used \in 0..NrSlots /\ First \in 0..NrSlots
PROOF
  <1> USE DEF RingInv, RingTypeOK
  <1>1. (rear - front) % max = Dist(front, rear) /\ Dist(front, rear) \in 0..NrSlots
    BY Distance
  <1>2. (front + 1) % max = Succ(front) /\ Succ(front) \in 0..NrSlots
    BY NextIndex
  <1> QED
    BY <1>1, <1>2, RingBufferAssumption DEF Used, First, CellsInv

\* rear moves on: what is queued stays where it is.
LEMMA RearAdvanced ==
  ASSUME RingInv, NEW g \in inside, g # Counter, AdvanceRear(g)
  PROVE  /\ Used' = Used /\ First' = First /\ rear' \in 0..NrSlots
         /\ ((rear - front) % max)' > 0 /\ op[Counter] # "load" /\ op'[Counter] = op[Counter]
PROOF
  <1> USE DEF RingInv, RingTypeOK
  <1>1. Alone(g) /\ g \in Generators
    BY InsideAlone DEF Workers
  <1>2. op[Counter] # "load" /\ op'[Counter] = op[Counter]
    BY <1>1 DEF AdvanceRear, Alone, Workers
  <1>3. ~Storing /\ Storing'
    BY <1>1 DEF AdvanceRear, Storing, Alone, Workers
  <1>4. rear' = Succ(rear) /\ rear' \in 0..NrSlots /\ Succ(rear) # front /\ front' = front
    BY NextIndex DEF AdvanceRear, isFull
  <1>5. (rear' - front) % max = Dist(front, rear') /\ (rear - front) % max = Dist(front, rear)
    BY <1>4, Distance
  <1>6. Dist(front, rear') = Dist(front, rear) + 1
    BY <1>4, RingBufferAssumption DEF Succ, Dist, max
  <1>7. Dist(front, rear) \in 0..NrSlots
    BY Distance
  <1>8. Used' = Used
    BY <1>2, <1>3, <1>4, <1>5, <1>6, <1>7 DEF Used
  <1>9. First' = First
    BY <1>2, <1>4 DEF First
  <1> QED
    BY <1>2, <1>4, <1>5, <1>6, <1>7, <1>8, <1>9

\* The value goes behind the others.
LEMMA StoredLast ==
  ASSUME RingInv, NEW g \in Generators, g \in inside, Store(g)
  PROVE  /\ Used < NrSlots /\ Used' = Used + 1 /\ First' = First
         /\ Cell(Used + 1) = rear
         /\ \A i \in 1..Used : Cell(i) # rear
PROOF
  <1> USE DEF RingInv, RingTypeOK
  <1>1. Alone(g) /\ Counter \notin Generators
    BY InsideAlone, RingBufferAssumption
  <1>2. op[Counter] # "load" /\ op'[Counter] # "load"
    BY <1>1 DEF Store, Alone, Workers
  <1>3. Storing /\ ~Storing'
    BY <1>1 DEF Store, Storing, Alone, Workers
  <1>d. Dist(front, rear) \in 0..NrSlots
    BY Distance
  <1>4. Used = Dist(front, rear) - 1 /\ First = Succ(front) /\ Used \in 0..NrSlots
        /\ First \in 0..NrSlots
    BY <1>2, <1>3, <1>d, UsedIs
  <1>5. Used' = Dist(front, rear)
    BY <1>2, <1>3, <1>d, Distance DEF Used, Store
  <1>6. First' = First
    BY <1>2 DEF First, Store
  <1>7. Used + 1 \in 1..(NrSlots + 1)
    BY <1>4, RingBufferAssumption
  <1>8. \A i \in 1..(Used + 1) :
          Cell(i) = IF First + i <= max THEN First + i - 1 ELSE First + i - 1 - max
    <2>1. \A i \in 1..(Used + 1) : i \in 1..(NrSlots + 1)
      BY <1>4, RingBufferAssumption
    <2>2. First \in 0..NrSlots
      BY <1>4
    <2> HIDE DEF First, Used
    <2> QED
      BY <2>1, <2>2, Index DEF Cell
  <1>9. Cell(Used + 1) = rear
    <2>1. Used + 1 = Dist(front, rear)
      BY <1>4, <1>d
    <2>2. Cell(Used + 1) = IF First + Dist(front, rear) <= max
            THEN First + Dist(front, rear) - 1 ELSE First + Dist(front, rear) - 1 - max
      BY <1>7, <1>8, <2>1
    <2> QED
      BY <1>4, <1>d, <2>2, RingBufferAssumption DEF Succ, Dist, max
  <1>10. ASSUME NEW i \in 1..Used PROVE Cell(i) # rear
    <2>1. Cell(i) = IF First + i <= max THEN First + i - 1 ELSE First + i - 1 - max
      BY <1>4, <1>8
    <2>2. i < Dist(front, rear) /\ i > 0 /\ i \in Int
      BY <1>4, <1>d
    <2> QED
      BY <1>4, <1>d, <2>1, <2>2, RingBufferAssumption DEF Succ, Dist, max
  <1> QED
    BY <1>d, <1>4, <1>5, <1>6, <1>9, <1>10, RingBufferAssumption

\* front moves on: what is queued stays, the first value included.
LEMMA FrontAdvanced ==
  ASSUME RingInv, Counter \in inside, AdvanceFront
  PROVE  /\ Used' = Used /\ First' = First /\ front' \in 0..NrSlots
         /\ ((rear - front) % max)' < NrSlots /\ ~Storing /\ ~Storing'
PROOF
  <1> USE DEF RingInv, RingTypeOK
  <1>1. Alone(Counter) /\ Counter \notin Generators /\ Counter \in Workers
    BY InsideAlone, RingBufferAssumption DEF Workers
  <1>2. op[Counter] # "load" /\ op'[Counter] = "load"
    BY <1>1 DEF AdvanceFront
  <1>3. ~Storing /\ ~Storing'
    BY <1>1 DEF AdvanceFront, Storing, Alone, Workers
  <1>4. front' = Succ(front) /\ front' \in 0..NrSlots /\ front # rear /\ rear' = rear
    BY NextIndex DEF AdvanceFront, isEmpty
  <1>5. (rear - front') % max = Dist(front', rear) /\ (rear - front) % max = Dist(front, rear)
    BY <1>4, Distance
  <1>6. Dist(front', rear) = Dist(front, rear) - 1 /\ Dist(front, rear) \in 0..NrSlots
    BY <1>4, Distance, RingBufferAssumption DEF Succ, Dist, max
  <1>7. Used' = Used
    BY <1>2, <1>3, <1>4, <1>5, <1>6 DEF Used
  <1>8. First' = First
    BY <1>2, <1>4, NextIndex DEF First
  <1> QED
    BY <1>3, <1>4, <1>5, <1>6, <1>7, <1>8, RingBufferAssumption

\* The first value goes, the others follow.
LEMMA LoadedFirst ==
  ASSUME RingInv, Counter \in inside, Load
  PROVE  /\ Used > 0 /\ Used' = Used - 1 /\ Cell(1) = front
         /\ \A i \in 1..(Used - 1) : Cell(i)' = Cell(i + 1)
         /\ ~Storing /\ ~Storing'
PROOF
  <1> USE DEF RingInv, RingTypeOK
  <1>1. Alone(Counter) /\ Counter \notin Generators /\ Counter \in Workers
    BY InsideAlone, RingBufferAssumption DEF Workers
  <1>2. op[Counter] = "load" /\ op'[Counter] # "load" /\ UNCHANGED <<front, rear>>
    BY <1>1 DEF Load
  <1>3. ~Storing /\ ~Storing'
    BY <1>1 DEF Load, Storing, Alone, Workers
  <1>d. Dist(front, rear) \in 0..NrSlots
    BY Distance
  <1>4. Used = Dist(front, rear) + 1 /\ First = front /\ Used \in 0..NrSlots
    BY <1>2, <1>3, <1>d, UsedIs
  <1>5. Used' = Dist(front, rear)
    BY <1>2, <1>3, <1>d, Distance DEF Used
  <1>6. First' = Succ(front) /\ Succ(front) \in 0..NrSlots
    BY <1>2, NextIndex DEF First
  <1>7. Cell(1) = front
    BY <1>4, Wrap, RingBufferAssumption DEF Cell, max
  <1>8. ASSUME NEW i \in 1..(Used - 1) PROVE Cell(i)' = Cell(i + 1)
    <2>1. i \in 1..(NrSlots + 1) /\ i + 1 \in 1..(NrSlots + 1)
      BY <1>4, RingBufferAssumption
    <2>2. Cell(i)' = (Succ(front) + i - 1) % max /\ Cell(i + 1) = (front + (i + 1) - 1) % max
      BY <1>4, <1>6 DEF Cell, max
    <2>3. /\ Cell(i)' = IF Succ(front) + i <= max THEN Succ(front) + i - 1
                                                ELSE Succ(front) + i - 1 - max
          /\ Cell(i + 1) = IF front + (i + 1) <= max THEN front + (i + 1) - 1
                                                    ELSE front + (i + 1) - 1 - max
      BY <1>6, <2>1, <2>2, Index
    <2>4. i \in Int /\ 1 <= i /\ i < NrSlots
      BY <1>4, RingBufferAssumption
    <2> QED
      BY <2>3, <2>4, RingBufferAssumption DEF Succ, max
  <1> QED
    BY <1>3, <1>d, <1>4, <1>5, <1>7, <1>8

-----------------------------------------------------------------------------
(* The invariant is inductive.                                             *)

\* Nothing is queued at the start.
LEMMA RingInvInit == Init => RingInv
PROOF
  <1> SUFFICES ASSUME Init PROVE RingInv
    OBVIOUS
  <1> USE RingBufferAssumption DEF Init, RingInit
  <1>1. Cardinality(Generators) * NrGenerate \in Nat
    <2>1. Cardinality(Generators) \in Nat
      BY FS_CardinalityType
    <2> QED
      BY <2>1
  <1>2. RingTypeOK
    BY <1>1 DEF RingTypeOK, GeneratorOps, CounterOps, Workers
  <1>3. OpsInv /\ ValuesInv /\ JoinInv
    BY DEF OpsInv, ValuesInv, JoinInv, Workers, GeneratorOps, CounterOps
  <1>4. ~Storing /\ op[Counter] # "load"
    BY DEF Storing, Workers
  <1>5. Used = 0
    BY <1>4, Wrap DEF Used, max
  <1>6. CellsInv
    BY <1>4, <1>5 DEF CellsInv
  <1> QED
    BY <1>2, <1>3, <1>6 DEF RingInv

\* Every step is one of these.
Quiet ==
  \/ (\E g \in Generators : Generate(g) \/ Generated(g)) /\ UNCHANGED inside
  \/ (Count \/ Main) /\ UNCHANGED inside
  \/ \E t \in Workers : Enter(t) \/ Exit(t)
  \/ \E t \in inside : Refuse(t) /\ UNCHANGED inside

Busy ==
  /\ UNCHANGED inside
  /\ \/ \E g \in inside : g # Counter /\ (AdvanceRear(g) \/ Store(g))
     \/ Counter \in inside /\ (AdvanceFront \/ Load)

LEMMA Steps == Next => Quiet \/ Busy
PROOF
  BY DEF Next, Outside, Work, Inside, Quiet, Busy

\* Types, for every step.
LEMMA TypeStep ==
  ASSUME RingInv, Quiet \/ Busy
  PROVE  RingTypeOK'
PROOF
  <1> USE DEF RingInv, RingTypeOK
  <1>0. ASSUME NEW g \in Generators, Generate(g), UNCHANGED inside
        PROVE  RingTypeOK'
    BY <1>0 DEF Generate, GeneratorOps, CounterOps, Workers
  <1>1. ASSUME NEW g \in Generators, Generated(g), UNCHANGED inside
        PROVE  RingTypeOK'
    <2>1. left[g] \in Nat /\ left[g] > 0
      BY <1>1 DEF Generated, JoinInv, Workers
    <2>2. left[g] - 1 \in Nat
      BY <2>1
    <2>3. left' \in [Workers -> Nat]
      BY <1>1, <2>2 DEF Generated
    <2> QED
      BY <1>1, <2>3 DEF Generated, GeneratorOps, CounterOps
  <1>2. CASE Count /\ UNCHANGED inside
    BY <1>2 DEF Count, JoinInv, GeneratorOps, CounterOps, Workers
  <1>3. CASE Main /\ UNCHANGED inside
    BY <1>3 DEF Main
  <1>4. ASSUME NEW t \in Workers, Enter(t) PROVE RingTypeOK'
    BY <1>4 DEF Enter, ringVars
  <1>5. ASSUME NEW t \in Workers, Exit(t) PROVE RingTypeOK'
    BY <1>5 DEF Exit, Leave, GeneratorOps, CounterOps
  <1>6. ASSUME NEW t \in inside, Refuse(t), UNCHANGED inside PROVE RingTypeOK'
    BY <1>6 DEF Refuse, GeneratorOps, CounterOps
  <1>7. ASSUME NEW g \in inside, g # Counter, AdvanceRear(g), UNCHANGED inside
        PROVE  RingTypeOK'
    BY <1>7, RearAdvanced DEF AdvanceRear, GeneratorOps, CounterOps
  <1>8. ASSUME NEW g \in inside, Store(g), UNCHANGED inside PROVE RingTypeOK'
    BY <1>8 DEF Store, GeneratorOps, CounterOps
  <1>9. CASE Counter \in inside /\ AdvanceFront /\ UNCHANGED inside
    BY <1>9, FrontAdvanced DEF AdvanceFront, GeneratorOps, CounterOps
  <1>10. CASE Counter \in inside /\ Load /\ UNCHANGED inside
    BY <1>10 DEF Load, GeneratorOps, CounterOps
  <1> QED
    BY <1>0, <1>1, <1>2, <1>3, <1>4, <1>5, <1>6, <1>7, <1>8, <1>9, <1>10 DEF Quiet, Busy

\* The lock, the values in hand and main, for every step.
LEMMA ThreadsStep ==
  ASSUME RingInv, Quiet \/ Busy
  PROVE  OpsInv' /\ JoinInv'
PROOF
  <1> USE RingBufferAssumption
      DEF RingInv, RingTypeOK, OpsInv, JoinInv, GeneratorOps, CounterOps, InsideOps, Workers
  <1>0. ASSUME NEW g \in Generators, Generate(g), UNCHANGED inside
        PROVE  OpsInv' /\ JoinInv'
    BY <1>0 DEF Generate
  <1>1. ASSUME NEW g \in Generators, Generated(g), UNCHANGED inside
        PROVE  OpsInv' /\ JoinInv'
    <2>1. OpsInv'
      BY <1>1 DEF Generated
    <2>2. left[g] > 0 /\ op[g] = "count" /\ g \notin inside
      BY <1>1 DEF Generated
    <2>3. \A t \in Workers \ {g} : left'[t] = left[t] /\ op'[t] = op[t]
      BY <1>1 DEF Generated
    <2>4. op'[g] = "generate"
      BY <1>1 DEF Generated
    <2>5. main = "fini_generators"
      BY <2>2
    <2> QED
      BY <1>1, <2>1, <2>2, <2>3, <2>4, <2>5 DEF Generated
  <1>2. CASE Count /\ UNCHANGED inside
    <2>1. OpsInv'
      BY <1>2 DEF Count
    <2>2. left[Counter] > 0 /\ op[Counter] = "count" /\ Counter \notin inside
      BY <1>2 DEF Count
    <2>3. \A t \in Workers \ {Counter} : left'[t] = left[t] /\ op'[t] = op[t]
      BY <1>2 DEF Count
    <2>4. op'[Counter] = "enter"
      BY <1>2 DEF Count
    <2>5. main \notin {"fini_ringbuffer", "exit"}
      BY <2>2
    <2> QED
      BY <1>2, <2>1, <2>2, <2>3, <2>4, <2>5 DEF Count
  <1>3. CASE Main /\ UNCHANGED inside
    BY <1>3 DEF Main, Finished
  <1>4. ASSUME NEW t \in Workers, Enter(t) PROVE OpsInv' /\ JoinInv'
    BY <1>4 DEF Enter, ringVars, Wants
  <1>5. ASSUME NEW t \in Workers, Exit(t) PROVE OpsInv' /\ JoinInv'
    BY <1>5 DEF Exit, Leave
  <1>6. ASSUME NEW t \in inside, Refuse(t), UNCHANGED inside PROVE OpsInv' /\ JoinInv'
    BY <1>6 DEF Refuse
  <1>7. ASSUME NEW g \in inside, g # Counter, AdvanceRear(g) \/ Store(g), UNCHANGED inside
        PROVE  OpsInv' /\ JoinInv'
    BY <1>7 DEF AdvanceRear, Store
  <1>8. CASE Counter \in inside /\ (AdvanceFront \/ Load) /\ UNCHANGED inside
    BY <1>8 DEF AdvanceFront, Load
  <1> QED
    BY <1>0, <1>1, <1>2, <1>3, <1>4, <1>5, <1>6, <1>7, <1>8 DEF Quiet, Busy

\* Who is about to touch a cell.
SameTouch == \A t \in Workers : op'[t] = op[t] \/ {op'[t], op[t]} \cap {"store", "load"} = {}

\* What the quiet steps leave alone: the contents of the ring.
LEMMA QuietStep ==
  ASSUME RingInv, Quiet
  PROVE  /\ UNCHANGED <<ringbuffer, front, rear>>
         /\ Storing' <=> Storing
         /\ op'[Counter] = "load" <=> op[Counter] = "load"
         /\ Used' = Used /\ First' = First /\ \A i : Cell(i)' = Cell(i)
PROOF
  <1> USE RingBufferAssumption DEF RingInv, RingTypeOK, OpsInv, GeneratorOps, CounterOps
  <1>1. UNCHANGED <<ringbuffer, front, rear>> /\ SameTouch
    <2>1. ASSUME NEW g \in Generators, Generate(g) \/ Generated(g)
          PROVE  UNCHANGED <<ringbuffer, front, rear>> /\ SameTouch
      BY <2>1 DEF Generate, Generated, SameTouch, Workers
    <2>2. CASE Count \/ Main
      BY <2>2 DEF Count, Main, SameTouch
    <2>3. ASSUME NEW t \in Workers, Enter(t) \/ Exit(t)
          PROVE  UNCHANGED <<ringbuffer, front, rear>> /\ SameTouch
      BY <2>3 DEF Enter, Exit, Leave, ringVars, SameTouch
    <2>4. ASSUME NEW t \in inside, Refuse(t)
          PROVE  UNCHANGED <<ringbuffer, front, rear>> /\ SameTouch
      BY <2>4 DEF Refuse, SameTouch
    <2> QED
      BY <2>1, <2>2, <2>3, <2>4 DEF Quiet
  <1>2. \A t \in Workers : op'[t] \in {"store", "load"} \/ op[t] \in {"store", "load"}
                             => op'[t] = op[t]
    BY <1>1 DEF SameTouch
  <1>3. Storing' <=> Storing
    BY <1>2 DEF Storing, Workers
  <1>4. op'[Counter] = "load" <=> op[Counter] = "load"
    BY <1>2 DEF Workers
  <1>5. Used' = Used
    BY <1>1, <1>3, <1>4 DEF Used, max
  <1>6. First' = First
    BY <1>1, <1>4 DEF First, max
  <1> QED
    BY <1>1, <1>3, <1>4, <1>5, <1>6 DEF Cell, max

\* Store appends to the contents.
LEMMA ContentsStored ==
  ASSUME RingInv, NEW g \in Generators, g \in inside, Store(g)
  PROVE  /\ Used \in 0..(NrSlots - 1) /\ Used' = Used + 1
         /\ \A i \in 1..(Used + 1) : Queued(i)' = IF i = Used + 1 THEN val[g] ELSE Queued(i)
PROOF
  <1>1. Used < NrSlots /\ Used' = Used + 1 /\ First' = First /\ Used \in 0..NrSlots
    BY StoredLast, UsedIs
  <1>2. \A i : Cell(i)' = Cell(i)
    BY <1>1 DEF Cell, max
  <1>3. Cell(Used + 1) = rear /\ \A i \in 1..Used : Cell(i) # rear
    BY StoredLast
  <1>4. ringbuffer' = [ringbuffer EXCEPT ![rear] = val[g]]
    BY DEF Store
  <1>5. rear \in DOMAIN ringbuffer
    BY DEF RingInv, RingTypeOK
  <1>6. \A i \in 1..Used : Queued(i)' = Queued(i)
    BY <1>2, <1>3, <1>4 DEF Queued
  <1>7. \A i : i = Used + 1 => Queued(i)' = val[g]
    BY <1>1, <1>2, <1>3, <1>4, <1>5 DEF Queued
  <1> HIDE DEF Used, Queued
  <1> QED
    BY <1>1, <1>6, <1>7, RingBufferAssumption

\* Load takes the first of the contents.
LEMMA ContentsLoaded ==
  ASSUME RingInv, Counter \in inside, Load
  PROVE  /\ Used \in 1..NrSlots /\ Used' = Used - 1
         /\ \A i \in 1..(Used - 1) : Queued(i)' = Queued(i + 1)
         /\ val' = [val EXCEPT ![Counter] = Queued(1)] /\ Queued(1) \in Values
PROOF
  <1>1. Used > 0 /\ Used' = Used - 1 /\ Cell(1) = front /\ Used \in 0..NrSlots
    BY LoadedFirst, UsedIs
  <1>2. \A i \in 1..(Used - 1) : Cell(i)' = Cell(i + 1)
    BY LoadedFirst
  <1>3. ringbuffer' = ringbuffer /\ val' = [val EXCEPT ![Counter] = ringbuffer[front]]
    BY DEF Load
  <1>4. \A i \in 1..Used : Queued(i) \in Values
    BY DEF RingInv, CellsInv
  <1> HIDE DEF Used
  <1>5. Queued(1) = ringbuffer[front] /\ Queued(1) \in Values
    BY <1>1, <1>4, RingBufferAssumption DEF Queued
  <1>6. \A i \in 1..(Used - 1) : Queued(i)' = Queued(i + 1)
    BY <1>2, <1>3 DEF Queued
  <1>7. Used \in 1..NrSlots
    BY <1>1, RingBufferAssumption
  <1> QED
    BY <1>1, <1>3, <1>5, <1>6, <1>7

\* Every other step keeps them.
Moving == Quiet \/ (\E g \in inside : g # Counter /\ AdvanceRear(g))
                \/ (Counter \in inside /\ AdvanceFront)

LEMMA ContentsKept ==
  ASSUME RingInv, Moving
  PROVE  Used' = Used /\ \A i : Queued(i)' = Queued(i)
PROOF
  <1>1. CASE Quiet
    BY <1>1, QuietStep DEF Queued
  <1>2. ASSUME NEW g \in inside, g # Counter, AdvanceRear(g)
        PROVE  Used' = Used /\ \A i : Queued(i)' = Queued(i)
    <2>1. Used' = Used /\ First' = First
      BY <1>2, RearAdvanced
    <2> HIDE DEF Used, First
    <2> QED
      BY <1>2, <2>1 DEF AdvanceRear, Queued, Cell, max
  <1>3. CASE Counter \in inside /\ AdvanceFront
    <2>1. Used' = Used /\ First' = First
      BY <1>3, FrontAdvanced
    <2> HIDE DEF Used, First
    <2> QED
      BY <1>3, <2>1 DEF AdvanceFront, Queued, Cell, max
  <1> QED
    BY <1>1, <1>2, <1>3 DEF Moving

\* The values in hand, for every step.
LEMMA ValuesStep ==
  ASSUME RingInv, Quiet \/ Busy
  PROVE  ValuesInv'
PROOF
  <1> USE RingBufferAssumption DEF RingInv, RingTypeOK, OpsInv, ValuesInv, Workers
  <1>1. ASSUME NEW g \in Generators, Generate(g) PROVE ValuesInv'
    BY <1>1 DEF Generate
  <1>2. ASSUME NEW g \in Generators, Generated(g) PROVE ValuesInv'
    BY <1>2 DEF Generated
  <1>3. CASE Count
    BY <1>3 DEF Count
  <1>4. CASE Main
    BY <1>4 DEF Main
  <1>5. ASSUME NEW t \in Workers, Enter(t) PROVE ValuesInv'
    BY <1>5 DEF Enter, ringVars
  <1>6. ASSUME NEW t \in Workers, Exit(t) PROVE ValuesInv'
    BY <1>6 DEF Exit, Leave
  <1>7. ASSUME NEW t \in inside, Refuse(t) PROVE ValuesInv'
    BY <1>7 DEF Refuse
  <1>8. ASSUME NEW g \in inside, g # Counter, AdvanceRear(g) \/ Store(g) PROVE ValuesInv'
    BY <1>8 DEF AdvanceRear, Store
  <1>9. CASE Counter \in inside /\ AdvanceFront
    BY <1>9 DEF AdvanceFront
  <1>10. CASE Counter \in inside /\ Load
    <2>1. val' = [val EXCEPT ![Counter] = Queued(1)] /\ Queued(1) \in Values
      BY <1>10, ContentsLoaded
    <2> QED
      BY <1>10, <2>1 DEF Load
  <1> QED
    BY <1>1, <1>2, <1>3, <1>4, <1>5, <1>6, <1>7, <1>8, <1>9, <1>10 DEF Quiet, Busy

\* The contents of the ring, for every step.
LEMMA CellsStep ==
  ASSUME RingInv, Quiet \/ Busy
  PROVE  CellsInv'
PROOF
  <1>0. CellsInv <=> /\ Storing => (rear - front) % max > 0
                     /\ op[Counter] = "load" => (rear - front) % max < NrSlots
                     /\ \A i \in 1..Used : Queued(i) \in Values
    BY DEF CellsInv
  <1>1. CellsInv' <=> /\ Storing' => ((rear - front) % max)' > 0
                      /\ op'[Counter] = "load" => ((rear - front) % max)' < NrSlots
                      /\ \A i \in 1..Used' : Queued(i)' \in Values
    BY DEF CellsInv
  <1>2. CellsInv
    BY DEF RingInv
  <1>3. Used \in 0..NrSlots
    BY UsedIs
  <1>4. CASE Quiet
    <2>1. /\ UNCHANGED <<front, rear>>
          /\ Storing' <=> Storing
          /\ op'[Counter] = "load" <=> op[Counter] = "load"
      BY <1>4, QuietStep
    <2>2. Used' = Used /\ \A i : Queued(i)' = Queued(i)
      BY <1>4, ContentsKept DEF Moving
    <2>3. ((rear - front) % max)' = (rear - front) % max
      BY <2>1 DEF max
    <2> HIDE DEF CellsInv, Used, Storing, Queued
    <2> QED
      BY <1>0, <1>1, <1>2, <2>1, <2>2, <2>3
  <1>5. ASSUME NEW g \in inside, g # Counter, AdvanceRear(g) PROVE CellsInv'
    <2>1. ((rear - front) % max)' > 0 /\ op'[Counter] # "load"
      BY <1>5, RearAdvanced
    <2>2. Used' = Used /\ \A i : Queued(i)' = Queued(i)
      BY <1>5, ContentsKept DEF Moving
    <2> HIDE DEF CellsInv, Used, Storing, Queued
    <2> QED
      BY <1>0, <1>1, <1>2, <2>1, <2>2
  <1>6. ASSUME NEW g \in Generators, g \in inside, Store(g) PROVE CellsInv'
    <2>1. Alone(g)
      BY <1>6, InsideAlone
    <2>2. ~Storing' /\ op'[Counter] # "load"
      BY <1>6, <2>1, RingBufferAssumption
      DEF Store, Storing, Alone, Workers, RingInv, RingTypeOK
    <2>3. /\ Used' = Used + 1
          /\ \A i \in 1..(Used + 1) :
               Queued(i)' = IF i = Used + 1 THEN val[g] ELSE Queued(i)
      BY <1>6, ContentsStored
    <2>4. val[g] \in Values
      BY <1>6 DEF RingInv, ValuesInv, Store
    <2> HIDE DEF CellsInv, Used, Storing, Queued
    <2> QED
      BY <1>0, <1>1, <1>2, <1>3, <2>2, <2>3, <2>4
  <1>7. CASE Counter \in inside /\ AdvanceFront
    <2>1. ((rear - front) % max)' < NrSlots /\ ~Storing'
      BY <1>7, FrontAdvanced
    <2>2. Used' = Used /\ \A i : Queued(i)' = Queued(i)
      BY <1>7, ContentsKept DEF Moving
    <2> HIDE DEF CellsInv, Used, Storing, Queued
    <2> QED
      BY <1>0, <1>1, <1>2, <2>1, <2>2
  <1>8. CASE Counter \in inside /\ Load
    <2>1. ~Storing'
      BY <1>8, LoadedFirst
    <2>2. op'[Counter] # "load"
      BY <1>8 DEF Load, RingInv, RingTypeOK, Workers
    <2>3. Used' = Used - 1 /\ \A i \in 1..(Used - 1) : Queued(i)' = Queued(i + 1)
      BY <1>8, ContentsLoaded
    <2> HIDE DEF CellsInv, Used, Storing, Queued
    <2> QED
      BY <1>0, <1>1, <1>2, <1>3, <2>1, <2>2, <2>3
  <1>9. inside \subseteq Generators \cup {Counter}
    BY DEF RingInv, RingTypeOK, Workers
  <1> QED
    BY <1>4, <1>5, <1>6, <1>7, <1>8, <1>9 DEF Busy

LEMMA RingInvNext == RingInv /\ [Next]_vars => RingInv'
PROOF
  <1> SUFFICES ASSUME RingInv, [Next]_vars PROVE RingInv'
    OBVIOUS
  <1>1. CASE Next
    <2>1. Quiet \/ Busy
      BY <1>1, Steps
    <2> QED
      BY <2>1, TypeStep, ThreadsStep, ValuesStep, CellsStep DEF RingInv
  <1>2. CASE UNCHANGED vars
    BY <1>2 DEF vars, ringVars, RingInv, RingTypeOK, OpsInv, ValuesInv, JoinInv, CellsInv,
                Used, First, Queued, Cell, Storing, max
  <1> QED
    BY <1>1, <1>2

\* However many generators, values and slots: the invariant holds.
THEOREM RingInvariance == Spec => []RingInv
PROOF
  <1> QED
    BY RingInvInit, RingInvNext, PTL DEF Spec

-----------------------------------------------------------------------------
(* What it gives.                                                          *)

\* The counter never fetches what nobody stored: the assertion of
\* dequeue_ringbuffer holds.  (ringbuffer.c 47)
THEOREM FetchedWasStored == Spec => []NoGarbageFetched
PROOF
  <1>1. RingInv => NoGarbageFetched
    BY DEF RingInv, ValuesInv, NoGarbageFetched
  <1> QED
    BY <1>1, RingInvariance, PTL

\* When main has freed the ring no thread is in it or on its way to it.
THEOREM FreedAfterLastUse == Spec => []FreedUnused
PROOF
  <1>1. RingInv => FreedUnused
    BY DEF RingInv, RingTypeOK, JoinInv, FreedUnused, Wants, Workers
  <1> QED
    BY <1>1, RingInvariance, PTL

-----------------------------------------------------------------------------
(* The ring is a queue.                                                    *)

\* Appending and taking the head, of sequences given cell by cell.
LEMMA Appended ==
  ASSUME NEW S, NEW n \in Nat, NEW f \in [1..n -> S], NEW h \in [1..(n + 1) -> S],
         \A i \in 1..n : h[i] = f[i]
  PROVE  Len(f) = n /\ h = Append(f, h[n + 1])
PROOF
  <1>1. f \in Seq(S) /\ h \in Seq(S)
    BY SeqDef
  <1>2. Len(f) = n /\ Len(h) = n + 1 /\ h[n + 1] \in S
    BY <1>1, LenProperties
  <1>3. /\ Append(f, h[n + 1]) \in Seq(S) /\ Len(Append(f, h[n + 1])) = n + 1
        /\ \A i \in 1..(n + 1) : Append(f, h[n + 1])[i] = IF i <= n THEN f[i] ELSE h[n + 1]
    BY <1>1, <1>2, AppendProperties
  <1>4. \A i \in 1..Len(h) : h[i] = Append(f, h[n + 1])[i]
    BY <1>2, <1>3
  <1> QED
    BY <1>1, <1>2, <1>3, <1>4, SeqEqual

LEMMA Shortened ==
  ASSUME NEW f \in Seq(Values), NEW h \in Seq(Values), Len(f) = Len(h) + 1,
         \A i \in 1..Len(h) : h[i] = f[i + 1]
  PROVE  f # <<>> /\ Head(f) = f[1] /\ Tail(f) = h
PROOF
  <1>1. f # <<>>
    BY LenProperties, EmptySeq
  <1>2. /\ Tail(f) \in Seq(Values) /\ Len(Tail(f)) = Len(f) - 1
        /\ \A i \in 1..Len(Tail(f)) : Tail(f)[i] = f[i + 1]
    BY <1>1, HeadTailProperties
  <1>3. Len(Tail(f)) = Len(h)
    BY <1>2, LenProperties
  <1>4. Tail(f) = h
    BY <1>2, <1>3, SeqEqual
  <1>5. Head(f) = f[1]
    BY <1>1
  <1> QED
    BY <1>1, <1>4, <1>5

\* A step of the queue, or none.
QueueStep ==
  \/ \E g \in Generators : Fifo!Offer(g) \/ Fifo!Put(g)
  \/ Fifo!Fetch \/ Fifo!Count
  \/ UNCHANGED <<Offered, Contents, Fetched>>

LEMMA QueueStepIsFifo == QueueStep => [Fifo!Next]_<<Offered, Contents, Fetched>>
PROOF
  BY DEF QueueStep, Fifo!Next

LEMMA ContentsType == RingInv => Contents \in [1..Used -> Values]
PROOF
  BY DEF RingInv, CellsInv, Contents

\* Generate offers, Store puts, Load fetches, Count counts; no other step shows.
LEMMA StepOffer ==
  ASSUME RingInv, NEW g \in Generators, Generate(g), UNCHANGED inside
  PROVE  QueueStep
PROOF
  <1> USE DEF RingInv, RingTypeOK, Workers
  <1>1. Used' = Used /\ \A i : Queued(i)' = Queued(i)
    BY ContentsKept DEF Moving, Quiet
  <1>2. Contents' = Contents
    BY <1>1 DEF Contents
  <1>3. Fetched' = Fetched
    BY RingBufferAssumption DEF Generate, Fetched
  <1>4. PICK v \in Values : val' = [val EXCEPT ![g] = v]
    BY DEF Generate
  <1>5. Offered[g] = Garbage /\ Offered' = [Offered EXCEPT ![g] = v]
    BY <1>4 DEF Generate, Offered, Enqueuing
  <1> QED
    BY <1>2, <1>3, <1>5
    DEF QueueStep, Fifo!Offer

LEMMA StepPut ==
  ASSUME RingInv, NEW g \in Generators, g \in inside, Store(g)
  PROVE  QueueStep
PROOF
  <1> USE DEF RingInv, RingTypeOK, Workers
  <1>1. /\ Used \in 0..(NrSlots - 1) /\ Used' = Used + 1
        /\ \A i \in 1..(Used + 1) : Queued(i)' = IF i = Used + 1 THEN val[g] ELSE Queued(i)
    BY ContentsStored
  <1>2. val[g] \in Values /\ op[g] = "store"
    BY DEF Store, ValuesInv
  <1>3. Contents \in [1..Used -> Values]
    BY ContentsType
  <1>4. Used \in Nat /\ Used < NrSlots
    BY <1>1, RingBufferAssumption
  <1>5. Contents' \in [1..(Used + 1) -> Values] /\ Contents'[Used + 1] = val[g]
        /\ \A i \in 1..Used : Contents'[i] = Contents[i]
    <2>1. Contents' = [i \in 1..(Used + 1) |-> Queued(i)']
      BY <1>1 DEF Contents
    <2>2. \A i \in 1..Used : Contents[i] = Queued(i)
      BY DEF Contents
    <2> HIDE DEF Used, Contents, Queued
    <2> QED
      BY <1>1, <1>2, <1>3, <1>4, <2>1, <2>2
  <1>6. Len(Contents) < NrSlots /\ Contents' = Append(Contents, val[g])
    <2> HIDE DEF Used, Contents
    <2> QED
      BY <1>3, <1>4, <1>5, Appended
  <1>7. Offered[g] = val[g] /\ Offered' = [Offered EXCEPT ![g] = Garbage]
    BY <1>2 DEF Store, Offered, Enqueuing
  <1>8. Fetched' = Fetched /\ val[g] # Garbage
    BY <1>2, RingBufferAssumption DEF Store, Fetched
  <1> QED
    BY <1>6, <1>7, <1>8
    DEF QueueStep, Fifo!Put

LEMMA StepFetch ==
  ASSUME RingInv, Counter \in inside, Load
  PROVE  QueueStep
PROOF
  <1> USE DEF RingInv, RingTypeOK, Workers
  <1>1. /\ Used \in 1..NrSlots /\ Used' = Used - 1
        /\ \A i \in 1..(Used - 1) : Queued(i)' = Queued(i + 1)
        /\ val' = [val EXCEPT ![Counter] = Queued(1)] /\ Queued(1) \in Values
    BY ContentsLoaded
  <1>2. Contents \in [1..Used -> Values] /\ Used \in Nat \ {0}
    BY <1>1, ContentsType, RingBufferAssumption
  <1>3. /\ Contents' \in [1..(Used - 1) -> Values] /\ Contents[1] = Queued(1)
        /\ \A i \in 1..(Used - 1) : Contents'[i] = Contents[i + 1]
    <2>1. Contents' = [i \in 1..(Used - 1) |-> Queued(i)']
      BY <1>1 DEF Contents
    <2>2. \A i \in 1..Used : Contents[i] = Queued(i)
      BY DEF Contents
    <2> HIDE DEF Used, Contents, Queued
    <2> QED
      BY <1>1, <1>2, <2>1, <2>2
  <1>4. Contents # <<>> /\ Head(Contents) = Queued(1) /\ Tail(Contents) = Contents'
    <2>1. Contents \in Seq(Values) /\ Contents' \in Seq(Values)
      <3> HIDE DEF Used, Contents
      <3> QED
        BY <1>2, <1>3, SeqDef
    <2>2. Len(Contents) = Used /\ Len(Contents') = Used - 1
      <3> HIDE DEF Used, Contents
      <3> QED
        BY <1>2, <1>3, <2>1, LenProperties
    <2> HIDE DEF Used, Contents
    <2>3. \A i \in 1..Len(Contents') : Contents'[i] = Contents[i + 1]
      BY <1>3, <2>2
    <2>4. Len(Contents) = Len(Contents') + 1
      BY <1>2, <2>2
    <2> QED
      BY <1>3, <2>1, <2>3, <2>4, Shortened
  <1>5. Fetched = Garbage /\ Fetched' = Queued(1)
    BY <1>1, RingBufferAssumption DEF Load, Fetched, ValuesInv
  <1>6. Offered' = Offered
    BY RingBufferAssumption DEF Load, Offered, Enqueuing
  <1> QED
    BY <1>4, <1>5, <1>6
    DEF QueueStep, Fifo!Fetch

LEMMA StepCount ==
  ASSUME RingInv, Count, UNCHANGED inside
  PROVE  QueueStep
PROOF
  <1> USE DEF RingInv, RingTypeOK, Workers
  <1>1. Used' = Used /\ \A i : Queued(i)' = Queued(i)
    BY ContentsKept DEF Moving, Quiet
  <1>2. Contents' = Contents
    BY <1>1 DEF Contents
  <1>3. Fetched # Garbage /\ Fetched' = Garbage
    BY RingBufferAssumption DEF Count, Fetched
  <1>4. Offered' = Offered
    BY RingBufferAssumption DEF Count, Offered, Enqueuing
  <1> QED
    BY <1>2, <1>3, <1>4
    DEF QueueStep, Fifo!Count

\* The steps that do not show.
Internal ==
  \/ (\E g \in Generators : Generated(g)) \/ Main
  \/ \E t \in Workers : Enter(t) \/ Exit(t)
  \/ \E t \in inside : Refuse(t)
  \/ \E g \in inside : g # Counter /\ AdvanceRear(g)
  \/ Counter \in inside /\ AdvanceFront

LEMMA StepInternal ==
  ASSUME RingInv, Internal, Moving
  PROVE  QueueStep
PROOF
  <1> USE DEF RingInv, RingTypeOK, OpsInv, GeneratorOps, CounterOps, Workers
  <1>1. Used' = Used /\ \A i : Queued(i)' = Queued(i)
    BY ContentsKept
  <1>2. Contents' = Contents
    BY <1>1 DEF Contents
  <1>3. Offered' = Offered /\ Fetched' = Fetched
    <2> USE RingBufferAssumption DEF Offered, Fetched, Enqueuing
    <2>1. ASSUME NEW g \in Generators, Generated(g)
          PROVE  Offered' = Offered /\ Fetched' = Fetched
      BY <2>1 DEF Generated
    <2>2. CASE Main
      BY <2>2 DEF Main
    <2>3. ASSUME NEW t \in Workers, Enter(t) \/ Exit(t)
          PROVE  Offered' = Offered /\ Fetched' = Fetched
      BY <2>3 DEF Enter, Exit, Leave, ringVars
    <2>4. ASSUME NEW t \in inside, Refuse(t)
          PROVE  Offered' = Offered /\ Fetched' = Fetched
      BY <2>4 DEF Refuse
    <2>5. ASSUME NEW g \in inside, g # Counter, AdvanceRear(g)
          PROVE  Offered' = Offered /\ Fetched' = Fetched
      BY <2>5 DEF AdvanceRear
    <2>6. CASE Counter \in inside /\ AdvanceFront
      BY <2>6 DEF AdvanceFront
    <2> QED
      BY <2>1, <2>2, <2>3, <2>4, <2>5, <2>6 DEF Internal
  <1> QED
    BY <1>2, <1>3 DEF QueueStep

\* Every step is one of the four or internal.
LEMMA ShownSteps ==
  ASSUME RingInv, Next
  PROVE  \/ \E g \in Generators : Generate(g) /\ UNCHANGED inside
         \/ \E g \in Generators : g \in inside /\ Store(g)
         \/ Counter \in inside /\ Load
         \/ Count /\ UNCHANGED inside
         \/ Internal /\ Moving
PROOF
  <1>1. Quiet \/ Busy
    BY Steps
  <1>2. inside \subseteq Generators \cup {Counter}
    BY DEF RingInv, RingTypeOK, Workers
  <1> QED
    BY <1>1, <1>2 DEF Quiet, Busy, Internal, Moving

LEMMA QueueNext == RingInv /\ [Next]_vars => QueueStep
PROOF
  <1> SUFFICES ASSUME RingInv, [Next]_vars PROVE QueueStep
    OBVIOUS
  <1>1. CASE Next
    <2> QED
      BY <1>1, ShownSteps, StepOffer, StepPut, StepFetch, StepCount, StepInternal
  <1>2. CASE UNCHANGED vars
    BY <1>2 DEF vars, ringVars, QueueStep, Offered, Contents, Fetched, Enqueuing, Queued, Cell,
                Used, First, Storing, max
  <1> QED
    BY <1>1, <1>2

\* Across every wrap-around of front and rear, with any number of generators,
\* the values come out of the ring once each and in the order they went in, and
\* never more than NrSlots of them are in it.
THEOREM RingIsAQueue == Spec => ImplementsFifo
PROOF
  <1>1. Init => Fifo!Init
    <2> SUFFICES ASSUME Init PROVE Fifo!Init
      OBVIOUS
    <2>1. ~Storing /\ op[Counter] # "load"
      BY RingBufferAssumption DEF Init, RingInit, Storing, Workers
    <2>2. Used = 0
      BY <2>1, Wrap DEF Used, Init, RingInit, max
    <2>3. Contents = <<>>
      <3> HIDE DEF Used
      <3> QED
        BY <2>2 DEF Contents
    <2>4. Fetched = Garbage /\ Offered = [g \in Generators |-> Garbage]
      BY RingBufferAssumption DEF Init, RingInit, Fetched, Offered, Enqueuing, Workers
    <2> QED
      BY <2>3, <2>4 DEF Fifo!Init, Contents, Offered, Fetched, Queued, Cell
  <1>2. RingInv /\ [Next]_vars => [Fifo!Next]_<<Offered, Contents, Fetched>>
    BY QueueNext, QueueStepIsFifo
  <1> QED
    BY <1>1, <1>2, RingInvariance, PTL DEF Spec, ImplementsFifo, Fifo!Spec

-----------------------------------------------------------------------------
(* No value is lost and none is counted twice.                             *)

\* The numbers in Conservation are numbers.
LEMMA Countable ==
  ASSUME RingInv, NEW v \in Values
  PROVE  /\ IsFiniteSet(InHand(v)) /\ Cardinality(InHand(v)) \in Nat
         /\ IsFiniteSet(InRing(v)) /\ Cardinality(InRing(v)) \in Nat
PROOF
  <1>1. InHand(v) \subseteq Generators
    BY DEF InHand, Enqueuing
  <1>2. IsFiniteSet(InHand(v))
    BY <1>1, FS_Subset, RingBufferAssumption
  <1>3. IsFiniteSet(1..Used)
    <2>1. Used \in Int
      BY UsedIs, RingBufferAssumption
    <2> HIDE DEF Used
    <2> QED
      BY <2>1, FS_Interval
  <1>4. InRing(v) \subseteq 1..Used
    BY DEF InRing
  <1>5. IsFiniteSet(InRing(v))
    BY <1>3, <1>4, FS_Subset
  <1> QED
    BY <1>2, <1>5, FS_CardinalityType

\* A set of indices that moves down by one loses its 1.
LEMMA MovedDown ==
  ASSUME NEW n \in Nat \ {0}, NEW A \in SUBSET (1..n), NEW B,
         B = {i \in 1..(n - 1) : i + 1 \in A}
  PROVE  Cardinality(B) = IF 1 \in A THEN Cardinality(A) - 1 ELSE Cardinality(A)
PROOF
  <1>1. IsFiniteSet(A)
    <2>1. IsFiniteSet(1..n)
      BY FS_Interval
    <2> QED
      BY <2>1, FS_Subset
  <1>2. IsFiniteSet(B)
    <2>1. B \in SUBSET (1..(n - 1)) /\ IsFiniteSet(1..(n - 1))
      BY FS_Interval
    <2> QED
      BY <2>1, FS_Subset
  <1> DEFINE up == [i \in B |-> i + 1]
  <1>3. up \in Bijection(B, A \ {1})
    <2>1. up \in [B -> A \ {1}]
      OBVIOUS
    <2>2. \A i, j \in B : up[i] = up[j] => i = j
      OBVIOUS
    <2>3. ASSUME NEW a \in A \ {1} PROVE \E i \in B : up[i] = a
      <3>1. a - 1 \in B /\ up[a - 1] = a
        OBVIOUS
      <3> QED
        BY <3>1
    <2> HIDE DEF up
    <2> QED
      BY <2>1, <2>2, <2>3, Fun_IsBij
  <1>4. ExistsBijection(B, A \ {1})
    BY <1>3, Fun_ExistsBij
  <1>5. Cardinality(A \ {1}) = Cardinality(B)
    BY <1>2, <1>4, FS_Bijection
  <1> QED
    BY <1>1, <1>5, FS_RemoveElement

\* Generate puts a value into one more hand.
LEMMA HandOffered ==
  ASSUME RingInv, NEW g \in Generators, NEW w \in Values, NEW v \in Values,
         op[g] = "generate", op' = [op EXCEPT ![g] = "enter"], val' = [val EXCEPT ![g] = w]
  PROVE  Cardinality(InHand(v)') = Cardinality(InHand(v)) + (IF v = w THEN 1 ELSE 0)
PROOF
  <1> USE DEF RingInv, RingTypeOK, Workers
  <1>1. g \notin InHand(v)
    BY DEF InHand, Enqueuing
  <1>2. InHand(v)' = IF v = w THEN InHand(v) \cup {g} ELSE InHand(v)
    BY <1>1 DEF InHand, Enqueuing
  <1>3. Cardinality(InHand(v) \cup {g}) = Cardinality(InHand(v)) + 1
    BY <1>1, Countable, FS_AddElement
  <1> QED
    BY <1>2, <1>3, Countable

\* Store takes it out of the hand and adds it to the ring.
LEMMA HandStored ==
  ASSUME RingInv, NEW g \in Generators, g \in inside, Store(g), NEW v \in Values
  PROVE  /\ Cardinality(InHand(v)') = Cardinality(InHand(v)) - (IF v = val[g] THEN 1 ELSE 0)
         /\ Cardinality(InRing(v)') = Cardinality(InRing(v)) + (IF v = val[g] THEN 1 ELSE 0)
PROOF
  <1> USE DEF RingInv, RingTypeOK, Workers
  <1>1. v = val[g] <=> g \in InHand(v)
    BY DEF Store, InHand, Enqueuing
  <1>2. InHand(v)' = InHand(v) \ {g}
    BY DEF Store, InHand, Enqueuing
  <1>3. Cardinality(InHand(v)') = Cardinality(InHand(v)) - (IF v = val[g] THEN 1 ELSE 0)
    <2>1. Cardinality(InHand(v) \ {g})
            = IF g \in InHand(v) THEN Cardinality(InHand(v)) - 1 ELSE Cardinality(InHand(v))
      BY Countable, FS_RemoveElement
    <2> QED
      BY <1>1, <1>2, <2>1, Countable
  <1>4. /\ Used \in 0..(NrSlots - 1) /\ Used' = Used + 1
        /\ \A i \in 1..(Used + 1) : Queued(i)' = IF i = Used + 1 THEN val[g] ELSE Queued(i)
    BY ContentsStored
  <1>5. InRing(v)' = {i \in 1..(Used + 1) : Queued(i)' = v}
    BY <1>4 DEF InRing
  <1> DEFINE n == Used + 1
  <1>6. n \notin InRing(v) /\ InRing(v)' = IF v = val[g] THEN InRing(v) \cup {n} ELSE InRing(v)
    <2> HIDE DEF Used, Queued
    <2> QED
      BY <1>4, <1>5, RingBufferAssumption DEF InRing
  <1>7. Cardinality(InRing(v) \cup {n}) = Cardinality(InRing(v)) + 1
    BY <1>6, Countable, FS_AddElement
  <1> HIDE DEF n
  <1> QED
    BY <1>3, <1>6, <1>7, Countable

\* Load takes it out of the ring.
LEMMA RingLoaded ==
  ASSUME RingInv, Counter \in inside, Load, NEW v \in Values
  PROVE  Cardinality(InRing(v)') = Cardinality(InRing(v)) - (IF v = Queued(1) THEN 1 ELSE 0)
PROOF
  <1>1. /\ Used \in 1..NrSlots /\ Used' = Used - 1
        /\ \A i \in 1..(Used - 1) : Queued(i)' = Queued(i + 1)
    BY ContentsLoaded
  <1>2. InRing(v)' = {i \in 1..(Used - 1) : Queued(i)' = v}
    BY <1>1 DEF InRing
  <1> HIDE DEF Used, Queued
  <1>3. Used \in Nat \ {0}
    BY <1>1, RingBufferAssumption
  <1>4. InRing(v)' = {i \in 1..(Used - 1) : i + 1 \in InRing(v)}
    BY <1>1, <1>2, <1>3 DEF InRing
  <1>5. InRing(v) \in SUBSET (1..Used) /\ (1 \in InRing(v) <=> v = Queued(1))
    BY <1>3 DEF InRing
  <1>6. Cardinality(InRing(v)') = IF 1 \in InRing(v) THEN Cardinality(InRing(v)) - 1
                                                  ELSE Cardinality(InRing(v))
    BY <1>3, <1>4, <1>5, MovedDown
  <1> QED
    BY <1>5, <1>6, Countable

\* A step that keeps hands, ring and counts.
LEMMA NothingMoved ==
  ASSUME RingInv, Used' = Used, \A i : Queued(i)' = Queued(i), NEW v
  PROVE  InRing(v)' = InRing(v)
PROOF
  BY DEF InRing

LEMMA InternalKeeps ==
  ASSUME RingInv, Internal, NEW v \in Values
  PROVE  InHand(v)' = InHand(v) /\ UNCHANGED <<Fetched, generated, occurrances>>
PROOF
  <1> USE RingBufferAssumption
      DEF RingInv, RingTypeOK, OpsInv, GeneratorOps, CounterOps, Workers, InHand, Enqueuing, Fetched
  <1>1. ASSUME NEW g \in Generators, Generated(g)
        PROVE  InHand(v)' = InHand(v) /\ UNCHANGED <<Fetched, generated, occurrances>>
    BY <1>1 DEF Generated
  <1>2. CASE Main
    BY <1>2 DEF Main
  <1>3. ASSUME NEW t \in Workers, Enter(t) \/ Exit(t)
        PROVE  InHand(v)' = InHand(v) /\ UNCHANGED <<Fetched, generated, occurrances>>
    BY <1>3 DEF Enter, Exit, Leave, ringVars
  <1>4. ASSUME NEW t \in inside, Refuse(t)
        PROVE  InHand(v)' = InHand(v) /\ UNCHANGED <<Fetched, generated, occurrances>>
    BY <1>4 DEF Refuse
  <1>5. ASSUME NEW g \in inside, g # Counter, AdvanceRear(g)
        PROVE  InHand(v)' = InHand(v) /\ UNCHANGED <<Fetched, generated, occurrances>>
    BY <1>5 DEF AdvanceRear
  <1>6. CASE Counter \in inside /\ AdvanceFront
    BY <1>6 DEF AdvanceFront
  <1> QED
    BY <1>1, <1>2, <1>3, <1>4, <1>5, <1>6 DEF Internal

LEMMA ConservationInit == Init => Conservation
PROOF
  <1> SUFFICES ASSUME Init, NEW v \in Values
      PROVE  generated[v] = occurrances[v] + InFlight(v)
    BY DEF Conservation
  <1>1. op[Counter] = "enter" /\ \A g \in Generators : op[g] = "generate"
    BY RingBufferAssumption DEF Init, RingInit, Workers
  <1>2. InHand(v) = {}
    BY <1>1 DEF InHand, Enqueuing
  <1>3. Used = 0
    BY <1>1, Wrap DEF Used, Storing, Init, RingInit, max
  <1>4. InRing(v) = {}
    <2> HIDE DEF Used
    <2> QED
      BY <1>3 DEF InRing
  <1>5. Fetched # v
    BY RingBufferAssumption DEF Init, RingInit, Fetched, Workers
  <1>6. InFlight(v) = 0
    BY <1>2, <1>4, <1>5, FS_EmptySet DEF InFlight
  <1> QED
    BY <1>6 DEF Init, RingInit

LEMMA ConservationNext == RingInv /\ Conservation /\ [Next]_vars => Conservation'
PROOF
  <1> SUFFICES ASSUME RingInv, Conservation, [Next]_vars, NEW v \in Values
      PROVE  generated'[v] = occurrances'[v] + InFlight(v)'
    BY DEF Conservation
  <1> DEFINE hand == Cardinality(InHand(v))
             ring == Cardinality(InRing(v))
             out  == IF Fetched = v THEN 1 ELSE 0
  <1>0. InFlight(v) = hand + ring + out /\ InFlight(v)' = hand' + ring' + out'
    BY DEF InFlight
  <1>1. generated[v] = occurrances[v] + (hand + ring + out)
    BY <1>0 DEF Conservation
  <1>2. hand \in Nat /\ ring \in Nat
    BY Countable
  <1>3. generated \in [Values -> Nat] /\ occurrances \in [Values -> Nat]
    BY DEF RingInv, RingTypeOK
  <1>4. out \in {0, 1}
    OBVIOUS
  <1>5. ASSUME NEW g \in Generators, Generate(g), UNCHANGED inside
        PROVE  generated'[v] = occurrances'[v] + InFlight(v)'
    <2>1. PICK w \in Values : /\ val' = [val EXCEPT ![g] = w]
                              /\ generated' = [generated EXCEPT ![w] = @ + 1]
      BY <1>5 DEF Generate
    <2>2. hand' = hand + (IF v = w THEN 1 ELSE 0)
      BY <1>5, <2>1, HandOffered DEF Generate
    <2>3. ring' = ring
      BY <1>5, ContentsKept, NothingMoved DEF Moving, Quiet
    <2>4. out' = out
      BY <2>1, RingBufferAssumption DEF Fetched, RingInv, RingTypeOK, Workers
    <2>5. occurrances' = occurrances
      BY <1>5 DEF Generate
    <2>6. generated'[v] = generated[v] + (IF v = w THEN 1 ELSE 0)
      BY <1>3, <2>1
    <2> HIDE DEF hand, ring, out
    <2> QED
      BY <1>0, <1>1, <1>2, <1>3, <1>4, <2>2, <2>3, <2>4, <2>5, <2>6
  <1>6. ASSUME NEW g \in Generators, g \in inside, Store(g)
        PROVE  generated'[v] = occurrances'[v] + InFlight(v)'
    <2>1. /\ hand' = hand - (IF v = val[g] THEN 1 ELSE 0)
          /\ ring' = ring + (IF v = val[g] THEN 1 ELSE 0)
      BY <1>6, HandStored
    <2>2. UNCHANGED <<generated, occurrances>> /\ out' = out
      BY <1>6 DEF Store, Fetched
    <2> HIDE DEF hand, ring, out
    <2> QED
      BY <1>0, <1>1, <1>2, <1>3, <1>4, <2>1, <2>2
  <1>7. CASE Counter \in inside /\ Load
    <2>1. ring' = ring - (IF v = Queued(1) THEN 1 ELSE 0)
      BY <1>7, RingLoaded
    <2>2. out = 0 /\ out' = IF v = Queued(1) THEN 1 ELSE 0
      <3>1. val' = [val EXCEPT ![Counter] = Queued(1)]
        BY <1>7, ContentsLoaded
      <3>2. val[Counter] \notin Values
        BY <1>7 DEF Load, RingInv, ValuesInv
      <3> QED
        BY <3>1, <3>2 DEF Fetched, RingInv, RingTypeOK, Workers
    <2>3. hand' = hand
      <3>1. InHand(v)' = InHand(v)
        BY <1>7, RingBufferAssumption
        DEF Load, InHand, Enqueuing, RingInv, RingTypeOK, Workers
      <3> QED
        BY <3>1
    <2>4. UNCHANGED <<generated, occurrances>>
      BY <1>7 DEF Load
    <2> HIDE DEF hand, ring, out
    <2> QED
      BY <1>0, <1>1, <1>2, <1>3, <1>4, <2>1, <2>2, <2>3, <2>4
  <1>8. CASE Count /\ UNCHANGED inside
    <2>1. ring' = ring
      BY <1>8, ContentsKept, NothingMoved DEF Moving, Quiet
    <2>2. hand' = hand
      <3>1. InHand(v)' = InHand(v)
        BY <1>8, RingBufferAssumption
        DEF Count, InHand, Enqueuing, RingInv, RingTypeOK, Workers
      <3> QED
        BY <3>1
    <2>3. out' = 0
      BY <1>8, RingBufferAssumption DEF Count, Fetched, RingInv, RingTypeOK, Workers
    <2>4. occurrances'[v] = occurrances[v] + out
      BY <1>3, <1>8 DEF Count, Fetched
    <2>5. generated' = generated
      BY <1>8 DEF Count
    <2> HIDE DEF hand, ring, out
    <2> QED
      BY <1>0, <1>1, <1>2, <1>3, <1>4, <2>1, <2>2, <2>3, <2>4, <2>5
  <1>9. CASE Internal /\ Moving
    <2>1. ring' = ring
      BY <1>9, ContentsKept, NothingMoved
    <2>2. hand' = hand /\ UNCHANGED <<Fetched, generated, occurrances>>
      BY <1>9, InternalKeeps
    <2>3. out' = out
      BY <2>2
    <2> HIDE DEF hand, ring, out
    <2> QED
      BY <1>0, <1>1, <2>1, <2>2, <2>3
  <1>10. CASE UNCHANGED vars
    <2>1. /\ UNCHANGED <<Fetched, generated, occurrances>>
          /\ InHand(v)' = InHand(v) /\ InRing(v)' = InRing(v)
      BY <1>10 DEF vars, ringVars, InHand, InRing, Enqueuing, Fetched, Queued, Cell, Used,
                   First, Storing, max
    <2> QED
      BY <1>0, <1>1, <2>1
  <1> HIDE DEF hand, ring, out
  <1> QED
    BY <1>5, <1>6, <1>7, <1>8, <1>9, <1>10, ShownSteps

\* Whatever generators draw and however they are interleaved with the counter,
\* each generated value is counted once or still on its way: RESULT and the GEN
\* files agree in the end.
THEOREM NothingLost == Spec => []Conservation
PROOF
  <1> QED
    BY ConservationInit, ConservationNext, RingInvariance, PTL DEF Spec

-----------------------------------------------------------------------------
(* RESULT and the GEN files.                                               *)

\* The requests the generators have not finished.
Owed == {r \in Generators \X (1..NrGenerate) : r[2] <= left[r[1]]}

\* The generators whose value is in the ring, the request not yet written off.
Done == {g \in Generators : op[g] \in {"leave", "count"}}

\* What the counter has yet to count is what the generators have yet to enqueue
\* and what is on its way.
Balance ==
  /\ \A g \in Generators : left[g] <= NrGenerate
  /\ left[Counter] = Cardinality(Owed) - Cardinality(Done) + Used
                       + (IF Fetched \in Values THEN 1 ELSE 0)

LEMMA BalanceCountable ==
  /\ IsFiniteSet(Owed) /\ Cardinality(Owed) \in Nat
  /\ IsFiniteSet(Done) /\ Cardinality(Done) \in Nat
PROOF
  <1>1. IsFiniteSet(1..NrGenerate)
    BY FS_Interval, RingBufferAssumption
  <1>2. IsFiniteSet(Generators \X (1..NrGenerate))
    BY <1>1, FS_Product, RingBufferAssumption
  <1>3. Owed \subseteq Generators \X (1..NrGenerate) /\ Done \subseteq Generators
    BY DEF Owed, Done
  <1> QED
    BY <1>2, <1>3, FS_Subset, FS_CardinalityType, RingBufferAssumption

LEMMA BalanceInit == Init => Balance
PROOF
  <1> SUFFICES ASSUME Init PROVE Balance
    OBVIOUS
  <1>1. /\ op[Counter] = "enter" /\ \A g \in Generators : op[g] = "generate"
        /\ \A g \in Generators : left[g] = NrGenerate
        /\ left[Counter] = Cardinality(Generators) * NrGenerate
    BY RingBufferAssumption DEF Init, RingInit, Workers
  <1>2. Owed = Generators \X (1..NrGenerate)
    BY <1>1, RingBufferAssumption DEF Owed
  <1>3. IsFiniteSet(1..NrGenerate) /\ Cardinality(1..NrGenerate) = NrGenerate
    <2>1. IsFiniteSet(1..NrGenerate)
          /\ Cardinality(1..NrGenerate) = IF 1 > NrGenerate THEN 0 ELSE NrGenerate - 1 + 1
      BY FS_Interval, RingBufferAssumption
    <2> QED
      BY <2>1, RingBufferAssumption
  <1>4. Cardinality(Owed) = Cardinality(Generators) * NrGenerate
    BY <1>2, <1>3, FS_Product, RingBufferAssumption
  <1>5. Cardinality(Done) = 0
    <2>1. Done = {}
      BY <1>1 DEF Done
    <2> QED
      BY <2>1, FS_EmptySet
  <1>6. Used = 0
    BY <1>1, Wrap DEF Used, Storing, Init, RingInit, max
  <1>7. Fetched \notin Values
    BY RingBufferAssumption DEF Init, RingInit, Fetched, Workers
  <1>8. \A g \in Generators : left[g] <= NrGenerate
    BY <1>1, RingBufferAssumption
  <1>9. Cardinality(Owed) \in Nat
    BY BalanceCountable
  <1> HIDE DEF Used
  <1> QED
    BY <1>1, <1>4, <1>5, <1>6, <1>7, <1>8, <1>9 DEF Balance

\* A request is written off: one owed, one done.
LEMMA WrittenOff ==
  ASSUME RingInv, Balance, NEW g \in Generators, Generated(g)
  PROVE  /\ Cardinality(Owed') = Cardinality(Owed) - 1
         /\ Cardinality(Done') = Cardinality(Done) - 1
PROOF
  <1> USE DEF RingInv, RingTypeOK, Workers
  <1>1. /\ op[g] = "count" /\ left[g] > 0 /\ left[g] \in 1..NrGenerate
        /\ left' = [left EXCEPT ![g] = left[g] - 1] /\ op' = [op EXCEPT ![g] = "generate"]
    BY DEF Generated, JoinInv, Balance
  <1> DEFINE r0 == <<g, left[g]>>
  <1>2. r0 \in Owed
    BY <1>1 DEF Owed
  <1>3. Owed' = Owed \ {r0}
    <2>1. ASSUME NEW r \in Generators \X (1..NrGenerate)
          PROVE  r[2] <= left'[r[1]] <=> r[2] <= left[r[1]] /\ r # r0
      <3>1. PICK h \in Generators, i \in 1..NrGenerate : r = <<h, i>>
        OBVIOUS
      <3>2. left[h] \in Nat /\ i \in Int
        OBVIOUS
      <3>3. r[1] = h /\ r[2] = i
        BY <3>1
      <3>4. CASE h = g
        BY <1>1, <3>1, <3>2, <3>3, <3>4
      <3>5. CASE h # g
        BY <1>1, <3>1, <3>2, <3>3, <3>5
      <3> QED
        BY <3>4, <3>5
    <2>2. Owed' = {r \in Generators \X (1..NrGenerate) : r[2] <= left'[r[1]]}
      BY DEF Owed
    <2> HIDE DEF r0
    <2> QED
      BY <2>1, <2>2 DEF Owed
  <1>4. g \in Done /\ Done' = Done \ {g}
    BY <1>1 DEF Done
  <1> QED
    BY <1>2, <1>3, <1>4, BalanceCountable, FS_RemoveElement

\* The other steps leave what is owed alone, and all but Store what is done.
LEMMA OwedKept ==
  ASSUME RingInv, left' = left \/ left' = [left EXCEPT ![Counter] = left[Counter] - 1]
  PROVE  Owed' = Owed
PROOF
  <1>1. \A g \in Generators : left'[g] = left[g]
    BY RingBufferAssumption DEF RingInv, RingTypeOK, Workers
  <1> QED
    BY <1>1 DEF Owed

LEMMA InternalBalance ==
  ASSUME RingInv, Internal, \A g \in Generators : ~Generated(g)
  PROVE  Done' = Done /\ left' = left
PROOF
  <1> USE RingBufferAssumption
      DEF RingInv, RingTypeOK, OpsInv, GeneratorOps, CounterOps, Workers, Done
  <1>1. CASE Main
    BY <1>1 DEF Main
  <1>2. ASSUME NEW t \in Workers, Enter(t) \/ Exit(t) PROVE Done' = Done /\ left' = left
    BY <1>2 DEF Enter, Exit, Leave, ringVars
  <1>3. ASSUME NEW t \in inside, Refuse(t) PROVE Done' = Done /\ left' = left
    BY <1>3 DEF Refuse
  <1>4. ASSUME NEW g \in inside, g # Counter, AdvanceRear(g) PROVE Done' = Done /\ left' = left
    BY <1>4 DEF AdvanceRear
  <1>5. CASE Counter \in inside /\ AdvanceFront
    BY <1>5 DEF AdvanceFront
  <1> QED
    BY <1>1, <1>2, <1>3, <1>4, <1>5 DEF Internal

LEMMA BalanceNext == RingInv /\ Balance /\ [Next]_vars => Balance'
PROOF
  <1> SUFFICES ASSUME RingInv, Balance, [Next]_vars PROVE Balance'
    OBVIOUS
  <1> DEFINE owed == Cardinality(Owed)
             done == Cardinality(Done)
             out  == IF Fetched \in Values THEN 1 ELSE 0
             Within == \A g \in Generators : left[g] <= NrGenerate
  <1>0. /\ Balance <=> Within /\ left[Counter] = owed - done + Used + out
        /\ Balance' <=> Within' /\ left'[Counter] = owed' - done' + Used' + out'
    BY DEF Balance
  <1>1. owed \in Nat /\ done \in Nat /\ out \in {0, 1}
    BY BalanceCountable
  <1>2. Used \in 0..NrSlots /\ NrSlots \in Nat
    BY UsedIs, RingBufferAssumption
  <1>3. left \in [Workers -> Nat] /\ Counter \in Workers
    BY DEF RingInv, RingTypeOK, Workers
  <1>4. ASSUME NEW g \in Generators, Generate(g), UNCHANGED inside PROVE Balance'
    <2>1. left' = left /\ Done' = Done
      BY <1>4 DEF Generate, Done, RingInv, RingTypeOK, Workers
    <2>2. Used' = Used
      BY <1>4, ContentsKept DEF Moving, Quiet
    <2>3. Fetched' = Fetched
      BY <1>4, RingBufferAssumption DEF Generate, Fetched, RingInv, RingTypeOK, Workers
    <2>4. owed' = owed /\ done' = done /\ out' = out /\ Within'
      BY <1>0, <2>1, <2>3, OwedKept
    <2> HIDE DEF owed, done, out, Within, Used
    <2> QED
      BY <1>0, <2>1, <2>2, <2>4
  <1>5. ASSUME NEW g \in Generators, g \in inside, Store(g) PROVE Balance'
    <2>1. left' = left /\ Fetched' = Fetched
      BY <1>5 DEF Store, Fetched
    <2>2. Used' = Used + 1
      BY <1>5, ContentsStored
    <2>3. g \notin Done /\ Done' = Done \cup {g}
      BY <1>5 DEF Store, Done, RingInv, RingTypeOK, Workers
    <2>4. done' = done + 1
      BY <2>3, BalanceCountable, FS_AddElement
    <2>5. owed' = owed /\ out' = out /\ Within'
      BY <1>0, <2>1, OwedKept
    <2> HIDE DEF owed, done, out, Within, Used
    <2> QED
      BY <1>0, <1>1, <1>2, <2>1, <2>2, <2>4, <2>5
  <1>6. CASE Counter \in inside /\ Load
    <2>1. left' = left /\ Done' = Done
      BY <1>6, RingBufferAssumption DEF Load, Done, RingInv, RingTypeOK, Workers
    <2>2. Used' = Used - 1 /\ val' = [val EXCEPT ![Counter] = Queued(1)] /\ Queued(1) \in Values
      BY <1>6, ContentsLoaded
    <2>3. out = 0 /\ out' = 1
      <3>1. val[Counter] \notin Values
        BY <1>6 DEF Load, RingInv, ValuesInv
      <3> QED
        BY <2>2, <3>1 DEF Fetched, RingInv, RingTypeOK, Workers
    <2>4. owed' = owed /\ done' = done /\ Within'
      BY <1>0, <2>1, OwedKept
    <2> HIDE DEF owed, done, out, Within, Used
    <2> QED
      BY <1>0, <1>1, <1>2, <2>1, <2>2, <2>3, <2>4
  <1>7. CASE Count /\ UNCHANGED inside
    <2>1. left' = [left EXCEPT ![Counter] = left[Counter] - 1]
      BY <1>7 DEF Count
    <2>2. Used' = Used
      BY <1>7, ContentsKept DEF Moving, Quiet
    <2>3. out = 1 /\ out' = 0
      BY <1>7, RingBufferAssumption DEF Count, Fetched, RingInv, RingTypeOK, Workers
    <2>4. Done' = Done
      BY <1>7, RingBufferAssumption DEF Count, Done, RingInv, RingTypeOK, Workers
    <2>5. owed' = owed /\ done' = done
      BY <2>1, <2>4, OwedKept
    <2>6. left'[Counter] = left[Counter] - 1 /\ Within'
      BY <1>0, <1>3, <2>1, RingBufferAssumption DEF Workers
    <2> HIDE DEF owed, done, out, Within, Used
    <2> QED
      BY <1>0, <1>1, <1>2, <2>2, <2>3, <2>5, <2>6
  <1>8. CASE Internal /\ Moving
    <2>1. Used' = Used
      BY <1>8, ContentsKept
    <2>2. Fetched' = Fetched
      <3>1. CASE Values = {}
        BY <1>8, <3>1, RingBufferAssumption
        DEF Internal, Generated, Main, Enter, Exit, Leave, ringVars, Refuse, AdvanceRear,
          AdvanceFront, Fetched, RingInv, RingTypeOK, Workers
      <3>2. CASE Values # {}
        BY <1>8, <3>2, InternalKeeps
      <3> QED
        BY <3>1, <3>2
    <2>3. CASE \E g \in Generators : Generated(g)
      <3>1. PICK g \in Generators : Generated(g)
        BY <2>3
      <3>2. owed' = owed - 1 /\ done' = done - 1
        BY <3>1, WrittenOff
      <3>3. left' = [left EXCEPT ![g] = left[g] - 1]
        BY <3>1 DEF Generated
      <3>4. left'[Counter] = left[Counter] /\ Within'
        BY <1>0, <1>3, <3>3, RingBufferAssumption DEF Workers
      <3>5. out' = out
        BY <2>2
      <3> HIDE DEF owed, done, out, Within, Used
      <3> QED
        BY <1>0, <1>1, <1>2, <2>1, <3>2, <3>4, <3>5
    <2>4. CASE \A g \in Generators : ~Generated(g)
      <3>1. Done' = Done /\ left' = left
        BY <1>8, <2>4, InternalBalance
      <3>2. owed' = owed /\ done' = done /\ out' = out /\ Within'
        BY <1>0, <2>2, <3>1, OwedKept
      <3> HIDE DEF owed, done, out, Within, Used
      <3> QED
        BY <1>0, <2>1, <3>1, <3>2
    <2> QED
      BY <2>3, <2>4
  <1>9. CASE UNCHANGED vars
    BY <1>9 DEF vars, ringVars, Balance, Owed, Done, Fetched, Used, Storing, max
  <1> HIDE DEF owed, done, out, Within
  <1> QED
    BY <1>4, <1>5, <1>6, <1>7, <1>8, <1>9, ShownSteps

\* Once the counter has counted as often as main asked it to, it has counted
\* exactly what was generated.
Agreed == Finished(Counter) => occurrances = generated

LEMMA BalancedAgrees == RingInv /\ Conservation /\ Balance => Agreed
PROOF
  <1> SUFFICES ASSUME RingInv, Conservation, Balance, left[Counter] = 0
      PROVE  occurrances = generated
    BY DEF Agreed, Finished
  <1> DEFINE busy == Done \cup Enqueuing
             first == [g \in busy |-> <<g, 1>>]
  <1>1. IsFiniteSet(Enqueuing) /\ Cardinality(Enqueuing) \in Nat
    <2>1. Enqueuing \subseteq Generators
      BY DEF Enqueuing
    <2> QED
      BY <2>1, FS_Subset, FS_CardinalityType, RingBufferAssumption
  <1>2. Cardinality(busy) = Cardinality(Done) + Cardinality(Enqueuing)
    <2>1. Done \cap Enqueuing = {}
      BY DEF Done, Enqueuing
    <2>2. Cardinality(busy) = Cardinality(Done) + Cardinality(Enqueuing) - Cardinality({})
      BY <1>1, <2>1, BalanceCountable, FS_Union
    <2> QED
      BY <1>1, <2>2, BalanceCountable, FS_EmptySet
  <1>3. \A g \in busy : g \in Generators /\ left[g] \in Nat /\ left[g] > 0
    BY DEF Done, Enqueuing, RingInv, RingTypeOK, OpsInv, JoinInv, Workers
  <1>4. first \in Injection(busy, Owed)
    <2>1. \A g \in busy : <<g, 1>> \in Owed
      BY <1>3, RingBufferAssumption DEF Owed, Balance
    <2>2. first \in [busy -> Owed]
      BY <2>1
    <2>3. \A g, h \in busy : first[g] = first[h] => g = h
      OBVIOUS
    <2> HIDE DEF first, busy
    <2> QED
      BY <2>2, <2>3, Fun_IsInj
  <1>5. Cardinality(busy) <= Cardinality(Owed)
    <2> HIDE DEF first, busy
    <2> QED
      BY <1>4, BalanceCountable, FS_Injection
  <1>6. Cardinality(Enqueuing) = 0 /\ Used = 0 /\ Fetched \notin Values
    <2> DEFINE o == Cardinality(Owed)
               d == Cardinality(Done)
               e == Cardinality(Enqueuing)
               out == IF Fetched \in Values THEN 1 ELSE 0
    <2>1. 0 = o - d + Used + out
      BY DEF Balance
    <2>2. Used \in Nat
      BY UsedIs, RingBufferAssumption
    <2>3. d \in Nat /\ o \in Nat /\ e \in Nat /\ out \in Nat
      BY <1>1, BalanceCountable
    <2>4. d + e <= o
      BY <1>2, <1>5
    <2>5. e = 0 /\ Used = 0 /\ out = 0
      <3> HIDE DEF busy, Used, o, d, e, out
      <3> QED
        BY <2>1, <2>2, <2>3, <2>4
    <2> QED
      BY <2>5
  <1>7. Enqueuing = {}
    BY <1>1, <1>6, FS_EmptySet
  <1>8. ASSUME NEW v \in Values PROVE generated[v] = occurrances[v]
    <2>1. InHand(v) = {}
      BY <1>7 DEF InHand
    <2>2. InRing(v) = {}
      <3> HIDE DEF Used
      <3> QED
        BY <1>6 DEF InRing
    <2>3. InFlight(v) = 0
      BY <1>6, <2>1, <2>2, FS_EmptySet DEF InFlight
    <2>4. generated[v] = occurrances[v] + InFlight(v) /\ occurrances[v] \in Nat
      BY DEF Conservation, RingInv, RingTypeOK
    <2> QED
      BY <2>3, <2>4
  <1> QED
    BY <1>8 DEF RingInv, RingTypeOK

\* When the counter has finished, it has counted each value as often as the
\* generators drew it: the two files the Makefile's tests compare agree.
THEOREM ResultAgrees == Spec => []Agreed
PROOF
  <1> QED
    BY BalanceInit, BalanceNext, BalancedAgrees, NothingLost, RingInvariance, PTL DEF Spec

=============================================================================
