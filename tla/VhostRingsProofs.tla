--------------------------- MODULE VhostRingsProofs ---------------------------
(***************************************************************************)
(* The virtqueue path of one port for every ring size, every number of     *)
(* index values, and any number of posts, frames and sessions.             *)
(***************************************************************************)
EXTENDS VhostRings, FiniteSetTheorems, SequenceTheorems, TLAPS

-------------------------------------------------------------------------------
(* Ring arithmetic *)

\* The remainder of a division is the only one.
LEMMA ModUnique ==
  ASSUME NEW n \in Nat \ {0}, NEW q \in Int, NEW r \in 0..(n - 1)
  PROVE  (q * n + r) % n = r
OBVIOUS

LEMMA ModExists ==
  ASSUME NEW n \in Nat \ {0}, NEW a \in Int
  PROVE  /\ a % n \in 0..(n - 1)
         /\ \E q \in Int : a = q * n + (a % n)
<1>1. a % n \in 0..(n - 1) /\ a \div n \in Int
  OBVIOUS
<1>2. a = (a \div n) * n + (a % n)
  OBVIOUS
<1> QED
  BY <1>1, <1>2

\* wrapping_add and wrapping_sub without the remainder.
LEMMA PlusCases ==
  ASSUME NEW i \in Idx, NEW n \in 0..IdxSpace
  PROVE  /\ Plus(i, n) \in Idx
         /\ Plus(i, n) = IF i + n < IdxSpace THEN i + n ELSE i + n - IdxSpace
BY RingsAssumption DEF Plus, Idx

LEMMA MinusCases ==
  ASSUME NEW i \in Idx, NEW j \in Idx
  PROVE  /\ Minus(i, j) \in Idx
         /\ Minus(i, j) = IF i >= j THEN i - j ELSE i - j + IdxSpace
BY RingsAssumption DEF Minus, Idx

\* The slot of the index n further on: the ring's size divides the index space.
LEMMA SlotCases ==
  ASSUME NEW i \in Idx, NEW n \in 0..(Size - 1)
  PROVE  /\ i % Size \in Slots
         /\ Plus(i, n) % Size =
              IF (i % Size) + n < Size THEN (i % Size) + n ELSE (i % Size) + n - Size
<1> DEFINE s == i % Size
<1>1. Size \in Nat \ {0} /\ IdxSpace \in Nat /\ Size < IdxSpace /\ IdxSpace % Size = 0
  BY RingsAssumption
<1>2. PICK q \in Int : i = q * Size + s /\ s \in 0..(Size - 1)
  <2>1. i \in Int
    BY <1>1 DEF Idx
  <2> QED
    BY <1>1, <2>1, ModExists, Zenon
<1>3. PICK m \in Int : IdxSpace = m * Size + (IdxSpace % Size)
  <2>1. IdxSpace \in Int
    BY <1>1
  <2> QED
    BY <1>1, <2>1, ModExists, Zenon
<1>4. IdxSpace = m * Size
  BY <1>1, <1>3
<1> HIDE DEF s
<1> DEFINE r == IF s + n < Size THEN s + n ELSE s + n - Size
<1>5. r \in 0..(Size - 1)
  BY <1>1, <1>2
<1>6. \E k \in Int : Plus(i, n) = k * Size + r
  <2>1. Plus(i, n) = i + n \/ Plus(i, n) = i + n - m * Size
    <3>1. n \in 0..IdxSpace
      BY <1>1
    <3>2. Plus(i, n) = i + n \/ Plus(i, n) = i + n - IdxSpace
      BY <3>1, PlusCases
    <3> QED
      BY <1>4, <3>2
  <2>2. \/ Plus(i, n) = q * Size + r
        \/ Plus(i, n) = (q - m) * Size + r
        \/ Plus(i, n) = (q + 1) * Size + r
        \/ Plus(i, n) = (q - m + 1) * Size + r
    BY <1>1, <1>2, <2>1
  <2>3. {q, q - m, q + 1, q - m + 1} \subseteq Int
    OBVIOUS
  <2> QED
    BY <2>2, <2>3, Zenon
<1> HIDE DEF r
<1>7. Plus(i, n) % Size = r
  BY <1>1, <1>5, <1>6, ModUnique
<1> QED
  BY <1>2, <1>7 DEF r, s, Slots

LEMMA PlusPlus ==
  ASSUME NEW i \in Idx, NEW m \in Nat, NEW n \in Nat, m + n <= IdxSpace
  PROVE  Plus(Plus(i, m), n) = Plus(i, m + n)
<1>1. /\ m \in 0..IdxSpace /\ n \in 0..IdxSpace /\ m + n \in 0..IdxSpace
      /\ IdxSpace \in Nat
  BY RingsAssumption
<1>2. /\ Plus(i, m) \in Idx
      /\ Plus(i, m) = IF i + m < IdxSpace THEN i + m ELSE i + m - IdxSpace
  BY <1>1, PlusCases
<1>3. Plus(i, m + n) = IF i + (m + n) < IdxSpace THEN i + (m + n) ELSE i + (m + n) - IdxSpace
  BY <1>1, PlusCases
<1>4. Plus(Plus(i, m), n) = IF Plus(i, m) + n < IdxSpace THEN Plus(i, m) + n
                            ELSE Plus(i, m) + n - IdxSpace
  BY <1>1, <1>2, PlusCases
<1> QED
  BY <1>1, <1>2, <1>3, <1>4 DEF Idx

\* Distances after one end moved on.
LEMMA MinusAhead ==
  ASSUME NEW i \in Idx, NEW j \in Idx, NEW n \in Nat, Minus(i, j) + n < IdxSpace
  PROVE  Minus(Plus(i, n), j) = Minus(i, j) + n
<1>1. /\ IdxSpace \in Nat /\ Minus(i, j) \in Nat
      /\ Minus(i, j) = IF i >= j THEN i - j ELSE i - j + IdxSpace
  BY RingsAssumption, MinusCases DEF Idx
<1>2. n \in 0..IdxSpace
  BY <1>1
<1>3. /\ Plus(i, n) \in Idx
      /\ Plus(i, n) = IF i + n < IdxSpace THEN i + n ELSE i + n - IdxSpace
  BY <1>2, PlusCases
<1>4. Minus(Plus(i, n), j) = IF Plus(i, n) >= j THEN Plus(i, n) - j
                             ELSE Plus(i, n) - j + IdxSpace
  BY <1>3, MinusCases
<1> QED
  BY <1>1, <1>3, <1>4 DEF Idx

LEMMA MinusBehind ==
  ASSUME NEW i \in Idx, NEW j \in Idx, NEW n \in 0..Minus(i, j)
  PROVE  Minus(i, Plus(j, n)) = Minus(i, j) - n
<1>1. /\ IdxSpace \in Nat /\ Minus(i, j) \in Idx
      /\ Minus(i, j) = IF i >= j THEN i - j ELSE i - j + IdxSpace
  BY RingsAssumption, MinusCases
<1>2. n \in 0..IdxSpace /\ n \in Nat
  BY <1>1 DEF Idx
<1>3. /\ Plus(j, n) \in Idx
      /\ Plus(j, n) = IF j + n < IdxSpace THEN j + n ELSE j + n - IdxSpace
  BY <1>2, PlusCases
<1>4. Minus(i, Plus(j, n)) = IF i >= Plus(j, n) THEN i - Plus(j, n)
                             ELSE i - Plus(j, n) + IdxSpace
  BY <1>3, MinusCases
<1> QED
  BY <1>1, <1>2, <1>3, <1>4 DEF Idx

LEMMA MinusZero ==
  ASSUME NEW i \in Idx, NEW j \in Idx
  PROVE  /\ Minus(i, j) = 0 <=> i = j
         /\ Plus(i, 0) = i
         /\ Plus(j, Minus(i, j)) = i
<1>1. /\ IdxSpace \in Nat /\ Minus(i, j) \in Idx /\ 0 \in 0..IdxSpace
      /\ Minus(i, j) = IF i >= j THEN i - j ELSE i - j + IdxSpace
  BY RingsAssumption, MinusCases
<1>2. Minus(i, j) \in 0..IdxSpace
  BY <1>1 DEF Idx
<1>3. Plus(j, Minus(i, j)) = IF j + Minus(i, j) < IdxSpace THEN j + Minus(i, j)
                             ELSE j + Minus(i, j) - IdxSpace
  BY <1>2, PlusCases
<1>4. Plus(i, 0) = i
  BY <1>1, PlusCases DEF Idx
<1> QED
  BY <1>1, <1>3, <1>4 DEF Idx

\* Fewer than Size indices in a row lie in different slots.
LEMMA SlotsDiffer ==
  ASSUME NEW i \in Idx, NEW j \in Nat, NEW k \in Nat, j < k, k < IdxSpace, k - j < Size
  PROVE  Plus(i, j) % Size # Plus(i, k) % Size
<1> DEFINE y == Plus(i, j)
           n == k - j
<1>1. /\ IdxSpace \in Nat /\ Size \in Nat /\ j \in 0..IdxSpace
      /\ n \in 0..(Size - 1) /\ n \in Nat /\ n > 0 /\ j + n = k
  BY RingsAssumption
<1>2. y \in Idx
  BY <1>1, PlusCases
<1>3. Plus(i, k) = Plus(y, n)
  BY <1>1, PlusPlus
<1> HIDE DEF y, n
<1>4. /\ y % Size \in Slots
      /\ Plus(y, n) % Size = IF (y % Size) + n < Size THEN (y % Size) + n
                             ELSE (y % Size) + n - Size
  BY <1>1, <1>2, SlotCases
<1>5. Plus(y, n) % Size # y % Size
  BY <1>1, <1>4 DEF Slots
<1> QED
  BY <1>3, <1>5 DEF y

LEMMA SlotType ==
  ASSUME NEW i \in Idx
  PROVE  i % Size \in Slots
<1>1. 0 \in 0..(Size - 1)
  BY RingsAssumption
<1> QED
  BY <1>1, SlotCases

-------------------------------------------------------------------------------
(* Positions and their ranks *)

LEMMA RankSpec ==
  ASSUME NEW L \in Nat, NEW S \in SUBSET (1..L)
  PROVE  /\ IsFiniteSet(S)
         /\ \A k \in Int : Rank(S, k) \in Nat
         /\ Rank(S, 0) = 0 /\ Rank(S, L) = Cardinality(S)
         /\ \A j, k \in Int : j <= k => Rank(S, j) <= Rank(S, k)
         /\ \A j \in Int, k \in S : j < k => Rank(S, j) < Rank(S, k)
<1>1. IsFiniteSet(1..L)
  BY FS_Interval
<1>2. IsFiniteSet(S)
  BY <1>1, FS_Subset
<1> DEFINE T(k) == {j \in S : j <= k}
<1>0. \A j \in S : j \in Int /\ 1 <= j /\ j <= L
  OBVIOUS
<1>3. \A k : IsFiniteSet(T(k))
  BY <1>2, FS_Subset
<1>4. ASSUME NEW k \in Int
      PROVE  Rank(S, k) \in Nat
  BY <1>3, FS_CardinalityType DEF Rank
<1>5. Rank(S, 0) = 0
  <2>1. ASSUME NEW j \in S
        PROVE  ~(j <= 0)
    BY <1>0
  <2>2. T(0) = {}
    BY <2>1
  <2> QED
    BY <2>2, FS_EmptySet DEF Rank
<1>6. Rank(S, L) = Cardinality(S)
  <2>1. T(L) = S
    BY <1>0
  <2> QED
    BY <2>1 DEF Rank
<1>7. ASSUME NEW j \in Int, NEW k \in Int, j <= k
      PROVE  Rank(S, j) <= Rank(S, k)
  <2>1. T(j) \in SUBSET T(k)
    <3>1. ASSUME NEW x \in S, x <= j
          PROVE  x <= k
      BY <1>0, <1>7, <3>1
    <3> QED
      BY <3>1
  <2> QED
    BY <1>3, <2>1, FS_Subset DEF Rank
<1>8. ASSUME NEW j \in Int, NEW k \in S, j < k
      PROVE  Rank(S, j) < Rank(S, k)
  <2>1. T(j) \in SUBSET T(k) /\ k \in T(k) /\ k \notin T(j)
    <3>1. ASSUME NEW x \in S, x <= j
          PROVE  x <= k
      BY <1>0, <1>8, <3>1
    <3>2. k <= k /\ ~(k <= j)
      BY <1>0, <1>8
    <3> QED
      BY <3>1, <3>2
  <2>2. /\ Cardinality(T(j)) <= Cardinality(T(k))
        /\ Cardinality(T(k)) = Cardinality(T(j)) => T(k) = T(j)
    BY <1>3, <2>1, FS_Subset
  <2>3. Cardinality(T(j)) \in Nat /\ Cardinality(T(k)) \in Nat
    BY <1>3, FS_CardinalityType
  <2> QED
    BY <2>1, <2>2, <2>3 DEF Rank
<1> QED
  BY <1>2, <1>4, <1>5, <1>6, <1>7, <1>8

\* A position of S up to n has rank i.
Ranked(S, n, i) == \E k \in S : k <= n /\ Rank(S, k) = i

\* Every number up to the rank of n is the rank of a position up to n: ranks are
\* an injection between sets of the same size.
LEMMA RankOnto ==
  ASSUME NEW L \in Nat, NEW S \in SUBSET (1..L), NEW n \in Nat, NEW i \in 1..Rank(S, n)
  PROVE  Ranked(S, n, i)
<1> DEFINE T == {j \in S : j <= n}
           c == Rank(S, n)
           f == [k \in T |-> Rank(S, k)]
<1>1. c \in Nat /\ c = Cardinality(T) /\ T \subseteq S
  <2>1. n \in Int
    OBVIOUS
  <2>2. c \in Nat
    BY <2>1, RankSpec, Zenon
  <2> QED
    BY <2>2 DEF Rank
<1>2. ASSUME NEW k \in T
      PROVE  Rank(S, k) \in 1..c
  <2>1. k \in S /\ k \in Int /\ 0 < k /\ k <= n
    OBVIOUS
  <2>2. /\ Rank(S, 0) = 0 /\ Rank(S, 0) < Rank(S, k) /\ Rank(S, k) <= c
        /\ Rank(S, k) \in Nat
    BY <2>1, RankSpec
  <2> QED
    BY <1>1, <2>2
<1>3. \A j, k \in T : Rank(S, j) = Rank(S, k) => j = k
  <2>1. ASSUME NEW j \in T, NEW k \in T
        PROVE  j \in Int /\ k \in Int /\ (j < k => Rank(S, j) < Rank(S, k))
    <3>1. j \in Int /\ k \in Int /\ k \in S
      OBVIOUS
    <3> QED
      BY <3>1, RankSpec, Zenon
  <2>2. \A j \in T : Rank(S, j) \in Nat
    BY <1>2
  <2> QED
    BY <2>1, <2>2
<1>4. f \in Injection(T, 1..c)
  BY <1>2, <1>3 DEF Injection, IsInjective
<1>5. IsFiniteSet(1..c) /\ Cardinality(1..c) = c
  BY <1>1, FS_Interval
<1>6. f \in Surjection(T, 1..c)
  BY <1>1, <1>4, <1>5, FS_Injection
<1>7. \E k \in T : f[k] = i
  BY <1>6 DEF Surjection
<1> QED
  BY <1>7 DEF Ranked

-------------------------------------------------------------------------------
(* The inductive invariant *)

\* What the proofs need of the environment: the guest leaves a ring in recovery
\* alone, or the frontend resumes from the used index; and a frontend stops its rings
\* before it leaves, so that a forgotten worker serves nothing.
Orderly ==
  /\ QuietResume \/ "avail" \notin Bases
  /\ "abrupt" \notin Ends

\* The index of the oldest chain not yet served.
Oldest == IF dir = RX THEN Plus(used, Len(batch)) ELSE nextAvail

Pending == HeadsFrom(Oldest)

\* The worker's indices agree with its batch: next_avail is where the batch ends,
\* except on a resumed RX ring that has not been rewound yet.
Marks ==
  /\ nextUsed = used
  /\ worker # "complete" => batch = << >>
  /\ worker = "complete" => session = "ready"
  /\ base = "used" => nextAvail = Plus(used, Len(batch))
  /\ \A g \in DOMAIN ghosts : ~ghosts[g].ready
  /\ dir = RX /\ session = "ready" =>
       \/ nextAvail = Plus(used, Len(batch))
       \/ nextAvail = avail /\ worker # "complete"

\* The completions U and the pending heads P are chains of O, each once.
Lined(U, P, O) ==
  /\ \A k \in DOMAIN U : U[k].head \in O
  /\ \A j, k \in DOMAIN U : U[j].head = U[k].head => j = k
  /\ \A k \in DOMAIN P : P[k] \in O
  /\ \A j, k \in DOMAIN P : P[j] = P[k] => j = k
  /\ \A j \in DOMAIN U, k \in DOMAIN P : U[j].head # P[k]

\* They are all of O.
Covered(U, P, O) ==
  \A h \in O : (\E k \in DOMAIN U : U[k].head = h) \/ (\E k \in DOMAIN P : P[k] = h)

RingInv ==
  /\ TypeOK /\ Marks
  /\ Lined(Unreaped, Pending, owed)
  /\ dir = RX => Covered(Unreaped, Pending, owed)

\* Frames to the guest: those reaped come before those written, and those before
\* the ones in the channel; none is missing.
RxOrder(G, U, Q) ==
  /\ Increasing(G) /\ Increasing(Q)
  /\ \A j, k \in DOMAIN U : j < k /\ U[j].frame # 0 /\ U[k].frame # 0 => U[j].frame < U[k].frame
  /\ \A j \in DOMAIN G, k \in DOMAIN U : U[k].frame # 0 => G[j] < U[k].frame
  /\ \A j \in DOMAIN G, k \in DOMAIN Q : G[j] < Q[k]
  /\ \A j \in DOMAIN U, k \in DOMAIN Q : U[j].frame < Q[k]

RxAll(G, U, Q, A) ==
  \A f \in Frames :
    f \in A <=> \/ \E k \in DOMAIN G : G[k] = f
                \/ \E k \in DOMAIN U : U[k].frame = f
                \/ \E k \in DOMAIN Q : Q[k] = f

RxFlow(G, U, Q, A) == RxOrder(G, U, Q) /\ RxAll(G, U, Q, A)

RxInv ==
  dir = RX => /\ RxFlow(got, Unreaped, queue, (1..injected) \ dropped)
              /\ dropped \subseteq 1..injected
              /\ sent = << >>

\* Frames to the switch: those handed over come before those of pending chains.
TxOrder(S, P, C) ==
  /\ Increasing(S)
  /\ \A j, k \in DOMAIN P : j < k => C[P[j]].frame < C[P[k]].frame
  /\ \A j \in DOMAIN S, k \in DOMAIN P : S[j] < C[P[k]].frame

\* The frames of O are those handed over and those of whole pending transmissions.
TxAll(S, P, C, O) ==
  \A f \in Frames :
    f \in O <=> \/ \E k \in DOMAIN S : S[k] = f
                \/ \E k \in DOMAIN P : C[P[k]].kind = "fit" /\ C[P[k]].frame = f

TxAllInv == dir = TX /\ base = "used" => TxAll(sent, Pending, chain, offered)

TxInv ==
  dir = TX => /\ TxOrder(sent, Pending, chain)
              /\ \A k \in DOMAIN sent : sent[k] <= posts
              /\ \A k \in DOMAIN Pending : chain[Pending[k]].frame \in 1..posts

-------------------------------------------------------------------------------
(* Windows of a ring *)

\* The n slots of ring r from index i on.
Window(r, i, n) == [k \in 1..n |-> r[Plus(i, k - 1) % Size]]

LEMMA WindowType ==
  ASSUME NEW S, NEW r \in [Slots -> S], NEW i \in Idx, NEW n \in 0..IdxSpace
  PROVE  /\ Window(r, i, n) \in Seq(S)
         /\ Len(Window(r, i, n)) = n
         /\ \A k \in 1..n : Window(r, i, n)[k] = r[Plus(i, k - 1) % Size]
<1>1. n \in Nat
  BY RingsAssumption
<1>2. ASSUME NEW k \in 1..n
      PROVE  r[Plus(i, k - 1) % Size] \in S
  <2>1. k - 1 \in 0..IdxSpace
    BY RingsAssumption
  <2>2. Plus(i, k - 1) \in Idx
    BY <2>1, PlusCases, Zenon
  <2>3. Plus(i, k - 1) % Size \in Slots
    BY <2>2, SlotType, Zenon
  <2> QED
    BY <2>3
<1>3. Window(r, i, n) \in [1..n -> S]
  BY <1>2 DEF Window
<1>4. Window(r, i, n) \in Seq(S) /\ Len(Window(r, i, n)) = n
  BY <1>1, <1>3, IsASeq, LenProperties
<1> QED
  BY <1>4 DEF Window

\* A window without its first m slots.
LEMMA WindowDrop ==
  ASSUME NEW S, NEW r \in [Slots -> S], NEW i \in Idx, NEW n \in 0..IdxSpace, NEW m \in 0..n
  PROVE  \A k \in 1..(n - m) : Window(r, Plus(i, m), n - m)[k] = Window(r, i, n)[k + m]
<1>1. IdxSpace \in Nat /\ n \in Nat /\ m \in Nat /\ m \in 0..IdxSpace /\ n - m \in 0..IdxSpace
  BY RingsAssumption
<1>2. Plus(i, m) \in Idx
  BY <1>1, PlusCases, Zenon
<1>3. ASSUME NEW k \in 1..(n - m)
      PROVE  Window(r, Plus(i, m), n - m)[k] = Window(r, i, n)[k + m]
  <2>1. /\ k - 1 \in Nat /\ m + (k - 1) <= IdxSpace /\ m + (k - 1) = (k + m) - 1
        /\ k + m \in 1..n
    BY <1>1
  <2>2. Plus(Plus(i, m), k - 1) = Plus(i, m + (k - 1))
    BY <1>1, <2>1, PlusPlus, Zenon
  <2> QED
    BY <2>1, <2>2 DEF Window
<1> QED
  BY <1>3

\* The first n slots of a longer window.
LEMMA WindowTake ==
  ASSUME NEW r, NEW i, NEW n \in Nat, NEW m \in 0..n
  PROVE  \A k \in 1..m : Window(r, i, m)[k] = Window(r, i, n)[k]
BY DEF Window

-------------------------------------------------------------------------------
(* The line of chains: written, then pending *)

\* A line is no longer than the ring, and shorter while a descriptor is free.
LEMMA LineFits ==
  ASSUME NEW U \in Seq(Completions), NEW P \in Seq(Slots), NEW O \in SUBSET Slots,
         Lined(U, P, O)
  PROVE  /\ Len(U) + Len(P) <= Size
         /\ O # Slots => Len(U) + Len(P) < Size
<1> DEFINE a == Len(U)
           c == Len(P)
           f == [k \in 1..(a + c) |-> IF k <= a THEN U[k].head ELSE P[k - a]]
<1>1. a \in Nat /\ c \in Nat /\ DOMAIN U = 1..a /\ DOMAIN P = 1..c
  BY LenProperties
<1>2. Size \in Nat \ {0} /\ IsFiniteSet(Slots) /\ Cardinality(Slots) = Size
  BY RingsAssumption, FS_Interval DEF Slots
<1>3. IsFiniteSet(O) /\ Cardinality(O) <= Size /\ (Cardinality(O) = Size => O = Slots)
  BY <1>2, FS_Subset
<1>4. IsFiniteSet(1..(a + c)) /\ Cardinality(1..(a + c)) = a + c
  <2>1. 1 \in Int /\ a + c \in Int
    BY <1>1
  <2>2. Cardinality(1..(a + c)) = IF 1 > a + c THEN 0 ELSE (a + c) - 1 + 1
    BY <2>1, FS_Interval, Zenon
  <2> QED
    BY <1>1, <2>1, <2>2, FS_Interval
<1> HIDE DEF a, c
<1>5. ASSUME NEW k \in 1..(a + c)
      PROVE  /\ k <= a => k \in DOMAIN U
             /\ ~(k <= a) => k - a \in DOMAIN P
  BY <1>1
<1>6. \A k \in 1..(a + c) : f[k] \in O
  BY <1>5 DEF Lined
<1>7. ASSUME NEW j \in 1..(a + c), NEW k \in 1..(a + c), f[j] = f[k]
      PROVE  j = k
  <2>1. CASE j <= a /\ k <= a
    BY <1>5, <1>7, <2>1 DEF Lined
  <2>2. CASE ~(j <= a) /\ ~(k <= a)
    <3>1. j - a = k - a
      BY <1>5, <1>7, <2>2 DEF Lined
    <3> QED
      BY <1>1, <3>1
  <2>3. CASE j <= a /\ ~(k <= a)
    BY <1>5, <1>7, <2>3 DEF Lined
  <2>4. CASE ~(j <= a) /\ k <= a
    BY <1>5, <1>7, <2>4 DEF Lined
  <2> QED
    BY <2>1, <2>2, <2>3, <2>4
<1>8. f \in Injection(1..(a + c), O)
  <2>1. f \in [1..(a + c) -> O]
    BY <1>6
  <2> HIDE DEF f
  <2> QED
    BY <1>7, <2>1 DEF Injection, IsInjective
<1>9. a + c <= Cardinality(O) /\ Cardinality(O) \in Nat
  BY <1>3, <1>4, <1>8, FS_Injection, FS_CardinalityType
<1> QED
  BY <1>1, <1>2, <1>3, <1>9 DEF a, c

\* The guest takes the first completion back.
LEMMA LineReap ==
  ASSUME NEW U \in Seq(Completions), NEW V \in Seq(Completions), NEW P \in Seq(Slots),
         NEW O \in SUBSET Slots, Lined(U, P, O),
         Len(U) > 0, Len(V) = Len(U) - 1, \A k \in 1..Len(V) : V[k] = U[k + 1]
  PROVE  /\ Lined(V, P, O \ {U[1].head})
         /\ Covered(U, P, O) => Covered(V, P, O \ {U[1].head})
<1> DEFINE a == Len(U)
<1>1. a \in Nat /\ a > 0 /\ DOMAIN U = 1..a /\ DOMAIN V = 1..(a - 1)
  BY LenProperties
<1> HIDE DEF a
<1>2. /\ 1 \in DOMAIN U
      /\ \A k \in DOMAIN V : k \in Int /\ k + 1 \in DOMAIN U /\ k + 1 # 1 /\ V[k] = U[k + 1]
      /\ \A k \in DOMAIN U : k = 1 \/ (k - 1 \in DOMAIN V /\ V[k - 1] = U[k])
  BY <1>1 DEF a
<1>3. \A j, k \in DOMAIN V : j + 1 = k + 1 => j = k
  BY <1>2
<1>4. Lined(V, P, O \ {U[1].head})
  <2>1. ASSUME NEW k \in DOMAIN V
        PROVE  V[k].head \in O /\ V[k].head # U[1].head
    <3>1. k + 1 \in DOMAIN U /\ k + 1 # 1 /\ V[k] = U[k + 1] /\ 1 \in DOMAIN U
      BY <1>2
    <3>2. U[k + 1].head \in O /\ (U[k + 1].head = U[1].head => k + 1 = 1)
      BY <3>1 DEF Lined
    <3> QED
      BY <3>1, <3>2
  <2>2. \A j, k \in DOMAIN V : V[j].head = V[k].head => j = k
    BY <1>2, <1>3 DEF Lined
  <2>3. \A k \in DOMAIN P : P[k] \in O /\ P[k] # U[1].head
    BY <1>2 DEF Lined
  <2>4. \A j \in DOMAIN V, k \in DOMAIN P : V[j].head # P[k]
    BY <1>2 DEF Lined
  <2> QED
    BY <2>1, <2>2, <2>3, <2>4 DEF Lined
<1>5. Covered(U, P, O) => Covered(V, P, O \ {U[1].head})
  <2>1. ASSUME Covered(U, P, O), NEW h \in O \ {U[1].head}
        PROVE  (\E k \in DOMAIN V : V[k].head = h) \/ (\E k \in DOMAIN P : P[k] = h)
    <3>1. CASE \E k \in DOMAIN U : U[k].head = h
      <4>1. PICK k \in DOMAIN U : U[k].head = h
        BY <3>1
      <4> QED
        BY <1>2, <4>1
    <3> QED
      BY <2>1, <3>1 DEF Covered
  <2> QED
    BY <2>1 DEF Covered
<1> QED
  BY <1>4, <1>5

\* The guest posts a chain it did not owe.
LEMMA LinePost ==
  ASSUME NEW U \in Seq(Completions), NEW P \in Seq(Slots), NEW Q \in Seq(Slots),
         NEW O \in SUBSET Slots, NEW h \in Slots \ O, Lined(U, P, O),
         Len(Q) = Len(P) + 1, Q[Len(Q)] = h, \A k \in 1..Len(P) : Q[k] = P[k]
  PROVE  /\ Lined(U, Q, O \cup {h})
         /\ Covered(U, P, O) => Covered(U, Q, O \cup {h})
<1> DEFINE c == Len(P)
<1>1. c \in Nat /\ DOMAIN P = 1..c /\ DOMAIN Q = 1..(c + 1) /\ Q[c + 1] = h
  BY LenProperties
<1> HIDE DEF c
<1>2. /\ c + 1 \in DOMAIN Q /\ c + 1 \notin DOMAIN P
      /\ \A k \in DOMAIN P : k \in DOMAIN Q /\ Q[k] = P[k]
      /\ \A k \in DOMAIN Q : k = c + 1 \/ k \in DOMAIN P
  BY <1>1 DEF c
<1>3. Lined(U, Q, O \cup {h})
  BY <1>1, <1>2 DEF Lined
<1>4. Covered(U, P, O) => Covered(U, Q, O \cup {h})
  BY <1>1, <1>2, Zenon DEF Covered
<1> QED
  BY <1>3, <1>4

\* The first n pending chains are served.
LEMMA LineServe ==
  ASSUME NEW U \in Seq(Completions), NEW V \in Seq(Completions),
         NEW P \in Seq(Slots), NEW Q \in Seq(Slots), NEW O, Lined(U, P, O),
         NEW n \in 0..Len(P), Len(V) = Len(U) + n, Len(Q) = Len(P) - n,
         \A k \in 1..Len(U) : V[k] = U[k],
         \A k \in 1..n : V[Len(U) + k].head = P[k],
         \A k \in 1..Len(Q) : Q[k] = P[k + n]
  PROVE  /\ Lined(V, Q, O)
         /\ Covered(U, P, O) => Covered(V, Q, O)
<1> DEFINE a == Len(U)
           c == Len(P)
<1>1. /\ a \in Nat /\ c \in Nat /\ n \in Nat /\ n <= c /\ DOMAIN U = 1..a /\ DOMAIN P = 1..c
      /\ DOMAIN V = 1..(a + n) /\ DOMAIN Q = 1..(c - n)
  BY LenProperties
<1> HIDE DEF a, c
<1>2. /\ \A k \in DOMAIN V :
           \/ k \in DOMAIN U /\ V[k] = U[k]
           \/ k - a \in DOMAIN P /\ k - a <= n /\ V[k].head = P[k - a] /\ k - a \in 1..n
      /\ \A k \in DOMAIN Q : k + n \in DOMAIN P /\ k + n > n /\ Q[k] = P[k + n]
      /\ \A k \in DOMAIN U : k \in DOMAIN V /\ V[k] = U[k]
      /\ \A k \in DOMAIN P : \/ a + k \in DOMAIN V /\ V[a + k].head = P[k]
                             \/ k - n \in DOMAIN Q /\ Q[k - n] = P[k]
  <2>1. ASSUME NEW k \in DOMAIN V
        PROVE  \/ k \in DOMAIN U /\ V[k] = U[k]
               \/ k - a \in DOMAIN P /\ k - a <= n /\ V[k].head = P[k - a] /\ k - a \in 1..n
    <3>1. CASE k <= a
      BY <1>1, <3>1 DEF a
    <3>2. CASE ~(k <= a)
      <4>1. k - a \in 1..n /\ a + (k - a) = k /\ k - a \in DOMAIN P
        BY <1>1, <3>2
      <4> QED
        BY <1>1, <4>1 DEF a
    <3> QED
      BY <3>1, <3>2
  <2>2. ASSUME NEW k \in DOMAIN P
        PROVE  \/ a + k \in DOMAIN V /\ V[a + k].head = P[k]
               \/ k - n \in DOMAIN Q /\ Q[k - n] = P[k]
    <3>1. CASE k <= n
      BY <1>1, <3>1 DEF a
    <3>2. CASE ~(k <= n)
      <4>1. k - n \in 1..Len(Q) /\ (k - n) + n = k /\ k - n \in DOMAIN Q
        BY <1>1, <3>2 DEF c
      <4> QED
        BY <4>1
    <3> QED
      BY <3>1, <3>2
  <2>3. ASSUME NEW k \in DOMAIN Q
        PROVE  k + n \in DOMAIN P /\ k + n > n /\ Q[k] = P[k + n]
    BY <1>1 DEF c
  <2>4. ASSUME NEW k \in DOMAIN U
        PROVE  k \in DOMAIN V /\ V[k] = U[k]
    BY <1>1 DEF a
  <2> QED
    BY <2>1, <2>2, <2>3, <2>4
<1>3. Covered(U, P, O) => Covered(V, Q, O)
  <2>1. ASSUME Covered(U, P, O), NEW h \in O
        PROVE  (\E k \in DOMAIN V : V[k].head = h) \/ (\E k \in DOMAIN Q : Q[k] = h)
    <3>1. CASE \E k \in DOMAIN U : U[k].head = h
      BY <1>2, <3>1
    <3>2. CASE \E k \in DOMAIN P : P[k] = h
      <4>1. PICK k \in DOMAIN P : P[k] = h
        BY <3>2
      <4> QED
        BY <1>2, <4>1
    <3> QED
      BY <2>1, <3>1, <3>2 DEF Covered
  <2> QED
    BY <2>1 DEF Covered
<1>4. /\ \A k \in DOMAIN V : V[k].head \in O
      /\ \A k \in DOMAIN Q : Q[k] \in O
  BY <1>2, Zenon DEF Lined
<1>5. ASSUME NEW j \in DOMAIN Q, NEW k \in DOMAIN Q, Q[j] = Q[k]
      PROVE  j = k
  <2>1. j + n = k + n
    BY <1>2, <1>5 DEF Lined
  <2> QED
    BY <1>1, <2>1
<1>6. ASSUME NEW j \in DOMAIN V, NEW k \in DOMAIN V, V[j].head = V[k].head
      PROVE  j = k
  <2>1. CASE j \in DOMAIN U /\ V[j] = U[j]
    BY <1>2, <1>6, <2>1 DEF Lined
  <2>2. CASE k \in DOMAIN U /\ V[k] = U[k]
    BY <1>2, <1>6, <2>2 DEF Lined
  <2>3. CASE /\ j - a \in DOMAIN P /\ V[j].head = P[j - a]
             /\ k - a \in DOMAIN P /\ V[k].head = P[k - a]
    <3>1. j - a = k - a
      BY <1>6, <2>3, Zenon DEF Lined
    <3> QED
      BY <1>1, <3>1
  <2> QED
    BY <1>2, <2>1, <2>2, <2>3
<1>7. ASSUME NEW j \in DOMAIN V, NEW k \in DOMAIN Q, V[j].head = Q[k]
      PROVE  FALSE
  <2>1. CASE j \in DOMAIN U /\ V[j] = U[j]
    BY <1>2, <1>7, <2>1 DEF Lined
  <2>2. CASE j - a \in DOMAIN P /\ V[j].head = P[j - a] /\ j - a <= n
    <3>1. k + n \in DOMAIN P /\ k + n > n /\ P[j - a] = P[k + n]
      BY <1>2, <1>7, <2>2
    <3>2. j - a = k + n
      BY <2>2, <3>1 DEF Lined
    <3> QED
      BY <1>1, <2>2, <3>1, <3>2
  <2> QED
    BY <1>2, <2>1, <2>2
<1> QED
  BY <1>4, <1>5, <1>6, <1>7, <1>3 DEF Lined

-------------------------------------------------------------------------------
(* What the actions do to the line *)

LEMMA Distance ==
  ASSUME NEW i \in Idx, NEW j \in Idx
  PROVE  Minus(i, j) \in Nat /\ Minus(i, j) < IdxSpace /\ Minus(i, j) \in 0..IdxSpace
<1>1. Minus(i, j) \in Idx /\ IdxSpace \in Nat
  BY RingsAssumption, MinusCases
<1> QED
  BY <1>1 DEF Idx

\* The completions of a used ring d, reaped up to i and written up to j, and the
\* batch B.
Written(d, i, j, B) == Window(d, i, Minus(j, i)) \o B

LEMMA WrittenAt ==
  ASSUME NEW d \in [Slots -> Completions], NEW i \in Idx, NEW j \in Idx,
         NEW B \in Seq(Completions)
  PROVE  /\ Written(d, i, j, B) \in Seq(Completions)
         /\ Minus(j, i) \in Nat /\ Len(B) \in Nat
         /\ Len(Written(d, i, j, B)) = Minus(j, i) + Len(B)
         /\ \A k \in 1..Minus(j, i) : Written(d, i, j, B)[k] = d[Plus(i, k - 1) % Size]
         /\ \A k \in 1..Len(B) : Written(d, i, j, B)[Minus(j, i) + k] = B[k]
<1> DEFINE u == Minus(j, i)
           W == Window(d, i, u)
<1>1. u \in 0..IdxSpace /\ u \in Nat /\ Len(B) \in Nat
  BY Distance, LenProperties
<1>2. /\ W \in Seq(Completions) /\ Len(W) = u
      /\ \A k \in 1..u : W[k] = d[Plus(i, k - 1) % Size]
  BY <1>1, WindowType
<1> HIDE DEF W, u
<1>3. /\ W \o B \in Seq(Completions) /\ Len(W \o B) = u + Len(B)
      /\ \A k \in 1..(u + Len(B)) : (W \o B)[k] = IF k <= u THEN W[k] ELSE B[k - u]
  <2>1. /\ W \o B \in Seq(Completions) /\ Len(W \o B) = Len(W) + Len(B)
        /\ \A k \in 1..(Len(W) + Len(B)) :
             (W \o B)[k] = IF k <= Len(W) THEN W[k] ELSE B[k - Len(W)]
    BY <1>2, ConcatProperties, Zenon
  <2> QED
    BY <1>2, <2>1
<1>4. ASSUME NEW k \in 1..u
      PROVE  (W \o B)[k] = d[Plus(i, k - 1) % Size]
  BY <1>1, <1>2, <1>3
<1>5. ASSUME NEW k \in 1..Len(B)
      PROVE  (W \o B)[u + k] = B[k]
  <2>1. u + k \in 1..(u + Len(B)) /\ ~(u + k <= u) /\ (u + k) - u = k
    BY <1>1
  <2> QED
    BY <1>3, <2>1
<1>6. Written(d, i, j, B) = W \o B
  BY DEF Written, W, u
<1> QED
  BY <1>1, <1>3, <1>4, <1>5, <1>6 DEF u

\* One completion is reaped.
LEMMA WrittenReap ==
  ASSUME NEW d \in [Slots -> Completions], NEW i \in Idx, NEW j \in Idx, i # j,
         NEW B \in Seq(Completions)
  PROVE  /\ Plus(i, 1) \in Idx
         /\ Len(Written(d, i, j, B)) > 0
         /\ Written(d, i, j, B)[1] = d[i % Size]
         /\ Len(Written(d, Plus(i, 1), j, B)) = Len(Written(d, i, j, B)) - 1
         /\ \A k \in 1..Len(Written(d, Plus(i, 1), j, B)) :
              Written(d, Plus(i, 1), j, B)[k] = Written(d, i, j, B)[k + 1]
<1> DEFINE i1 == Plus(i, 1)
           u == Minus(j, i)
           W == Written(d, i, j, B)
           V == Written(d, i1, j, B)
<1>1. 1 \in 0..IdxSpace /\ IdxSpace \in Nat
  BY RingsAssumption
<1>2. i1 \in Idx
  BY <1>1, PlusCases
<1>3. u \in Nat /\ u < IdxSpace /\ u # 0
  BY Distance, MinusZero
<1>4. Minus(j, i1) = u - 1
  <2>1. 1 \in 0..Minus(j, i)
    BY <1>3
  <2> QED
    BY <2>1, MinusBehind
<1>5. /\ Len(W) = u + Len(B) /\ Len(B) \in Nat
      /\ \A k \in 1..u : W[k] = d[Plus(i, k - 1) % Size]
      /\ \A k \in 1..Len(B) : W[u + k] = B[k]
  BY WrittenAt
<1>6. /\ Len(V) = (u - 1) + Len(B)
      /\ \A k \in 1..(u - 1) : V[k] = d[Plus(i1, k - 1) % Size]
      /\ \A k \in 1..Len(B) : V[(u - 1) + k] = B[k]
  <2>1. /\ Len(V) = Minus(j, i1) + Len(B)
        /\ \A k \in 1..Minus(j, i1) : V[k] = d[Plus(i1, k - 1) % Size]
        /\ \A k \in 1..Len(B) : V[Minus(j, i1) + k] = B[k]
    BY <1>2, WrittenAt, Zenon
  <2> QED
    BY <1>4, <2>1
<1>7. W[1] = d[i % Size]
  <2>1. 1 \in 1..u /\ 1 - 1 = 0
    BY <1>3
  <2>2. Plus(i, 0) = i
    BY MinusZero
  <2> QED
    BY <1>5, <2>1, <2>2
<1> HIDE DEF W, V, u, i1
<1>8. ASSUME NEW k \in 1..Len(V)
      PROVE  V[k] = W[k + 1]
  <2>1. CASE k <= u - 1
    <3>1. k \in 1..(u - 1) /\ k + 1 \in 1..u /\ k - 1 \in Nat /\ 1 + (k - 1) = (k + 1) - 1
      BY <1>3, <1>5, <1>6, <2>1
    <3>2. 1 + (k - 1) <= IdxSpace
      BY <1>1, <1>3, <3>1
    <3>3. Plus(i1, k - 1) = Plus(i, (k + 1) - 1)
      <4>1. Plus(Plus(i, 1), k - 1) = Plus(i, 1 + (k - 1))
        BY <1>1, <3>1, <3>2, PlusPlus
      <4> QED
        BY <3>1, <4>1 DEF i1
    <3> QED
      BY <1>5, <1>6, <3>1, <3>3
  <2>2. CASE ~(k <= u - 1)
    <3> DEFINE m == k - (u - 1)
    <3>1. m \in 1..Len(B) /\ (u - 1) + m = k /\ u + m = k + 1
      BY <1>3, <1>5, <1>6, <2>2
    <3> HIDE DEF m
    <3>2. V[(u - 1) + m] = B[m] /\ W[u + m] = B[m]
      BY <1>5, <1>6, <3>1
    <3> QED
      BY <3>1, <3>2
  <2> QED
    BY <2>1, <2>2
<1> QED
  BY <1>2, <1>3, <1>5, <1>6, <1>7, <1>8 DEF W, V, i1

\* complete_used writes the batch into slots the guest has reaped.
LEMMA WrittenBatch ==
  ASSUME TypeOK, nextUsed = used, Minus(used, seen) + Len(batch) <= Size
  PROVE  /\ WithBatch(batch, nextUsed) \in [Slots -> Completions]
         /\ Plus(used, Len(batch)) \in Idx
         /\ Written(WithBatch(batch, nextUsed), seen, Plus(used, Len(batch)), << >>)
              = Written(done, seen, used, batch)
<1> DEFINE u == Minus(used, seen)
           b == Len(batch)
           D == WithBatch(batch, nextUsed)
           w == Plus(used, b)
           V == Written(D, seen, w, << >>)
           W == Written(done, seen, used, batch)
           ks(s) == {k \in DOMAIN batch : Plus(used, k - 1) % Size = s}
<1>1. /\ used \in Idx /\ seen \in Idx /\ done \in [Slots -> Completions]
      /\ batch \in Seq(Completions)
  BY DEF TypeOK
<1>2. /\ IdxSpace \in Nat /\ Size \in Nat \ {0} /\ Size < IdxSpace /\ b \in Nat /\ u \in Nat
      /\ DOMAIN batch = 1..b /\ u + b <= Size /\ \A k \in 1..b : batch[k] \in Completions
  <2>1. u \in Nat
    BY <1>1, Distance
  <2>2. b \in Nat /\ DOMAIN batch = 1..b /\ \A k \in 1..b : batch[k] \in Completions
    BY <1>1, LenProperties
  <2> QED
    BY <2>1, <2>2, RingsAssumption
<1>3. D = [s \in Slots |-> IF ks(s) = {} THEN done[s] ELSE batch[CHOOSE k \in ks(s) : TRUE]]
  BY DEF WithBatch
<1>4. D \in [Slots -> Completions]
  <2>1. ASSUME NEW s \in Slots
        PROVE  (IF ks(s) = {} THEN done[s] ELSE batch[CHOOSE k \in ks(s) : TRUE]) \in Completions
    BY <1>1, <1>2
  <2> QED
    BY <1>3, <2>1
<1>5. /\ w \in Idx /\ Minus(w, seen) = u + b
  <2>1. b \in 0..IdxSpace
    BY <1>2
  <2>2. w \in Idx
    BY <1>1, <2>1, PlusCases
  <2>3. Minus(used, seen) + b < IdxSpace
    BY <1>2
  <2> QED
    BY <1>1, <1>2, <2>2, <2>3, MinusAhead
<1>6. used = Plus(seen, u)
  BY <1>1, MinusZero
<1> HIDE DEF D, w, u, b
<1>7. ASSUME NEW k \in 1..b
      PROVE  Plus(used, k - 1) = Plus(seen, (u + k) - 1)
  <2>1. k - 1 \in Nat /\ u + (k - 1) <= IdxSpace /\ u + (k - 1) = (u + k) - 1
    BY <1>2
  <2>2. Plus(Plus(seen, u), k - 1) = Plus(seen, u + (k - 1))
    BY <1>1, <1>2, <2>1, PlusPlus
  <2> QED
    BY <1>6, <2>1, <2>2
<1>8. ASSUME NEW j \in 1..(u + b), NEW k \in 1..(u + b),
             Plus(seen, j - 1) % Size = Plus(seen, k - 1) % Size
      PROVE  j = k
  <2>1. j - 1 \in Nat /\ k - 1 \in Nat /\ k - 1 < IdxSpace /\ j - 1 < IdxSpace
    BY <1>2
  <2>2. ~(j < k)
    <3>1. SUFFICES ASSUME j < k PROVE FALSE
      OBVIOUS
    <3>2. j - 1 < k - 1 /\ (k - 1) - (j - 1) < Size
      BY <1>2, <2>1, <3>1
    <3> QED
      BY <1>1, <1>8, <2>1, <3>2, SlotsDiffer
  <2>3. ~(k < j)
    <3>1. SUFFICES ASSUME k < j PROVE FALSE
      OBVIOUS
    <3>2. k - 1 < j - 1 /\ (j - 1) - (k - 1) < Size
      BY <1>2, <2>1, <3>1
    <3> QED
      BY <1>1, <1>8, <2>1, <3>2, SlotsDiffer
  <2> QED
    BY <1>2, <2>2, <2>3
<1>9. ASSUME NEW k \in 1..(u + b)
      PROVE  Plus(seen, k - 1) % Size \in Slots
  <2>1. k - 1 \in 0..IdxSpace
    BY <1>2
  <2> QED
    BY <1>1, <2>1, PlusCases, SlotType
<1>10. /\ V \in Seq(Completions) /\ Len(V) = u + b
       /\ \A k \in 1..(u + b) : V[k] = D[Plus(seen, k - 1) % Size]
  <2>1. << >> \in Seq(Completions) /\ Len(<< >>) = 0
    OBVIOUS
  <2>2. /\ V \in Seq(Completions) /\ Len(V) = Minus(w, seen) + Len(<< >>)
        /\ \A k \in 1..Minus(w, seen) : V[k] = D[Plus(seen, k - 1) % Size]
    BY <1>1, <1>4, <1>5, <2>1, WrittenAt, Zenon
  <2> HIDE DEF V, D, w, u, b
  <2> QED
    BY <1>2, <1>5, <2>1, <2>2
<1>11. /\ W \in Seq(Completions) /\ Len(W) = u + b
       /\ \A k \in 1..u : W[k] = done[Plus(seen, k - 1) % Size]
       /\ \A k \in 1..b : W[u + k] = batch[k]
  BY <1>1, WrittenAt DEF u, b
<1> HIDE DEF V, W
<1>12. ASSUME NEW k \in 1..(u + b)
       PROVE  V[k] = W[k]
  <2> DEFINE s == Plus(seen, k - 1) % Size
  <2>1. s \in Slots
    BY <1>9
  <2>2. CASE k <= u
    <3>1. ks(s) = {}
      <4>1. SUFFICES ASSUME NEW m \in 1..b, Plus(used, m - 1) % Size = s
                     PROVE  FALSE
        BY <1>2
      <4>2. u + m \in 1..(u + b) /\ u + m # k
        BY <1>2, <2>2
      <4> QED
        BY <1>7, <1>8, <4>1, <4>2
    <3>2. D[s] = done[s]
      BY <1>3, <2>1, <3>1
    <3>3. k \in 1..u
      BY <1>2, <2>2
    <3> QED
      BY <1>10, <1>11, <3>2, <3>3
  <2>3. CASE ~(k <= u)
    <3> DEFINE m == k - u
    <3>1. m \in 1..b /\ u + m = k
      BY <1>2, <2>3
    <3> HIDE DEF m
    <3>2. ASSUME NEW l \in 1..b
          PROVE  l \in ks(s) <=> l = m
      <4>1. u + l \in 1..(u + b) /\ (u + l = u + m => l = m)
        BY <1>2, <3>1
      <4>2. Plus(used, l - 1) = Plus(seen, (u + l) - 1) /\ Plus(used, m - 1) = Plus(seen, k - 1)
        BY <1>7, <3>1
      <4> QED
        BY <1>2, <1>8, <3>1, <4>1, <4>2
    <3>3. ks(s) = {m}
      BY <1>2, <3>1, <3>2
    <3>4. D[s] = batch[m]
      BY <1>3, <2>1, <3>3
    <3> QED
      BY <1>10, <1>11, <3>1, <3>4
  <2> QED
    BY <2>2, <2>3
<1>13. V = W
  BY <1>2, <1>10, <1>11, <1>12, SeqEqual
<1> QED
  BY <1>4, <1>5, <1>13 DEF V, W, D, w, b

\* The line of a state of the right type.
LineFacts ==
  /\ Oldest \in Idx
  /\ Unreaped = Written(done, seen, used, batch)
  /\ Pending = Window(heads, Oldest, Minus(avail, Oldest))
  /\ Unreaped \in Seq(Completions) /\ Pending \in Seq(Slots)
  /\ Len(Unreaped) = Minus(used, seen) + Len(batch)
  /\ Len(Pending) = Minus(avail, Oldest)

LEMMA LineType == TypeOK => LineFacts
<1> SUFFICES ASSUME TypeOK PROVE LineFacts
  OBVIOUS
<1>1. /\ used \in Idx /\ seen \in Idx /\ avail \in Idx /\ nextAvail \in Idx
      /\ done \in [Slots -> Completions] /\ heads \in [Slots -> Slots]
      /\ batch \in Seq(Completions) /\ Len(batch) <= Size
  BY DEF TypeOK
<1>2. Oldest \in Idx
  <2>1. Len(batch) \in Nat
    BY <1>1, LenProperties
  <2>2. Len(batch) \in 0..IdxSpace
    BY <1>1, <2>1, RingsAssumption
  <2> QED
    BY <1>1, <2>2, PlusCases DEF Oldest
<1>3. Unreaped = Written(done, seen, used, batch)
  BY DEF Unreaped, Written, Window
<1>4. Pending = Window(heads, Oldest, Minus(avail, Oldest))
  BY DEF Pending, HeadsFrom, Window
<1>5. Unreaped \in Seq(Completions) /\ Len(Unreaped) = Minus(used, seen) + Len(batch)
  BY <1>1, <1>3, WrittenAt
<1>6. Pending \in Seq(Slots) /\ Len(Pending) = Minus(avail, Oldest)
  <2>1. Minus(avail, Oldest) \in 0..IdxSpace
    BY <1>1, <1>2, Distance
  <2>2. heads \in [Slots -> Slots]
    BY <1>1
  <2>3. ASSUME NEW n \in 0..IdxSpace, NEW i \in Idx
        PROVE  Window(heads, i, n) \in Seq(Slots) /\ Len(Window(heads, i, n)) = n
    BY <2>2, WindowType
  <2> QED
    BY <1>2, <1>4, <2>1, <2>3
<1> QED
  BY <1>2, <1>3, <1>4, <1>5, <1>6 DEF LineFacts

LEMMA LineTypeNext == TypeOK' => LineFacts'
BY LineType, PTL

\* The line fits the ring.
LEMMA RingFits ==
  ASSUME RingInv
  PROVE  /\ LineFacts
         /\ Len(Unreaped) + Len(Pending) <= Size
         /\ owed # Slots => Len(Unreaped) + Len(Pending) < Size
         /\ Minus(used, seen) + Len(batch) <= Size /\ Minus(avail, Oldest) <= Size
<1>1. LineFacts
  BY LineType DEF RingInv
<1>2. owed \in SUBSET Slots
  BY DEF RingInv, TypeOK
<1>3. /\ Len(Unreaped) + Len(Pending) <= Size
      /\ owed # Slots => Len(Unreaped) + Len(Pending) < Size
  BY <1>1, <1>2, LineFits DEF RingInv, LineFacts
<1>4. Len(Unreaped) \in Nat /\ Len(Pending) \in Nat
  BY <1>1, LenProperties DEF LineFacts
<1>5. Minus(used, seen) + Len(batch) <= Size /\ Minus(avail, Oldest) <= Size
  BY <1>1, <1>3, <1>4, RingsAssumption DEF LineFacts
<1> QED
  BY <1>1, <1>3, <1>5

\* A service call starts at the oldest chain not yet served, also on a resumed RX
\* ring: its recovery rewinds there.
LEMMA StartIsOldest ==
  ASSUME RingInv, session = "ready", worker # "complete"
  PROVE  Start = Oldest
<1>1. CASE dir # RX
  BY <1>1 DEF Start, Oldest
<1>2. CASE dir = RX
  <2>1. /\ used \in Idx /\ avail \in Idx /\ nextAvail \in Idx /\ nextUsed = used
        /\ batch = << >> /\ Len(batch) = 0
        /\ nextAvail = Plus(used, Len(batch)) \/ nextAvail = avail
    BY <1>2 DEF RingInv, TypeOK, Marks
  <2>2. Oldest = used /\ Plus(used, Len(batch)) = used
    BY <1>2, <2>1, MinusZero DEF Oldest
  <2>3. Minus(avail, used) <= Size
    BY <2>2, RingFits
  <2>4. /\ Minus(avail, used) = 0 <=> avail = used
        /\ Minus(avail, nextAvail) = 0 <=> avail = nextAvail
    BY <2>1, MinusZero
  <2>5. RxStart = used
    <3>1. CASE Minus(avail, nextAvail) = 0 /\ Minus(avail, used) # 0
      BY <2>1, <2>3, <3>1 DEF RxStart, RxStartFrom
    <3>2. CASE Minus(avail, nextAvail) # 0
      BY <2>1, <2>2, <2>4, <3>2 DEF RxStart, RxStartFrom
    <3>3. CASE Minus(avail, nextAvail) = 0 /\ Minus(avail, used) = 0
      BY <2>1, <2>4, <3>3 DEF RxStart, RxStartFrom
    <3> QED
      BY <3>1, <3>2, <3>3
  <2> QED
    BY <1>2, <2>2, <2>5 DEF Start
<1> QED
  BY <1>1, <1>2

-------------------------------------------------------------------------------
(* Types *)

Inv == RingInv /\ RxInv /\ TxInv /\ TxAllInv

\* service_rx serves the first n of the chains P, which begin at index i.
RxTakes(P, i, n) ==
  LET T == Takers(P)
  IN  /\ Rank(T, n) <= Len(queue)
      /\ nextAvail' = Plus(i, n)
      /\ batch' = [k \in 1..n |->
           [head |-> P[k],
            frame |-> IF chain[P[k]].kind = "fit" THEN queue[Rank(T, k)] ELSE 0]]
      /\ dropped' = dropped \cup
           {queue[Rank(T, k)] : k \in {j \in 1..n : chain[P[j]].kind = "small"}}
      /\ queue' = SubSeq(queue, Rank(T, n) + 1, Len(queue))
      /\ sent' = sent

\* A service call serves the pending chains from the oldest on.
LEMMA ServeRx ==
  ASSUME RingInv, Service, Serves, dir = RX
  PROVE  \E n \in 0..Len(Pending) : RxTakes(Pending, Oldest, n)
<1>1. HeadsFrom(Start) = Pending
  <2>1. worker # "complete"
    BY DEF Service
  <2>2. Start = Oldest
    BY <2>1, StartIsOldest DEF Serves
  <2> QED
    BY <2>2 DEF Pending
<1>2. ServiceRx
  BY DEF Service
<1>3. Start = Oldest
  BY StartIsOldest DEF Service, Serves
<1>4. \E n \in 0..Len(HeadsFrom(Start)) : RxTakes(HeadsFrom(Start), Start, n)
  BY <1>2 DEF ServiceRx, RxServes, RxTakes, Filled, Drain, Frame
<1> QED
  BY <1>1, <1>3, <1>4

LEMMA ServeTx ==
  ASSUME RingInv, Service, Serves, dir # RX
  PROVE  LET F == Marked(Pending, {"fit"})
         IN  /\ nextAvail' = avail
             /\ batch' = [k \in 1..Len(Pending) |->
                  [head |-> Pending[k],
                   frame |-> IF k \in F THEN chain[Pending[k]].frame ELSE 0]]
             /\ sent' = sent \o [i \in 1..Cardinality(F) |-> chain[Pending[Nth(F, i)]].frame]
             /\ queue' = queue /\ dropped' = dropped
<1>1. HeadsFrom(Start) = Pending
  <2>1. Start = Oldest
    BY StartIsOldest DEF Service, Serves
  <2> QED
    BY <2>1 DEF Pending
<1>2. ServiceTx
  BY DEF Service
<1> QED
  BY <1>1, <1>2, Zenon DEF ServiceTx

\* The chains of some kinds are positions, and those that take a frame have ranks
\* in the channel.
LEMMA MarkedType ==
  ASSUME NEW P \in Seq(Slots), NEW kinds
  PROVE  /\ Marked(P, kinds) \in SUBSET (1..Len(P)) /\ Len(P) \in Nat
         /\ \A k \in 1..Len(P) : P[k] \in Slots
<1>1. Len(P) \in Nat /\ DOMAIN P = 1..Len(P) /\ \A k \in 1..Len(P) : P[k] \in Slots
  BY LenProperties
<1> QED
  BY <1>1 DEF Marked

LEMMA RankInQueue ==
  ASSUME NEW L \in Nat, NEW S \in SUBSET (1..L), NEW n \in 0..L, NEW q \in Nat,
         Rank(S, n) <= q, NEW k \in S, k <= n
  PROVE  Rank(S, k) \in 1..Rank(S, n) /\ Rank(S, k) \in 1..q
<1>1. n \in Int /\ k \in Int /\ 0 \in Int /\ 0 < k
  OBVIOUS
<1>2. Rank(S, n) \in Nat /\ Rank(S, k) \in Nat /\ Rank(S, 0) = 0
  BY <1>1, RankSpec, Zenon
<1>3. Rank(S, k) <= Rank(S, n) /\ Rank(S, 0) < Rank(S, k)
  BY <1>1, RankSpec
<1> QED
  BY <1>2, <1>3

\* The i-th of a set of positions.
LEMMA NthSpec ==
  ASSUME NEW L \in Nat, NEW S \in SUBSET (1..L), NEW i \in 1..Cardinality(S)
  PROVE  Nth(S, i) \in S /\ Rank(S, Nth(S, i)) = i
<1>1. Rank(S, L) = Cardinality(S) /\ L \in Int
  BY RankSpec
<1>2. i \in 1..Rank(S, L)
  BY <1>1
<1>3. Ranked(S, L, i)
  BY <1>2, RankOnto
<1> QED
  BY <1>3 DEF Nth, Ranked

LEMMA ServiceType ==
  ASSUME Inv, Service
  PROVE  TypeOK'
<1>0. RingInv /\ TypeOK /\ TxInv /\ LineFacts
  BY RingFits DEF Inv, RingInv
<1>1. CASE ~Serves
  <2>1. worker' = "idle" /\ UNCHANGED <<nextAvail, batch, queue, dropped, sent>>
    BY <1>1 DEF Service
  <2> QED
    BY <1>0, <2>1 DEF TypeOK, Service, fixed, guest, events, link
<1>2. CASE Serves
  <2> DEFINE P == Pending
             c == Len(P)
  <2>1. /\ P \in Seq(Slots) /\ c \in Nat /\ \A k \in 1..c : P[k] \in Slots
        /\ queue \in Seq(Frames) /\ Len(queue) \in Nat
        /\ \A k \in 1..Len(queue) : queue[k] \in Frames
        /\ c <= Size
    <3>1. P \in Seq(Slots) /\ queue \in Seq(Frames) /\ c = Minus(avail, Oldest)
      BY <1>0 DEF LineFacts, TypeOK
    <3>2. c <= Size
      BY <1>0, <3>1, RingFits
    <3> QED
      BY <3>1, <3>2, LenProperties
  <2> HIDE DEF P, c
  <2>2. ASSUME nextAvail' \in Idx, queue' \in Seq(Frames), sent' \in Seq(Frames),
               dropped' \subseteq Frames, batch' \in Seq(Completions), Len(batch') <= Size
        PROVE  TypeOK'
    <3>1. worker' = "complete"
      BY <1>2 DEF Service
    <3> QED
      BY <1>0, <2>2, <3>1 DEF TypeOK, Service, fixed, guest, events, link
  <2>3. ASSUME NEW n \in 0..c, NEW e \in [1..n -> Frames \cup {0}],
               batch' = [k \in 1..n |-> [head |-> P[k], frame |-> e[k]]]
        PROVE  batch' \in Seq(Completions) /\ Len(batch') <= Size
    <3>1. \A k \in 1..n : [head |-> P[k], frame |-> e[k]] \in Completions
      BY <2>1, <2>3 DEF Completions
    <3>2. n \in Nat /\ n <= Size
      BY <2>1, RingsAssumption
    <3>3. batch' \in [1..n -> Completions]
      BY <2>3, <3>1
    <3>4. batch' \in Seq(Completions) /\ Len(batch') = n
      BY <3>2, <3>3, LenProperties
    <3> QED
      BY <3>2, <3>4
  <2>4. CASE dir = RX
    <3> DEFINE T == Takers(P)
    <3>0. PICK n \in 0..c : RxTakes(P, Oldest, n)
      BY <1>0, <1>2, <2>4, ServeRx DEF P, c
    <3>1. /\ Rank(T, n) <= Len(queue)
          /\ nextAvail' = Plus(Oldest, n)
          /\ batch' = [k \in 1..n |->
               [head |-> P[k],
                frame |-> IF chain[P[k]].kind = "fit" THEN queue[Rank(T, k)] ELSE 0]]
          /\ dropped' = dropped \cup
               {queue[Rank(T, k)] : k \in {j \in 1..n : chain[P[j]].kind = "small"}}
          /\ queue' = SubSeq(queue, Rank(T, n) + 1, Len(queue))
          /\ sent' = sent
      BY <3>0 DEF RxTakes
    <3>2. T \in SUBSET (1..c)
      BY <2>1, MarkedType DEF Takers, c
    <3>3. ASSUME NEW k \in 1..n, chain[P[k]].kind \in {"fit", "small"}
          PROVE  k \in T
      <4>1. k \in DOMAIN P
        BY <2>1, LenProperties DEF c
      <4> QED
        BY <3>3, <4>1 DEF Takers, Marked
    <3>4. ASSUME NEW k \in 1..n, k \in T
          PROVE  queue[Rank(T, k)] \in Frames
      <4>1. k <= n
        OBVIOUS
      <4> HIDE DEF T
      <4>2. Rank(T, k) \in 1..Len(queue)
        BY <2>1, <3>1, <3>2, <3>4, <4>1, RankInQueue
      <4> QED
        BY <2>1, <4>2
    <3>5. nextAvail' \in Idx
      <4>1. n \in 0..IdxSpace
        BY <2>1, RingsAssumption
      <4> QED
        BY <1>0, <3>1, <4>1, PlusCases DEF LineFacts
    <3>6. dropped' \subseteq Frames
      BY <1>0, <3>1, <3>3, <3>4 DEF TypeOK
    <3>7. queue' \in Seq(Frames)
      <4>1. Rank(T, n) \in Nat
        BY <2>1, <3>2, RankSpec
      <4>2. \A k \in (Rank(T, n) + 1)..Len(queue) : queue[k] \in Frames
        BY <2>1, <4>1
      <4> QED
        BY <2>1, <3>1, <4>1, <4>2, SubSeqProperties
    <3>8. batch' \in Seq(Completions) /\ Len(batch') <= Size
      <4> DEFINE e == [k \in 1..n |-> IF chain[P[k]].kind = "fit" THEN queue[Rank(T, k)] ELSE 0]
      <4>1. e \in [1..n -> Frames \cup {0}]
        BY <3>3, <3>4
      <4>2. batch' = [k \in 1..n |-> [head |-> P[k], frame |-> e[k]]]
        BY <3>1
      <4> HIDE DEF e
      <4> QED
        BY <2>3, <4>1, <4>2
    <3>9. sent' \in Seq(Frames)
      BY <1>0, <3>1 DEF TypeOK
    <3> QED
      BY <2>2, <3>5, <3>6, <3>7, <3>8, <3>9
  <2>5. CASE dir # RX
    <3> DEFINE F == Marked(P, {"fit"})
               X == [i \in 1..Cardinality(F) |-> chain[P[Nth(F, i)]].frame]
    <3>1. /\ nextAvail' = avail
          /\ batch' = [k \in 1..c |->
               [head |-> P[k], frame |-> IF k \in F THEN chain[P[k]].frame ELSE 0]]
          /\ sent' = sent \o X
          /\ queue' = queue /\ dropped' = dropped
      BY <1>0, <1>2, <2>5, ServeTx, Zenon DEF P, c
    <3>2. F \in SUBSET (1..c)
      BY <2>1, MarkedType DEF c
    <3>3. ASSUME NEW k \in 1..c
          PROVE  chain[P[k]].frame \in Frames
      <4>1. dir = TX /\ posts \in 0..MaxPosts
        BY <1>0, <2>5 DEF TypeOK, RX, TX
      <4>2. k \in DOMAIN Pending
        BY <2>1, LenProperties DEF P, c
      <4>3. chain[P[k]].frame \in 1..posts
        BY <1>0, <4>1, <4>2 DEF TxInv, P
      <4> QED
        BY <4>1, <4>3, RingsAssumption DEF Frames
    <3>4. sent' \in Seq(Frames)
      <4>1. Cardinality(F) \in Nat
        <5>1. IsFiniteSet(F)
          BY <2>1, <3>2, RankSpec
        <5> QED
          BY <5>1, FS_CardinalityType
      <4>2. ASSUME NEW i \in 1..Cardinality(F)
            PROVE  chain[P[Nth(F, i)]].frame \in Frames
        <5>1. Nth(F, i) \in F
          BY <2>1, <3>2, NthSpec
        <5> QED
          BY <3>2, <3>3, <5>1
      <4>3. X \in [1..Cardinality(F) -> Frames]
        BY <4>2
      <4>4. X \in Seq(Frames)
        BY <4>1, <4>3
      <4>5. sent \in Seq(Frames)
        BY <1>0 DEF TypeOK
      <4> QED
        BY <3>1, <4>4, <4>5, ConcatProperties
    <3>5. batch' \in Seq(Completions) /\ Len(batch') <= Size
      <4> DEFINE e == [k \in 1..c |-> IF k \in F THEN chain[P[k]].frame ELSE 0]
      <4>1. e \in [1..c -> Frames \cup {0}]
        BY <3>3
      <4>2. c \in 0..c
        BY <2>1
      <4>3. batch' = [k \in 1..c |-> [head |-> P[k], frame |-> e[k]]]
        BY <3>1
      <4> HIDE DEF e
      <4> QED
        BY <2>3, <4>1, <4>2, <4>3
    <3>6. nextAvail' \in Idx /\ queue' \in Seq(Frames) /\ dropped' \subseteq Frames
      BY <1>0, <3>1 DEF TypeOK
    <3> QED
      BY <2>2, <3>4, <3>5, <3>6
  <2> QED
    BY <2>4, <2>5
<1> QED
  BY <1>1, <1>2

LEMMA PostType ==
  ASSUME TypeOK, NEW h \in Slots, NEW kind \in Kinds, Post(h, kind)
  PROVE  TypeOK'
<1>1. avail \in Idx /\ posts \in 0..MaxPosts /\ posts < MaxPosts
  BY DEF TypeOK, Post
<1>2. avail' \in Idx /\ avail % Size \in Slots
  <2>1. 1 \in 0..IdxSpace
    BY RingsAssumption
  <2> QED
    BY <1>1, <2>1, PlusCases, SlotType DEF Post
<1>3. posts' \in 0..MaxPosts /\ posts + 1 \in Frames
  BY <1>1, RingsAssumption DEF Post, Frames
<1>4. heads' \in [Slots -> Slots]
  BY <1>2 DEF Post, TypeOK
<1>5. chain' \in [Slots -> [kind : Kinds, frame : Frames \cup {0}]]
  <2>1. [kind |-> kind, frame |-> IF dir = TX THEN posts + 1 ELSE 0]
          \in [kind : Kinds, frame : Frames \cup {0}]
    BY <1>3
  <2> QED
    BY <2>1 DEF Post, TypeOK
<1>6. kick' \in BOOLEAN /\ woken' \in BOOLEAN
  BY Zenon DEF Post
<1>7. owed' \subseteq Slots /\ offered' \subseteq Frames
  BY <1>3 DEF Post, TypeOK
<1> QED
  BY <1>2, <1>3, <1>4, <1>5, <1>6, <1>7
     DEF Post, TypeOK, fixed, device, link, traffic

LEMMA ReapType ==
  ASSUME TypeOK, Reap
  PROVE  TypeOK'
<1>1. seen' \in Idx /\ seen % Size \in Slots
  <2>1. 1 \in 0..IdxSpace /\ seen \in Idx
    BY RingsAssumption DEF TypeOK
  <2> QED
    BY <2>1, PlusCases, SlotType DEF Reap
<1>2. done[seen % Size] \in Completions
  BY <1>1 DEF TypeOK
<1>3. got' \in Seq(Frames)
  <2>1. got \in Seq(Frames)
    BY DEF TypeOK
  <2>2. CASE dir = RX /\ done[seen % Size].frame # 0
    <3>1. done[seen % Size].frame \in Frames
      BY <1>2, <2>2 DEF Completions
    <3>2. got' = Append(got, done[seen % Size].frame)
      BY <2>2 DEF Reap
    <3> QED
      BY <2>1, <3>1, <3>2, AppendProperties
  <2>3. CASE ~(dir = RX /\ done[seen % Size].frame # 0)
    BY <2>1, <2>3 DEF Reap
  <2> QED
    BY <2>2, <2>3
<1>4. owed' \subseteq Slots
  BY DEF Reap, TypeOK
<1> QED
  BY <1>1, <1>3, <1>4 DEF Reap, TypeOK, fixed, device, events, link, traffic

LEMMA InjectType ==
  ASSUME TypeOK, Inject
  PROVE  TypeOK'
<1>1. injected \in 0..MaxFrames /\ injected < MaxFrames /\ queue \in Seq(Frames)
  BY DEF TypeOK, Inject
<1>2. injected' \in 0..MaxFrames /\ injected + 1 \in Frames
  BY <1>1, RingsAssumption DEF Inject, Frames
<1>3. queue' \in Seq(Frames)
  BY <1>1, <1>2, AppendProperties DEF Inject
<1>4. notify' \in BOOLEAN /\ woken' \in BOOLEAN
  BY Zenon DEF Inject
<1> QED
  BY <1>2, <1>3, <1>4 DEF Inject, TypeOK, fixed, guest, device, link

LEMMA CompleteType ==
  ASSUME RingInv, CompleteUsed
  PROVE  TypeOK'
<1>1. TypeOK /\ nextUsed = used /\ Minus(used, seen) + Len(batch) <= Size
  BY RingFits DEF RingInv, Marks
<1>2. done' \in [Slots -> Completions] /\ used' \in Idx /\ nextUsed' \in Idx
  BY <1>1, WrittenBatch DEF CompleteUsed, TypeOK
<1>3. batch' \in Seq(Completions) /\ Len(batch') <= Size
  <2>1. batch' = << >>
    BY DEF CompleteUsed
  <2> QED
    BY <2>1, RingsAssumption
<1> QED
  BY <1>1, <1>2, <1>3 DEF CompleteUsed, TypeOK, fixed, guest, events, link, traffic

\* A forgotten worker whose rings were stopped drains the notifier and nothing else.
LEMMA GhostDrains ==
  ASSUME RingInv, NEW g \in DOMAIN ghosts, GhostEvent(g)
  PROVE  /\ notify' = FALSE /\ woken' = FALSE
         /\ UNCHANGED <<fixed, guest, device, kick, link, traffic>>
<1>1. ~ghosts[g].ready
  BY DEF RingInv, Marks
<1> QED
  BY <1>1 DEF GhostEvent, device, link, traffic

LEMMA TypeNext ==
  ASSUME Inv, [Next]_vars
  PROVE  TypeOK'
<1>0. TypeOK /\ RingInv
  BY DEF Inv, RingInv
<1>1. CASE TakeEvent
  BY <1>0, <1>1 DEF TakeEvent, TypeOK, fixed, guest, link, traffic
<1>2. CASE Service
  BY <1>2, ServiceType
<1>3. CASE CompleteUsed
  BY <1>0, <1>3, CompleteType
<1>4. CASE \E h \in Slots, kind \in Kinds : Post(h, kind)
  BY <1>0, <1>4, PostType
<1>5. CASE Reap
  BY <1>0, <1>5, ReapType
<1>6. CASE Inject
  BY <1>0, <1>6, InjectType
<1>7. CASE Connect
  <2>1. sessions' \in 0..MaxSessions
    BY <1>0, <1>7, RingsAssumption DEF Connect, TypeOK
  <2> QED
    BY <1>0, <1>7, <2>1 DEF Connect, TypeOK, fixed, guest, device, events, traffic
<1>8. CASE UpdateMemory
  BY <1>0, <1>8 DEF UpdateMemory, TypeOK, fixed, guest, device, events, traffic
<1>9. CASE SetVrings
  BY <1>0, <1>9 DEF SetVrings, TypeOK, fixed, guest, traffic
<1>10. ASSUME NEW end \in Ends, Disconnect(end)
      PROVE  TypeOK'
  <2>1. ghosts' \in Seq([ready : BOOLEAN, nextAvail : Idx, nextUsed : Idx])
    <3> DEFINE G == [ready : BOOLEAN, nextAvail : Idx, nextUsed : Idx]
               e == IF end = "abrupt" /\ session = "ready" /\ dir = RX
                    THEN [ready |-> TRUE, nextAvail |-> nextAvail, nextUsed |-> nextUsed]
                    ELSE Stopped
    <3>1. 0 \in Idx /\ nextAvail \in Idx /\ nextUsed \in Idx
      BY <1>0, RingsAssumption DEF TypeOK, Idx
    <3>2. e \in G /\ ghosts \in Seq(G) /\ ghosts' = Append(ghosts, e)
      BY <1>0, <1>10, <3>1 DEF Disconnect, Stopped, TypeOK
    <3> HIDE DEF G, e
    <3>3. ghosts' \in Seq(G)
      BY <3>2, AppendProperties
    <3> QED
      BY <3>3 DEF G
  <2> QED
    BY <1>0, <1>10, <2>1 DEF Disconnect, TypeOK, fixed, guest, device, traffic
<1>11. ASSUME NEW g \in DOMAIN ghosts, GhostEvent(g)
      PROVE  TypeOK'
  BY <1>0, <1>11, GhostDrains DEF TypeOK, fixed, guest, device, link, traffic
<1>12. CASE UNCHANGED vars
  BY <1>0, <1>12 DEF TypeOK, vars, fixed, guest, device, events, link, traffic
<1> QED
  BY <1>1, <1>2, <1>3, <1>4, <1>5, <1>6, <1>7, <1>8, <1>9, <1>10, <1>11, <1>12
     DEF Next, Worker

-------------------------------------------------------------------------------
(* The steps as moves of the line *)

Kept == Unreaped' = Unreaped /\ Pending' = Pending

Posted(h) ==
  /\ Unreaped' = Unreaped
  /\ Len(Pending') = Len(Pending) + 1 /\ Pending'[Len(Pending')] = h
  /\ \A k \in 1..Len(Pending) : Pending'[k] = Pending[k]

Reaped ==
  /\ Pending' = Pending
  /\ Len(Unreaped) > 0 /\ Len(Unreaped') = Len(Unreaped) - 1
  /\ Unreaped[1] = done[seen % Size]
  /\ \A k \in 1..Len(Unreaped') : Unreaped'[k] = Unreaped[k + 1]

Served(n) ==
  /\ n \in 0..Len(Pending) /\ Len(batch') = n
  /\ Len(Unreaped') = Len(Unreaped) + n
  /\ \A k \in 1..Len(Unreaped) : Unreaped'[k] = Unreaped[k]
  /\ \A k \in 1..n : Unreaped'[Len(Unreaped) + k] = batch'[k]
  /\ Len(Pending') = Len(Pending) - n
  /\ \A k \in 1..Len(Pending') : Pending'[k] = Pending[k + n]

LEMMA PostMove ==
  ASSUME RingInv, Orderly, NEW h \in Slots, NEW kind, Post(h, kind), LineFacts'
  PROVE  Posted(h) /\ Marks'
<1> DEFINE p == Minus(avail, Oldest)
<1>1. /\ LineFacts /\ Oldest \in Idx /\ avail \in Idx /\ heads \in [Slots -> Slots]
      /\ IdxSpace \in Nat /\ Size \in Nat \ {0} /\ Size < IdxSpace
  BY RingFits, RingsAssumption DEF RingInv, TypeOK, LineFacts
<1>2. p \in Nat /\ p < Size
  <2>1. owed # Slots /\ Len(Unreaped) \in Nat
    BY <1>1, LenProperties DEF Post, LineFacts
  <2>2. Len(Unreaped) + p < Size
    BY <1>1, <2>1, RingFits DEF LineFacts
  <2>3. p \in Nat
    BY <1>1, Distance
  <2> QED
    BY <1>1, <2>1, <2>2, <2>3
<1>3. Oldest' = Oldest /\ heads' = [heads EXCEPT ![avail % Size] = h]
  BY DEF Post, Oldest, device, fixed
<1>4. Minus(avail', Oldest) = p + 1
  <2>1. p + 1 < IdxSpace /\ 1 \in Nat
    BY <1>1, <1>2
  <2> QED
    BY <1>1, <2>1, MinusAhead DEF Post
<1>5. Plus(Oldest, p) = avail /\ avail % Size \in Slots
  BY <1>1, MinusZero, SlotType
<1>6. Unreaped' = Unreaped
  BY DEF Post, Unreaped, device
<1>7. Len(Pending) = p /\ Len(Pending') = p + 1
  BY <1>1, <1>3, <1>4 DEF LineFacts
<1>8. /\ Pending = [k \in 1..p |-> heads[Plus(Oldest, k - 1) % Size]]
      /\ Pending' = [k \in 1..(p + 1) |-> heads'[Plus(Oldest, k - 1) % Size]]
  BY <1>1, <1>3, <1>4 DEF LineFacts, Window
<1> HIDE DEF p
<1>9. ASSUME NEW k \in 1..p
      PROVE  Pending'[k] = Pending[k]
  <2>1. k - 1 \in Nat /\ k - 1 < p /\ p - (k - 1) < Size /\ p < IdxSpace /\ k \in 1..(p + 1)
    BY <1>1, <1>2
  <2>2. Plus(Oldest, k - 1) % Size # avail % Size
    BY <1>1, <1>2, <1>5, <2>1, SlotsDiffer
  <2>3. Plus(Oldest, k - 1) % Size \in Slots
    <3>1. k - 1 \in 0..IdxSpace
      BY <1>1, <1>2, <2>1
    <3> QED
      BY <1>1, <3>1, PlusCases, SlotType
  <2> QED
    BY <1>1, <1>3, <1>8, <2>1, <2>2, <2>3
<1>10. Pending'[p + 1] = h
  <2>1. p + 1 \in 1..(p + 1) /\ (p + 1) - 1 = p
    BY <1>2
  <2> QED
    BY <1>1, <1>3, <1>5, <1>8, <2>1
<1>11. Posted(h)
  BY <1>6, <1>7, <1>9, <1>10 DEF Posted
<1>12. Marks'
  <2>1. dir = RX /\ session = "ready" => nextAvail = Plus(used, Len(batch))
    <3>1. CASE QuietResume
      <4>1. SUFFICES ASSUME dir = RX, session = "ready", worker # "complete", nextAvail = avail
                     PROVE  nextAvail = Plus(used, Len(batch))
        BY DEF RingInv, Marks
      <4>2. Start = nextAvail
        BY <3>1, <4>1 DEF Post, InRecovery
      <4> QED
        BY <4>1, <4>2, StartIsOldest DEF Oldest
    <3>2. CASE ~QuietResume
      BY <3>2, RingsAssumption DEF Orderly, RingInv, Marks, TypeOK
    <3> QED
      BY <3>1, <3>2
  <2> QED
    BY <2>1 DEF RingInv, Marks, Post, device, fixed, link
<1> QED
  BY <1>11, <1>12

LEMMA ReapMove ==
  ASSUME RingInv, Reap
  PROVE  Reaped /\ Marks'
<1>1. /\ LineFacts /\ seen \in Idx /\ used \in Idx /\ seen # used
      /\ done \in [Slots -> Completions] /\ batch \in Seq(Completions)
  BY RingFits DEF RingInv, TypeOK, Reap
<1>2. Pending' = Pending
  BY DEF Reap, Pending, HeadsFrom, Oldest, device, fixed
<1>3. Unreaped' = Written(done, Plus(seen, 1), used, batch)
  BY DEF Reap, Unreaped, Written, Window, device
<1>4. Unreaped = Written(done, seen, used, batch)
  BY <1>1 DEF LineFacts
<1>5. Marks'
  BY DEF RingInv, Marks, Reap, device, fixed, link
<1> QED
  BY <1>1, <1>2, <1>3, <1>4, <1>5, WrittenReap DEF Reaped

LEMMA CompleteMove ==
  ASSUME RingInv, CompleteUsed
  PROVE  Kept /\ Marks'
<1> DEFINE w == Plus(used, Len(batch))
<1>1. /\ TypeOK /\ LineFacts /\ nextUsed = used /\ worker = "complete" /\ session = "ready"
      /\ Minus(used, seen) + Len(batch) <= Size
  BY RingFits DEF RingInv, Marks, CompleteUsed
<1>2. w \in Idx /\ Plus(w, 0) = w
  BY <1>1, WrittenBatch, MinusZero
<1>3. used' = w /\ nextUsed' = w /\ batch' = << >> /\ Len(batch') = 0 /\ worker' = "idle"
  <2>1. batch = << >> => w = used
    BY <1>1, MinusZero DEF TypeOK
  <2> QED
    BY <1>1, <2>1 DEF CompleteUsed
<1>4. Unreaped' = Unreaped
  <2>1. Unreaped' = Written(done', seen, used', batch')
    BY DEF CompleteUsed, Unreaped, Written, Window, guest
  <2> QED
    BY <1>1, <1>3, <2>1, WrittenBatch DEF LineFacts, CompleteUsed
<1>5. Pending' = Pending
  <2>1. Oldest' = Oldest
    BY <1>2, <1>3 DEF CompleteUsed, Oldest, fixed
  <2> QED
    BY <2>1 DEF CompleteUsed, Pending, HeadsFrom, guest
<1>6. Marks'
  <2>1. base = "used" \/ dir = RX => nextAvail = w
    BY <1>1 DEF RingInv, Marks
  <2> QED
    BY <1>1, <1>2, <1>3, <2>1 DEF RingInv, Marks, CompleteUsed, fixed, link
<1> QED
  BY <1>4, <1>5, <1>6 DEF Kept

LEMMA ServedBy ==
  ASSUME RingInv, LineFacts', TypeOK', Service, NEW n \in 0..Len(Pending),
         Len(batch') = n, Oldest' = Plus(Oldest, n)
  PROVE  Served(n)
<1> DEFINE p == Minus(avail, Oldest)
           u == Minus(used, seen)
<1>1. /\ LineFacts /\ Oldest \in Idx /\ avail \in Idx /\ used \in Idx /\ seen \in Idx
      /\ heads \in [Slots -> Slots] /\ done \in [Slots -> Completions]
      /\ batch = << >> /\ Len(batch) = 0 /\ batch \in Seq(Completions)
      /\ batch' \in Seq(Completions)
  BY RingFits DEF RingInv, TypeOK, LineFacts, Marks, Service
<1>2. Len(Pending) = p /\ p \in Nat /\ p \in 0..IdxSpace /\ u \in Nat
  BY <1>1, Distance DEF LineFacts
<1>3. UNCHANGED <<avail, heads, seen, used, done>>
  BY DEF Service, guest
<1>4. Minus(avail, Oldest') = p - n
  <2>1. n \in 0..Minus(avail, Oldest)
    BY <1>2
  <2> QED
    BY <1>1, <2>1, MinusBehind
<1>5. Len(Unreaped) = u /\ Len(Unreaped') = u + n
  BY <1>1, <1>2, <1>3 DEF LineFacts
<1>6. /\ \A k \in 1..u : Unreaped[k] = done[Plus(seen, k - 1) % Size]
      /\ \A k \in 1..u : Unreaped'[k] = done[Plus(seen, k - 1) % Size]
      /\ \A k \in 1..n : Unreaped'[u + k] = batch'[k]
  <2>1. Unreaped = Written(done, seen, used, batch) /\ Unreaped' = Written(done, seen, used, batch')
    BY <1>1, <1>3 DEF LineFacts
  <2>2. ASSUME NEW B \in Seq(Completions)
        PROVE  /\ \A k \in 1..u : Written(done, seen, used, B)[k] = done[Plus(seen, k - 1) % Size]
               /\ \A k \in 1..Len(B) : Written(done, seen, used, B)[u + k] = B[k]
    <3>1. done \in [Slots -> Completions] /\ seen \in Idx /\ used \in Idx
      BY <1>1
    <3> QED
      BY <3>1, WrittenAt, Zenon
  <2> HIDE DEF u
  <2> QED
    BY <1>1, <2>1, <2>2
<1>7. Len(Pending') = p - n
  BY <1>3, <1>4 DEF LineFacts
<1>8. \A k \in 1..(p - n) : Pending'[k] = Pending[k + n]
  <2>1. Pending = Window(heads, Oldest, p) /\ Pending' = Window(heads, Plus(Oldest, n), p - n)
    BY <1>1, <1>3, <1>4 DEF LineFacts
  <2>2. n \in 0..p /\ p \in 0..IdxSpace /\ heads \in [Slots -> Slots] /\ Oldest \in Idx
    BY <1>1, <1>2
  <2> HIDE DEF p
  <2>3. \A k \in 1..(p - n) : Window(heads, Plus(Oldest, n), p - n)[k] = Window(heads, Oldest, p)[k + n]
    BY <2>2, WindowDrop, Zenon
  <2> QED
    BY <2>1, <2>3
<1> QED
  BY <1>2, <1>5, <1>6, <1>7, <1>8 DEF Served

LEMMA ServeRxMove ==
  ASSUME RingInv, LineFacts', TypeOK', Service, Serves, dir = RX,
         NEW n \in 0..Len(Pending), RxTakes(Pending, Oldest, n)
  PROVE  Served(n) /\ Marks'
<1>1. /\ used \in Idx /\ Len(batch) = 0 /\ n \in Nat /\ nextAvail' = Plus(Oldest, n)
      /\ worker' = "complete"
  BY RingsAssumption DEF RingInv, TypeOK, Marks, Service, Serves, RxTakes
<1>2. Oldest = used
  BY <1>1, MinusZero DEF Oldest
<1>3. Len(batch') = n
  BY <1>1 DEF RxTakes
<1>4. Oldest' = Plus(used, n) /\ used' = used /\ dir' = dir
  BY <1>3 DEF Service, fixed, Oldest
<1>5. Served(n)
  BY <1>2, <1>3, <1>4, ServedBy
<1>6. Marks'
  BY <1>1, <1>2, <1>3, <1>4 DEF RingInv, Marks, Service, Serves, link, fixed
<1> QED
  BY <1>5, <1>6

LEMMA ServeTxMove ==
  ASSUME RingInv, LineFacts', TypeOK', Service, Serves, dir # RX
  PROVE  Served(Len(Pending)) /\ Marks'
<1> DEFINE p == Len(Pending)
<1>1. /\ used \in Idx /\ avail \in Idx /\ nextAvail \in Idx /\ Len(batch) = 0 /\ worker' = "complete"
      /\ LineFacts
      /\ nextUsed = used /\ (base = "used" => nextAvail = Plus(used, Len(batch)))
  BY RingFits DEF RingInv, TypeOK, Marks, Service, Serves
<1>2. Oldest = nextAvail /\ p = Minus(avail, nextAvail) /\ p \in Nat /\ p \in 0..p
  BY <1>1, Distance DEF Oldest, LineFacts
<1>3. nextAvail' = avail /\ Len(batch') = p
  BY <1>2, ServeTx
<1>4. Plus(nextAvail, p) = avail
  BY <1>1, <1>2, MinusZero
<1>5. Oldest' = avail
  BY <1>3 DEF Service, fixed, Oldest
<1>6. Served(p)
  BY <1>2, <1>3, <1>4, <1>5, ServedBy
<1>7. base = "used" => avail = Plus(used, p)
  BY <1>1, <1>4, MinusZero
<1>8. Marks'
  BY <1>1, <1>3, <1>7 DEF RingInv, Marks, Service, Serves, link, fixed
<1> QED
  BY <1>6, <1>8

\* A resumed session: the line stays, except that a TX ring resumed from the
\* avail index leaves its pending chains behind.
LEMMA SetVringsMove ==
  ASSUME RingInv, SetVrings
  PROVE  /\ Unreaped' = Unreaped /\ Marks'
         /\ Pending' = Pending \/ (dir # RX /\ base # "used" /\ Pending' = << >>)
<1>1. /\ used \in Idx /\ avail \in Idx /\ batch = << >> /\ Len(batch) = 0
      /\ worker # "complete" /\ nextUsed = used /\ base \in {"used", "avail"}
      /\ (base = "used" => nextAvail = Plus(used, Len(batch)))
  BY RingsAssumption DEF RingInv, TypeOK, Marks, SetVrings
<1>2. Plus(used, Len(batch)) = used
  BY <1>1, MinusZero
<1>3. Unreaped' = Unreaped
  BY DEF SetVrings, Unreaped, guest
<1>4. Pending' = Pending \/ (dir # RX /\ base # "used" /\ Pending' = << >>)
  <2>1. CASE dir = RX \/ base = "used"
    <3>1. Oldest' = Oldest
      BY <1>1, <1>2, <2>1 DEF SetVrings, Oldest, fixed
    <3> QED
      BY <3>1 DEF SetVrings, Pending, HeadsFrom, guest
  <2>2. CASE dir # RX /\ base # "used"
    <3>1. Oldest' = avail /\ avail' = avail
      BY <2>2 DEF SetVrings, Oldest, fixed, guest
    <3>2. Minus(avail, avail) = 0
      BY <1>1, MinusZero
    <3>3. 1..0 = {}
      OBVIOUS
    <3>4. Pending' = [k \in 1..0 |-> heads'[Plus(avail, k - 1) % Size]]
      BY <3>1, <3>2 DEF Pending, HeadsFrom
    <3>5. Pending' = << >>
      BY <3>3, <3>4
    <3> QED
      BY <2>2, <3>5
  <2> QED
    BY <2>1, <2>2
<1>5. Marks'
  BY <1>1, <1>2 DEF RingInv, SetVrings, Marks, fixed, guest
<1> QED
  BY <1>3, <1>4, <1>5

\* The steps that leave the ring alone.
LEMMA QuietMove ==
  ASSUME RingInv,
         UNCHANGED <<dir, base, avail, heads, used, done, seen, batch, nextAvail, nextUsed>>,
         worker' = "complete" <=> worker = "complete",
         session' # session => worker # "complete" /\ session' # "ready",
         \A g \in DOMAIN ghosts' : ~ghosts'[g].ready
  PROVE  Kept /\ Marks'
<1>1. Kept
  BY DEF Kept, Unreaped, Pending, HeadsFrom, Oldest
<1>2. Marks'
  BY DEF RingInv, Marks
<1> QED
  BY <1>1, <1>2

LEMMA RingNext ==
  ASSUME Inv, Orderly, [Next]_vars
  PROVE  RingInv'
<1> DEFINE U == Unreaped
           P == Pending
<1>1. /\ RingInv /\ TypeOK /\ LineFacts /\ TypeOK' /\ LineFacts'
      /\ Lined(U, P, owed) /\ (dir = RX => Covered(U, P, owed))
  BY RingFits, TypeNext, LineTypeNext DEF Inv, RingInv
<1>2. /\ U \in Seq(Completions) /\ P \in Seq(Slots) /\ owed \in SUBSET Slots
      /\ U' \in Seq(Completions) /\ P' \in Seq(Slots)
  BY <1>1 DEF LineFacts, TypeOK
<1>3. SUFFICES /\ Marks' /\ Lined(U', P', owed')
               /\ dir' = RX => Covered(U', P', owed')
  BY <1>1 DEF RingInv
<1> HIDE DEF U, P
<1>0. \A g \in DOMAIN ghosts : ~ghosts[g].ready
  BY <1>1 DEF RingInv, Marks
<1>4. ASSUME U' = U, P' = P, owed' = owed, dir' = dir, Marks'
      PROVE  Marks' /\ Lined(U', P', owed') /\ (dir' = RX => Covered(U', P', owed'))
  BY <1>1, <1>4
<1>5. CASE UNCHANGED vars
  <2>1. Kept /\ Marks'
    BY <1>0, <1>1, <1>5, QuietMove DEF vars, fixed, guest, device, link
  <2> QED
    BY <1>4, <1>5, <2>1 DEF Kept, U, P, vars, fixed, guest
<1>6. CASE TakeEvent
  <2>1. Kept /\ Marks'
    BY <1>0, <1>1, <1>6, QuietMove DEF TakeEvent, fixed, guest, device, link
  <2> QED
    BY <1>4, <1>6, <2>1 DEF Kept, U, P, TakeEvent, fixed, guest
<1>7. CASE Inject
  <2>1. Kept /\ Marks'
    BY <1>0, <1>1, <1>7, QuietMove DEF Inject, fixed, guest, device, link
  <2> QED
    BY <1>4, <1>7, <2>1 DEF Kept, U, P, Inject, fixed, guest
<1>8. CASE Connect
  <2>1. worker # "complete"
    BY <1>1, <1>8 DEF Connect, RingInv, Marks
  <2>2. Kept /\ Marks'
    BY <1>0, <1>1, <1>8, <2>1, QuietMove DEF Connect, fixed, guest, device
  <2> QED
    BY <1>4, <1>8, <2>2 DEF Kept, U, P, Connect, fixed, guest
<1>9. CASE UpdateMemory
  <2>1. Kept /\ Marks'
    BY <1>0, <1>1, <1>9, QuietMove DEF UpdateMemory, fixed, guest, device
  <2> QED
    BY <1>4, <1>9, <2>1 DEF Kept, U, P, UpdateMemory, fixed, guest
<1>10. ASSUME NEW end \in Ends, Disconnect(end)
      PROVE  Marks' /\ Lined(U', P', owed') /\ (dir' = RX => Covered(U', P', owed'))
  <2>1. \A g \in DOMAIN ghosts' : ~ghosts'[g].ready
    <3> DEFINE G == [ready : BOOLEAN, nextAvail : Idx, nextUsed : Idx]
    <3>1. ghosts \in Seq(G) /\ ghosts' = Append(ghosts, Stopped)
      BY <1>1, <1>10 DEF Disconnect, Orderly, TypeOK
    <3>2. Stopped \in G
      BY RingsAssumption DEF Stopped, Idx
    <3> HIDE DEF G
    <3>3. /\ DOMAIN ghosts' = 1..(Len(ghosts) + 1) /\ Len(ghosts) \in Nat
          /\ DOMAIN ghosts = 1..Len(ghosts)
          /\ \A g \in 1..Len(ghosts) : ghosts'[g] = ghosts[g]
          /\ ghosts'[Len(ghosts) + 1] = Stopped
      BY <3>1, <3>2, AppendProperties, LenProperties
    <3> QED
      BY <1>0, <3>3 DEF Stopped
  <2>2. Kept /\ Marks'
    BY <1>1, <1>10, <2>1, QuietMove DEF Disconnect, fixed, guest, device
  <2> QED
    BY <1>4, <1>10, <2>2 DEF Kept, U, P, Disconnect, fixed, guest
<1>11. CASE CompleteUsed
  <2>1. Kept /\ Marks'
    BY <1>1, <1>11, CompleteMove
  <2> QED
    BY <1>4, <1>11, <2>1 DEF Kept, U, P, CompleteUsed, fixed, guest
<1>12. CASE SetVrings
  <2>1. /\ U' = U /\ Marks' /\ owed' = owed /\ dir' = dir
        /\ P' = P \/ (dir # RX /\ P' = << >>)
    BY <1>1, <1>12, SetVringsMove DEF U, P, SetVrings, fixed, guest
  <2>2. CASE P' = P
    BY <1>4, <2>1, <2>2
  <2>3. CASE dir # RX /\ P' = << >>
    BY <1>1, <2>1, <2>3 DEF Lined
  <2> QED
    BY <2>1, <2>2, <2>3
<1>13. CASE \E h \in Slots, kind \in Kinds : Post(h, kind)
  <2>1. PICK h \in Slots, kind \in Kinds : Post(h, kind)
    BY <1>13
  <2>2. Posted(h) /\ Marks'
    BY <1>1, <2>1, PostMove
  <2>3. /\ U' = U /\ h \in Slots \ owed /\ owed' = owed \cup {h} /\ dir' = dir
        /\ Len(P') = Len(P) + 1 /\ P'[Len(P')] = h /\ \A k \in 1..Len(P) : P'[k] = P[k]
    BY <2>1, <2>2 DEF Posted, Post, fixed, U, P
  <2>4. /\ Lined(U, P', owed \cup {h})
        /\ Covered(U, P, owed) => Covered(U, P', owed \cup {h})
    BY <1>1, <1>2, <2>3, LinePost
  <2> QED
    BY <1>1, <2>2, <2>3, <2>4
<1>14. CASE Reap
  <2>1. Reaped /\ Marks'
    BY <1>1, <1>14, ReapMove
  <2>2. /\ P' = P /\ owed' = owed \ {U[1].head} /\ dir' = dir /\ Len(U) > 0
        /\ Len(U') = Len(U) - 1 /\ \A k \in 1..Len(U') : U'[k] = U[k + 1]
    BY <1>14, <2>1 DEF Reaped, Reap, fixed, U, P
  <2>3. /\ Lined(U', P, owed \ {U[1].head})
        /\ Covered(U, P, owed) => Covered(U', P, owed \ {U[1].head})
    BY <1>1, <1>2, <2>2, LineReap
  <2> QED
    BY <1>1, <2>1, <2>2, <2>3
<1>15. CASE Service
  <2>1. CASE ~Serves
    <3>1. worker = "serve" /\ worker' = "idle" /\ UNCHANGED <<nextAvail, batch>>
      BY <1>15, <2>1 DEF Service
    <3>2. Kept /\ Marks'
      BY <1>0, <1>1, <1>15, <3>1, QuietMove DEF Service, fixed, guest, link
    <3> QED
      BY <1>4, <1>15, <3>2 DEF Kept, U, P, Service, fixed, guest
  <2>2. ASSUME NEW n, Served(n), Marks', \A k \in 1..n : batch'[k].head = P[k]
        PROVE  Marks' /\ Lined(U', P', owed') /\ (dir' = RX => Covered(U', P', owed'))
    <3>1. /\ n \in 0..Len(P) /\ Len(U') = Len(U) + n /\ Len(P') = Len(P) - n
          /\ \A k \in 1..Len(U) : U'[k] = U[k]
          /\ \A k \in 1..n : U'[Len(U) + k].head = P[k]
          /\ \A k \in 1..Len(P') : P'[k] = P[k + n]
          /\ owed' = owed /\ dir' = dir
      BY <1>15, <2>2 DEF Served, Service, guest, fixed, U, P
    <3>2. Lined(U', P', owed) /\ (Covered(U, P, owed) => Covered(U', P', owed))
      BY <1>1, <1>2, <3>1, LineServe
    <3> QED
      BY <1>1, <2>2, <3>1, <3>2
  <2>3. CASE Serves /\ dir = RX
    <3>1. PICK n \in 0..Len(Pending) : RxTakes(Pending, Oldest, n)
      BY <1>1, <1>15, <2>3, ServeRx
    <3>2. Served(n) /\ Marks'
      BY <1>1, <1>15, <2>3, <3>1, ServeRxMove
    <3>3. \A k \in 1..n : batch'[k].head = P[k]
      BY <3>1 DEF RxTakes, P
    <3> QED
      BY <2>2, <3>2, <3>3
  <2>4. CASE Serves /\ dir # RX
    <3>1. Served(Len(Pending)) /\ Marks'
      BY <1>1, <1>15, <2>4, ServeTxMove
    <3>2. \A k \in 1..Len(Pending) : batch'[k].head = P[k]
      BY <1>1, <1>15, <2>4, ServeTx DEF P
    <3> QED
      BY <2>2, <3>1, <3>2
  <2> QED
    BY <2>1, <2>3, <2>4
<1>16. ASSUME NEW g \in DOMAIN ghosts, GhostEvent(g)
      PROVE  Marks' /\ Lined(U', P', owed') /\ (dir' = RX => Covered(U', P', owed'))
  <2>1. UNCHANGED <<fixed, guest, device, link>>
    BY <1>1, <1>16, GhostDrains
  <2>2. Kept /\ Marks'
    BY <1>0, <1>1, <2>1, QuietMove DEF fixed, guest, device, link
  <2> QED
    BY <1>4, <2>1, <2>2 DEF Kept, U, P, fixed, guest
<1> QED
  BY <1>5, <1>6, <1>7, <1>8, <1>9, <1>10, <1>11, <1>12, <1>13, <1>14, <1>15, <1>16
     DEF Next, Worker

-------------------------------------------------------------------------------
(* Frames from the guest *)

LEMMA FrameType ==
  ASSUME NEW s \in Seq(Frames)
  PROVE  /\ Len(s) \in Nat /\ DOMAIN s = 1..Len(s)
         /\ \A k \in DOMAIN s : s[k] \in Frames /\ s[k] \in Int /\ 0 < s[k]
<1>1. \A f \in Frames : f \in Int /\ 0 < f
  BY RingsAssumption DEF Frames
<1>2. Len(s) \in Nat /\ DOMAIN s = 1..Len(s) /\ \A k \in DOMAIN s : s[k] \in Frames
  BY LenProperties
<1> QED
  BY <1>1, <1>2

\* The frames of the chains at positions F of P.
FramesOf(P, F, C) == [i \in 1..Cardinality(F) |-> C[P[Nth(F, i)]].frame]

\* Every chain of P carries a frame.
Carries(P, C) == \A k \in DOMAIN P : C[P[k]].frame \in Frames

\* W is S and the frames of P at F, in order.
HandedOver(W, S, P, F, C) ==
  /\ Increasing(W)
  /\ \A j \in DOMAIN W : \/ j \in DOMAIN S /\ W[j] = S[j]
                         \/ \E k \in F : W[j] = C[P[k]].frame
  /\ \A k \in DOMAIN S : \E j \in DOMAIN W : W[j] = S[k]
  /\ \A k \in F : \E j \in DOMAIN W : W[j] = C[P[k]].frame

\* A service call hands over the frames of the pending chains in their order.
LEMMA TxServe ==
  ASSUME NEW S \in Seq(Frames), NEW P \in Seq(Slots), NEW C, TxOrder(S, P, C),
         Carries(P, C),
         NEW F \in SUBSET (1..Len(P)), NEW W \in Seq(Frames), W = S \o FramesOf(P, F, C)
  PROVE  HandedOver(W, S, P, F, C)
<1> DEFINE c == Cardinality(F)
           m == Len(S)
           X == [i \in 1..c |-> C[P[Nth(F, i)]].frame]
<1>1. m \in Nat /\ DOMAIN S = 1..m /\ Len(P) \in Nat /\ DOMAIN P = 1..Len(P)
  BY LenProperties
<1>2. c \in Nat
  <2>1. IsFiniteSet(F)
    BY <1>1, RankSpec
  <2> QED
    BY <2>1, FS_CardinalityType
<1>3. ASSUME NEW i \in 1..c
      PROVE  /\ Nth(F, i) \in DOMAIN P /\ Nth(F, i) \in F /\ Nth(F, i) \in Int
             /\ Rank(F, Nth(F, i)) = i /\ X[i] = C[P[Nth(F, i)]].frame
  <2>1. Nth(F, i) \in F /\ Rank(F, Nth(F, i)) = i
    BY <1>1, NthSpec
  <2>2. X[i] = C[P[Nth(F, i)]].frame
    OBVIOUS
  <2>3. Nth(F, i) \in 1..Len(P)
    BY <2>1
  <2> HIDE DEF X
  <2> QED
    BY <1>1, <2>1, <2>2, <2>3
<1>4. ASSUME NEW i \in 1..c, NEW j \in 1..c, i < j
      PROVE  Nth(F, i) < Nth(F, j)
  <2>1. Nth(F, j) <= Nth(F, i) => Rank(F, Nth(F, j)) <= Rank(F, Nth(F, i))
    <3>1. Nth(F, i) \in Int /\ Nth(F, j) \in Int
      BY <1>3
    <3> QED
      BY <1>1, <3>1, RankSpec
  <2>2. Nth(F, i) \in Int /\ Nth(F, j) \in Int /\ ~(j <= i)
    BY <1>3, <1>4
  <2> QED
    BY <1>3, <2>1, <2>2
<1>5. X \in Seq(Frames) /\ Len(X) = c
  <2>1. X \in [1..c -> Frames]
    BY <1>3 DEF Carries
  <2> HIDE DEF X, c
  <2> QED
    BY <1>2, <2>1
<1> HIDE DEF X, c, m
<1>6. /\ Len(W) = m + c /\ DOMAIN W = 1..(m + c)
      /\ \A k \in 1..(m + c) : W[k] = IF k <= m THEN S[k] ELSE X[k - m]
  <2>1. W = S \o X
    BY DEF X, c, FramesOf
  <2>2. /\ Len(S \o X) = Len(S) + Len(X)
        /\ \A k \in 1..(Len(S) + Len(X)) :
             (S \o X)[k] = IF k <= Len(S) THEN S[k] ELSE X[k - Len(S)]
    BY <1>5, ConcatProperties, Zenon
  <2>3. DOMAIN W = 1..Len(W)
    BY LenProperties
  <2> QED
    BY <1>5, <2>1, <2>2, <2>3 DEF m
<1>7. ASSUME NEW k \in DOMAIN W
      PROVE  /\ k \in Int
             /\ k <= m => k \in DOMAIN S /\ W[k] = S[k]
             /\ ~(k <= m) => k - m \in 1..c /\ W[k] = X[k - m]
  <2>0. \A l \in 1..(m + c) : l \in Int
    OBVIOUS
  <2>1. k \in 1..(m + c) /\ k \in Int
    BY <1>6, <2>0, Zenon
  <2>2. W[k] = IF k <= m THEN S[k] ELSE X[k - m]
    BY <1>6, <2>1, Zenon
  <2>3. (k <= m => k \in 1..m) /\ (~(k <= m) => k - m \in 1..c)
    BY <1>1, <1>2, <2>1
  <2> QED
    BY <1>1, <2>1, <2>2, <2>3, Zenon
<1>8. ASSUME NEW j \in DOMAIN W, NEW k \in DOMAIN W, j < k
      PROVE  W[j] < W[k]
  <2>1. CASE k <= m
    BY <1>1, <1>7, <1>8, <2>1 DEF TxOrder, Increasing
  <2>2. CASE j <= m /\ ~(k <= m)
    <3>1. W[j] = S[j] /\ j \in DOMAIN S /\ k - m \in 1..c /\ W[k] = X[k - m]
      BY <1>7, <2>2, Zenon
    <3> QED
      BY <1>3, <3>1 DEF TxOrder
  <2>3. CASE ~(j <= m)
    <3>0. j \in Int /\ k \in Int /\ m \in Int
      BY <1>1, <1>7
    <3>1. /\ j - m \in 1..c /\ k - m \in 1..c /\ j - m < k - m
          /\ W[j] = X[j - m] /\ W[k] = X[k - m]
      <4>1. ~(k <= m) /\ j - m < k - m
        BY <1>8, <2>3, <3>0
      <4> QED
        BY <1>7, <2>3, <4>1, Zenon
    <3>2. Nth(F, j - m) < Nth(F, k - m)
      BY <1>4, <3>1
    <3> QED
      BY <1>3, <3>1, <3>2 DEF TxOrder
  <2> QED
    BY <1>1, <1>7, <2>1, <2>2, <2>3
<1>9. ASSUME NEW j \in DOMAIN W
      PROVE  \/ j \in DOMAIN S /\ W[j] = S[j]
             \/ \E k \in F : W[j] = C[P[k]].frame
  BY <1>3, <1>7
<1>10. ASSUME NEW k \in DOMAIN S
       PROVE  \E j \in DOMAIN W : W[j] = S[k]
  <2>1. k \in 1..(m + c) /\ k <= m
    BY <1>1, <1>2
  <2>2. k \in DOMAIN W /\ W[k] = S[k]
    BY <1>6, <2>1
  <2> QED
    BY <2>2
<1>11. ASSUME NEW k \in F
       PROVE  \E j \in DOMAIN W : W[j] = C[P[k]].frame
  <2> DEFINE i == Rank(F, k)
  <2>1. k \in Int /\ 0 < k /\ k <= Len(P) /\ Len(P) \in Int
    BY <1>1
  <2>2. i \in 1..c
    <3>1. /\ Rank(F, 0) = 0 /\ Rank(F, 0) < i /\ i <= Rank(F, Len(P)) /\ i \in Nat
          /\ Rank(F, Len(P)) = c
      BY <1>1, <2>1, RankSpec DEF c
    <3> QED
      BY <1>2, <3>1
  <2> HIDE DEF i
  <2>3. Nth(F, i) \in F /\ Nth(F, i) \in Int /\ Rank(F, Nth(F, i)) = i
    BY <1>3, <2>2
  <2>4. Nth(F, i) = k
    <3>1. /\ Nth(F, i) < k => Rank(F, Nth(F, i)) < Rank(F, k)
          /\ k < Nth(F, i) => Rank(F, k) < Rank(F, Nth(F, i))
      BY <1>1, <2>1, <2>3, RankSpec
    <3>2. Rank(F, k) = i /\ i \in Int
      BY <2>2 DEF i
    <3> QED
      BY <2>1, <2>3, <3>1, <3>2
  <2>5. X[i] = C[P[k]].frame
    BY <1>3, <2>2, <2>4
  <2>6. m + i \in 1..(m + c) /\ ~(m + i <= m) /\ (m + i) - m = i
    BY <1>1, <1>2, <2>2
  <2>7. m + i \in DOMAIN W /\ W[m + i] = X[i]
    BY <1>6, <2>6
  <2> QED
    BY <2>5, <2>7
<1> QED
  BY <1>8, <1>9, <1>10, <1>11 DEF Increasing, HandedOver

\* The driver's next transmission is newer than all before it.
LEMMA TxPost ==
  ASSUME NEW S \in Seq(Frames), NEW P \in Seq(Slots), NEW Q \in Seq(Slots), NEW h \in Slots,
         NEW C, NEW D, NEW n \in Nat, TxOrder(S, P, C),
         \A k \in DOMAIN S : S[k] <= n,
         \A k \in DOMAIN P : C[P[k]].frame \in 1..n,
         Len(Q) = Len(P) + 1, Q[Len(Q)] = h,
         \A k \in 1..Len(P) : Q[k] = P[k] /\ D[P[k]] = C[P[k]],
         D[h].frame = n + 1
  PROVE  /\ TxOrder(S, Q, D)
         /\ \A k \in DOMAIN Q : D[Q[k]].frame \in 1..(n + 1)
<1> DEFINE c == Len(P)
<1>1. c \in Nat /\ DOMAIN P = 1..c /\ DOMAIN Q = 1..(c + 1) /\ Q[c + 1] = h
  BY LenProperties
<1>0. \A k \in DOMAIN S : S[k] \in Int
  BY FrameType
<1> HIDE DEF c
<1>2. ASSUME NEW k \in DOMAIN Q
      PROVE  \/ k \in DOMAIN P /\ k < c + 1 /\ D[Q[k]].frame = C[P[k]].frame
             \/ k = c + 1 /\ D[Q[k]].frame = n + 1
  <2>1. CASE k = c + 1
    BY <1>1, <2>1
  <2>2. CASE k # c + 1
    <3>1. k \in 1..c /\ k < c + 1
      BY <1>1, <2>2
    <3> QED
      BY <1>1, <3>1 DEF c
  <2> QED
    BY <2>1, <2>2
<1>3. \A k \in DOMAIN Q : D[Q[k]].frame \in 1..(n + 1)
  BY <1>2
<1>4. ASSUME NEW j \in DOMAIN Q, NEW k \in DOMAIN Q, j < k
      PROVE  D[Q[j]].frame < D[Q[k]].frame
  <2>1. j \in DOMAIN P /\ D[Q[j]].frame = C[P[j]].frame /\ C[P[j]].frame \in 1..n
    BY <1>1, <1>2, <1>4
  <2>2. CASE k = c + 1
    <3>1. D[Q[k]].frame = n + 1
      BY <1>1, <2>2
    <3> QED
      BY <2>1, <3>1
  <2>3. CASE k \in DOMAIN P /\ D[Q[k]].frame = C[P[k]].frame
    BY <1>4, <2>1, <2>3 DEF TxOrder
  <2> QED
    BY <1>2, <2>2, <2>3
<1>5. ASSUME NEW j \in DOMAIN S, NEW k \in DOMAIN Q
      PROVE  S[j] < D[Q[k]].frame
  <2>1. CASE k = c + 1
    <3>1. D[Q[k]].frame = n + 1 /\ S[j] <= n /\ S[j] \in Int
      BY <1>0, <1>1, <2>1
    <3> QED
      BY <3>1
  <2>2. CASE k \in DOMAIN P /\ D[Q[k]].frame = C[P[k]].frame
    BY <2>2 DEF TxOrder
  <2> QED
    BY <1>2, <2>1, <2>2
<1> QED
  BY <1>3, <1>4, <1>5 DEF TxOrder

LEMMA TxNext ==
  ASSUME Inv, Orderly, [Next]_vars
  PROVE  TxInv'
<1> DEFINE P == Pending
<1>1. /\ RingInv /\ TypeOK /\ LineFacts /\ TypeOK' /\ LineFacts' /\ TxInv
      /\ P \in Seq(Slots) /\ P' \in Seq(Slots) /\ sent \in Seq(Frames) /\ sent' \in Seq(Frames)
      /\ posts \in Nat
  <2>1. /\ RingInv /\ TypeOK /\ LineFacts /\ TypeOK' /\ LineFacts' /\ TxInv
    BY RingFits, TypeNext, LineTypeNext DEF Inv, RingInv
  <2>2. P \in Seq(Slots) /\ P' \in Seq(Slots)
    BY <2>1 DEF LineFacts
  <2>3. sent \in Seq(Frames) /\ sent' \in Seq(Frames) /\ posts \in Nat
    BY <2>1, RingsAssumption DEF TypeOK
  <2> QED
    BY <2>1, <2>2, <2>3
<1>2. dir' = dir
  BY DEF Next, Worker, TakeEvent, Service, CompleteUsed, Post, Reap, Inject, Connect,
         UpdateMemory, SetVrings, Disconnect, GhostEvent, vars, fixed
<1> SUFFICES ASSUME dir = TX
             PROVE  /\ TxOrder(sent', P', chain')
                    /\ \A k \in DOMAIN sent' : sent'[k] <= posts'
                    /\ \A k \in DOMAIN P' : chain'[P'[k]].frame \in 1..posts'
  BY <1>2 DEF TxInv
<1>3. /\ dir # RX /\ TxOrder(sent, P, chain)
      /\ \A k \in DOMAIN sent : sent[k] <= posts
      /\ \A k \in DOMAIN P : chain[P[k]].frame \in 1..posts
  BY <1>1 DEF TxInv, RX, TX
<1> HIDE DEF P
<1>4. ASSUME P' = P, UNCHANGED <<sent, chain, posts>>
      PROVE  /\ TxOrder(sent', P', chain')
             /\ \A k \in DOMAIN sent' : sent'[k] <= posts'
             /\ \A k \in DOMAIN P' : chain'[P'[k]].frame \in 1..posts'
  BY <1>3, <1>4
<1>5. ASSUME P' = << >>, Increasing(sent'), \A k \in DOMAIN sent' : sent'[k] <= posts'
      PROVE  /\ TxOrder(sent', P', chain')
             /\ \A k \in DOMAIN sent' : sent'[k] <= posts'
             /\ \A k \in DOMAIN P' : chain'[P'[k]].frame \in 1..posts'
  <2>1. DOMAIN P' = {}
    BY <1>5
  <2> QED
    BY <1>5, <2>1 DEF TxOrder
<1>6. CASE \E h \in Slots, kind \in Kinds : Post(h, kind)
  <2>1. PICK h \in Slots, kind \in Kinds : Post(h, kind)
    BY <1>6
  <2>2. /\ Len(P') = Len(P) + 1 /\ P'[Len(P')] = h /\ \A k \in 1..Len(P) : P'[k] = P[k]
    BY <1>1, <2>1, PostMove DEF Posted, P
  <2>3. /\ chain' = [chain EXCEPT ![h] = [kind |-> kind, frame |-> posts + 1]]
        /\ h \notin owed /\ posts' = posts + 1 /\ sent' = sent
    BY <2>1 DEF Post, traffic
  <2>4. chain'[h].frame = posts + 1
    BY <1>1, <2>3 DEF TypeOK
  <2>5. ASSUME NEW k \in 1..Len(P)
        PROVE  P'[k] = P[k] /\ chain'[P[k]] = chain[P[k]]
    <3>1. P[k] \in owed /\ P[k] \in Slots
      BY <1>1, LenProperties DEF RingInv, Lined, P
    <3> QED
      BY <1>1, <2>2, <2>3, <3>1 DEF TypeOK
  <2>6. /\ TxOrder(sent, P', chain')
        /\ \A k \in DOMAIN P' : chain'[P'[k]].frame \in 1..(posts + 1)
    BY <1>1, <1>3, <2>2, <2>4, <2>5, TxPost
  <2>7. \A k \in DOMAIN sent : sent[k] <= posts + 1
    BY <1>1, <1>3, FrameType
  <2> QED
    BY <2>3, <2>6, <2>7
<1>7. CASE Service /\ Serves
  <2> DEFINE F == Marked(P, {"fit"})
  <2>1. /\ sent' = sent \o [i \in 1..Cardinality(F) |-> chain[P[Nth(F, i)]].frame]
        /\ posts' = posts
    BY <1>1, <1>3, <1>7, ServeTx DEF P, Service, guest
  <2>2. F \in SUBSET (1..Len(P)) /\ Len(P) \in Nat
    BY <1>1, MarkedType
  <2>3. Carries(P, chain)
    <3>1. posts \in 0..MaxPosts
      BY <1>1 DEF TypeOK
    <3>2. \A f \in 1..posts : f \in Frames
      BY <3>1, RingsAssumption DEF Frames
    <3> QED
      BY <1>3, <3>2 DEF Carries
  <2> HIDE DEF F
  <2>4. /\ Increasing(sent')
        /\ \A j \in DOMAIN sent' : \/ j \in DOMAIN sent /\ sent'[j] = sent[j]
                                   \/ \E k \in DOMAIN P : sent'[j] = chain[P[k]].frame
    <3>1. /\ sent \in Seq(Frames) /\ sent' \in Seq(Frames) /\ P \in Seq(Slots)
          /\ TxOrder(sent, P, chain) /\ F \in SUBSET (1..Len(P))
          /\ sent' = sent \o FramesOf(P, F, chain)
      BY <1>1, <1>3, <2>1, <2>2, Zenon DEF FramesOf
    <3>2. HandedOver(sent', sent, P, F, chain)
      BY <2>3, <3>1, TxServe
    <3>3. \A k \in F : k \in DOMAIN P
      BY <1>1, <2>2, LenProperties
    <3> QED
      BY <3>2, <3>3 DEF HandedOver
  <2>5. \A j \in DOMAIN sent' : sent'[j] <= posts'
    <3>1. ASSUME NEW j \in DOMAIN sent'
          PROVE  sent'[j] <= posts
      <4>1. CASE j \in DOMAIN sent /\ sent'[j] = sent[j]
        BY <1>3, <4>1
      <4>2. CASE \E k \in DOMAIN P : sent'[j] = chain[P[k]].frame
        <5>1. sent'[j] \in 1..posts
          BY <1>3, <4>2
        <5> QED
          BY <1>1, <5>1
      <4> QED
        BY <2>4, <4>1, <4>2
    <3> QED
      BY <2>1, <3>1
  <2>6. P' = << >>
    <3>1. Len(P') = Len(P) - Len(P)
      BY <1>1, <1>3, <1>7, ServeTxMove DEF Served, P
    <3>2. Len(P') = 0
      BY <2>2, <3>1
    <3> QED
      BY <1>1, <3>2
  <2> QED
    BY <1>5, <2>4, <2>5, <2>6
<1>8. CASE SetVrings
  <2>1. /\ P' = P \/ P' = << >>
        /\ UNCHANGED <<sent, chain, posts>>
    BY <1>1, <1>8, SetVringsMove DEF P, SetVrings, guest, traffic
  <2> QED
    BY <1>3, <1>4, <1>5, <2>1 DEF TxOrder
<1>9. CASE \/ TakeEvent \/ Inject \/ Connect \/ UpdateMemory \/ UNCHANGED vars
           \/ (\E end \in Ends : Disconnect(end)) \/ (\E g \in DOMAIN ghosts : GhostEvent(g))
           \/ (Service /\ ~Serves)
  <2>1. /\ UNCHANGED <<avail, heads, nextAvail>> /\ UNCHANGED <<sent, chain, posts>>
    BY <1>1, <1>9, GhostDrains DEF TakeEvent, Inject, Connect, UpdateMemory, Disconnect,
       Service, vars, guest, device, traffic
  <2>2. P' = P
    BY <1>2, <1>3, <2>1 DEF P, Pending, HeadsFrom, Oldest
  <2> QED
    BY <1>4, <2>1, <2>2
<1>10. CASE CompleteUsed
  <2>1. P' = P /\ UNCHANGED <<sent, chain, posts>>
    BY <1>1, <1>10, CompleteMove DEF Kept, P, CompleteUsed, guest, traffic
  <2> QED
    BY <1>4, <2>1
<1>11. CASE Reap
  <2>1. P' = P /\ UNCHANGED <<sent, chain, posts>>
    BY <1>1, <1>11, ReapMove DEF Reaped, P, Reap, traffic
  <2> QED
    BY <1>4, <2>1
<1> QED
  BY <1>6, <1>7, <1>8, <1>9, <1>10, <1>11 DEF Next, Worker

\* No transmission is forgotten when sessions resume at the used index.
LEMMA TxAllNext ==
  ASSUME Inv, Orderly, [Next]_vars
  PROVE  TxAllInv'
<1> DEFINE P == Pending
<1>1. RingInv /\ TypeOK /\ LineFacts /\ TypeOK' /\ LineFacts' /\ TxInv /\ TxAllInv
  BY RingFits, TypeNext, LineTypeNext DEF Inv, RingInv
<1>2. /\ P \in Seq(Slots) /\ P' \in Seq(Slots) /\ Len(P) \in Nat /\ DOMAIN P = 1..Len(P)
      /\ DOMAIN P' = 1..Len(P')
  BY <1>1, LenProperties DEF LineFacts
<1>3. sent \in Seq(Frames) /\ sent' \in Seq(Frames) /\ posts \in 0..MaxPosts
  BY <1>1 DEF TypeOK
<1>4. dir' = dir /\ base' = base
  BY DEF Next, Worker, TakeEvent, Service, CompleteUsed, Post, Reap, Inject, Connect,
         UpdateMemory, SetVrings, Disconnect, GhostEvent, vars, fixed
<1> SUFFICES ASSUME dir = TX, base = "used"
             PROVE  TxAll(sent', P', chain', offered')
  BY <1>4 DEF TxAllInv
<1>5. /\ dir # RX /\ TxAll(sent, P, chain, offered) /\ TxOrder(sent, P, chain)
      /\ \A k \in DOMAIN P : chain[P[k]].frame \in 1..posts
  BY <1>1 DEF TxInv, TxAllInv, RX, TX
<1> HIDE DEF P
<1>6. ASSUME P' = P, UNCHANGED <<sent, chain, offered>>
      PROVE  TxAll(sent', P', chain', offered')
  BY <1>5, <1>6
<1>7. CASE \E h \in Slots, kind \in Kinds : Post(h, kind)
  <2>1. PICK h \in Slots, kind \in Kinds : Post(h, kind)
    BY <1>7
  <2>2. /\ Len(P') = Len(P) + 1 /\ P'[Len(P')] = h /\ \A k \in 1..Len(P) : P'[k] = P[k]
    BY <1>1, <2>1, PostMove DEF Posted, P
  <2>3. /\ chain' = [chain EXCEPT ![h] = [kind |-> kind, frame |-> posts + 1]]
        /\ h \notin owed /\ sent' = sent
        /\ offered' = IF kind = "fit" THEN offered \cup {posts + 1} ELSE offered
    BY <2>1 DEF Post, traffic
  <2>4. chain'[h] = [kind |-> kind, frame |-> posts + 1]
    BY <1>1, <2>3 DEF TypeOK
  <2>5. \A k \in 1..Len(P) : P'[k] = P[k] /\ chain'[P[k]] = chain[P[k]]
    <3>1. \A k \in 1..Len(P) : P[k] \in owed /\ P[k] \in Slots
      BY <1>1, <1>2 DEF RingInv, Lined, P
    <3> QED
      BY <1>1, <2>2, <2>3, <3>1 DEF TypeOK
  <2>6. \A k \in DOMAIN P' : k \in 1..Len(P) \/ (k = Len(P') /\ P'[k] = h)
    BY <1>2, <2>2
  <2>7. Len(P') \in DOMAIN P' /\ \A k \in 1..Len(P) : k \in DOMAIN P'
    BY <1>2, <2>2
  <2>8. ASSUME NEW f \in Frames
        PROVE  (\E k \in DOMAIN P' : chain'[P'[k]].kind = "fit" /\ chain'[P'[k]].frame = f)
                 <=> \/ \E k \in DOMAIN P : chain[P[k]].kind = "fit" /\ chain[P[k]].frame = f
                     \/ kind = "fit" /\ f = posts + 1
    BY <1>2, <2>2, <2>4, <2>5, <2>6, <2>7
  <2> QED
    BY <1>5, <2>3, <2>8 DEF TxAll
<1>8. CASE Service /\ Serves
  <2> DEFINE F == Marked(P, {"fit"})
  <2>1. /\ sent' = sent \o [i \in 1..Cardinality(F) |-> chain[P[Nth(F, i)]].frame]
        /\ offered' = offered
    BY <1>1, <1>5, <1>8, ServeTx DEF P, Service, guest
  <2>2. F \in SUBSET (1..Len(P))
    BY <1>1, <1>2, MarkedType
  <2>3. \A k \in DOMAIN P : k \in F <=> chain[P[k]].kind = "fit"
    BY DEF Marked
  <2>4. Carries(P, chain)
    <3>1. \A f \in 1..posts : f \in Frames
      BY <1>3, RingsAssumption DEF Frames
    <3> QED
      BY <1>5, <3>1 DEF Carries
  <2> HIDE DEF F
  <2>5. HandedOver(sent', sent, P, F, chain)
    <3>1. sent' = sent \o FramesOf(P, F, chain)
      BY <2>1 DEF FramesOf
    <3> QED
      BY <1>2, <1>3, <1>5, <2>2, <2>4, <3>1, TxServe
  <2>6. ASSUME NEW f \in Frames
        PROVE  (\E j \in DOMAIN sent' : sent'[j] = f)
                 <=> \/ \E k \in DOMAIN sent : sent[k] = f
                     \/ \E k \in F : chain[P[k]].frame = f
    BY <2>5 DEF HandedOver
  <2>7. DOMAIN P' = {}
    <3>1. Len(P') = Len(P) - Len(P)
      BY <1>1, <1>5, <1>8, ServeTxMove DEF Served, P
    <3> QED
      BY <1>2, <3>1
  <2>8. \A k \in F : k \in DOMAIN P
    BY <1>2, <2>2
  <2>9. ASSUME NEW f \in Frames
        PROVE  f \in offered <=> \E j \in DOMAIN sent' : sent'[j] = f
    <3>1. f \in offered <=>
            \/ \E k \in DOMAIN sent : sent[k] = f
            \/ \E k \in DOMAIN P : chain[P[k]].kind = "fit" /\ chain[P[k]].frame = f
      BY <1>5 DEF TxAll
    <3> QED
      BY <2>3, <2>6, <2>8, <3>1
  <2> QED
    BY <2>1, <2>7, <2>9 DEF TxAll
<1>9. CASE SetVrings
  <2>1. P' = P /\ UNCHANGED <<sent, chain, offered>>
    BY <1>1, <1>9, SetVringsMove DEF P, SetVrings, guest, traffic
  <2> QED
    BY <1>6, <2>1
<1>10. CASE \/ TakeEvent \/ Inject \/ Connect \/ UpdateMemory \/ UNCHANGED vars
            \/ (\E end \in Ends : Disconnect(end)) \/ (\E g \in DOMAIN ghosts : GhostEvent(g))
            \/ (Service /\ ~Serves)
  <2>1. /\ UNCHANGED <<avail, heads, nextAvail>> /\ UNCHANGED <<sent, chain, offered>>
    BY <1>1, <1>10, GhostDrains DEF TakeEvent, Inject, Connect, UpdateMemory, Disconnect,
       Service, vars, guest, device, traffic
  <2>2. P' = P
    BY <1>4, <1>5, <2>1 DEF P, Pending, HeadsFrom, Oldest
  <2> QED
    BY <1>6, <2>1, <2>2
<1>11. CASE CompleteUsed
  <2>1. P' = P /\ UNCHANGED <<sent, chain, offered>>
    BY <1>1, <1>11, CompleteMove DEF Kept, P, CompleteUsed, guest, traffic
  <2> QED
    BY <1>6, <2>1
<1>12. CASE Reap
  <2>1. P' = P /\ UNCHANGED <<sent, chain, offered>>
    BY <1>1, <1>12, ReapMove DEF Reaped, P, Reap, traffic
  <2> QED
    BY <1>6, <2>1
<1> QED
  BY <1>7, <1>8, <1>9, <1>10, <1>11, <1>12 DEF Next, Worker

-------------------------------------------------------------------------------
(* Frames to the guest *)

\* A completion carries a frame or 0.
LEMMA CarriedType ==
  ASSUME NEW U \in Seq(Completions)
  PROVE  /\ Len(U) \in Nat /\ DOMAIN U = 1..Len(U)
         /\ \A k \in DOMAIN U : U[k].frame \in Int /\ 0 <= U[k].frame
                                /\ (U[k].frame # 0 => U[k].frame \in Frames)
<1>1. \A f \in Frames : f \in Int /\ 0 < f
  BY RingsAssumption DEF Frames
<1>2. Len(U) \in Nat /\ DOMAIN U = 1..Len(U) /\ \A k \in DOMAIN U : U[k] \in Completions
  BY LenProperties
<1>3. \A k \in DOMAIN U : U[k].frame \in Frames \cup {0}
  BY <1>2 DEF Completions
<1> QED
  BY <1>1, <1>2, <1>3

LEMMA RxReap ==
  ASSUME NEW G \in Seq(Frames), NEW H \in Seq(Frames), NEW Q \in Seq(Frames),
         NEW U \in Seq(Completions), NEW V \in Seq(Completions), NEW A,
         RxFlow(G, U, Q, A), Len(U) > 0,
         Len(V) = Len(U) - 1, \A k \in 1..Len(V) : V[k] = U[k + 1],
         H = IF U[1].frame # 0 THEN Append(G, U[1].frame) ELSE G
  PROVE  RxFlow(H, V, Q, A)
<1> DEFINE a == Len(U)
           g == Len(G)
           f1 == U[1].frame
<1>1. /\ a \in Nat /\ a > 0 /\ DOMAIN U = 1..a /\ DOMAIN V = 1..(a - 1)
      /\ g \in Nat /\ DOMAIN G = 1..g
  BY CarriedType, FrameType
<1>2. /\ \A k \in DOMAIN U : U[k].frame \in Int /\ 0 <= U[k].frame
      /\ \A k \in DOMAIN V : V[k].frame \in Int /\ 0 <= V[k].frame
      /\ \A k \in DOMAIN G : G[k] \in Int /\ 0 < G[k]
      /\ \A k \in DOMAIN Q : Q[k] \in Int /\ 0 < Q[k]
  BY CarriedType, FrameType
<1>3. 1 \in DOMAIN U /\ f1 \in Int /\ 0 <= f1 /\ (f1 # 0 => f1 \in Frames)
  <2>1. 1 \in DOMAIN U
    BY <1>1
  <2> QED
    BY <2>1, CarriedType
<1> HIDE DEF a, g, f1
<1>4. ASSUME NEW k \in DOMAIN V
      PROVE  k \in Int /\ k + 1 \in DOMAIN U /\ 1 < k + 1 /\ V[k] = U[k + 1]
  BY <1>1 DEF a
<1>5. ASSUME NEW k \in DOMAIN U, k # 1
      PROVE  k - 1 \in DOMAIN V /\ V[k - 1] = U[k]
  <2>1. k - 1 \in 1..(a - 1) /\ (k - 1) + 1 = k
    BY <1>1, <1>5
  <2> QED
    BY <1>1, <2>1 DEF a
<1>6. \/ f1 = 0 /\ H = G
      \/ /\ f1 # 0 /\ Len(H) = g + 1 /\ DOMAIN H = 1..(g + 1) /\ H[g + 1] = f1
         /\ \A k \in 1..g : H[k] = G[k]
  <2>1. CASE f1 = 0
    BY <2>1 DEF f1
  <2>2. CASE f1 # 0
    <3>1. H = Append(G, f1) /\ f1 \in Frames
      BY <1>3, <2>2 DEF f1
    <3>2. /\ Len(Append(G, f1)) = Len(G) + 1
          /\ \A k \in 1..Len(G) : Append(G, f1)[k] = G[k]
          /\ Append(G, f1)[Len(G) + 1] = f1
      BY <3>1, AppendProperties
    <3>3. DOMAIN H = 1..Len(H)
      BY LenProperties
    <3> QED
      BY <2>2, <3>1, <3>2, <3>3 DEF g
  <2> QED
    BY <2>1, <2>2
<1>7. ASSUME NEW k \in DOMAIN H
      PROVE  \/ k \in DOMAIN G /\ H[k] = G[k]
             \/ f1 # 0 /\ k = g + 1 /\ H[k] = f1
  BY <1>1, <1>6
<1>8. \A k \in DOMAIN G : k \in DOMAIN H /\ H[k] = G[k] /\ k < g + 1
  BY <1>1, <1>6
<1>9. /\ \A j, k \in DOMAIN G : j < k => G[j] < G[k]
      /\ \A j, k \in DOMAIN Q : j < k => Q[j] < Q[k]
      /\ \A j, k \in DOMAIN U : j < k /\ U[j].frame # 0 /\ U[k].frame # 0
                                => U[j].frame < U[k].frame
      /\ \A j \in DOMAIN G, k \in DOMAIN U : U[k].frame # 0 => G[j] < U[k].frame
      /\ \A j \in DOMAIN G, k \in DOMAIN Q : G[j] < Q[k]
      /\ \A j \in DOMAIN U, k \in DOMAIN Q : U[j].frame < Q[k]
  BY DEF RxFlow, RxOrder, Increasing
<1>10. ASSUME NEW j \in DOMAIN H, NEW k \in DOMAIN H, j < k
       PROVE  H[j] < H[k]
  <2>1. j \in DOMAIN G /\ H[j] = G[j]
    <3>1. ~(j = g + 1)
      BY <1>1, <1>6, <1>10
    <3> QED
      BY <1>7, <3>1
  <2>2. CASE k \in DOMAIN G /\ H[k] = G[k]
    BY <1>9, <1>10, <2>1, <2>2
  <2>3. CASE f1 # 0 /\ H[k] = f1
    BY <1>3, <1>9, <2>1, <2>3 DEF f1
  <2> QED
    BY <1>7, <2>2, <2>3
<1>11. ASSUME NEW j \in DOMAIN V, NEW k \in DOMAIN V, j < k, V[j].frame # 0, V[k].frame # 0
       PROVE  V[j].frame < V[k].frame
  <2>1. j + 1 < k + 1
    BY <1>4, <1>11
  <2> QED
    BY <1>4, <1>9, <1>11, <2>1
<1>12. ASSUME NEW j \in DOMAIN H, NEW k \in DOMAIN V, V[k].frame # 0
       PROVE  H[j] < V[k].frame
  <2>1. k + 1 \in DOMAIN U /\ 1 < k + 1 /\ V[k] = U[k + 1]
    BY <1>4
  <2>2. CASE j \in DOMAIN G /\ H[j] = G[j]
    BY <1>9, <1>12, <2>1, <2>2
  <2>3. CASE f1 # 0 /\ H[j] = f1
    BY <1>3, <1>9, <1>12, <2>1, <2>3 DEF f1
  <2> QED
    BY <1>7, <2>2, <2>3
<1>13. ASSUME NEW j \in DOMAIN H, NEW k \in DOMAIN Q
       PROVE  H[j] < Q[k]
  <2>2. CASE j \in DOMAIN G /\ H[j] = G[j]
    BY <1>9, <2>2
  <2>3. CASE f1 # 0 /\ H[j] = f1
    BY <1>3, <1>9, <2>3 DEF f1
  <2> QED
    BY <1>7, <2>2, <2>3
<1>14. ASSUME NEW j \in DOMAIN V, NEW k \in DOMAIN Q
       PROVE  V[j].frame < Q[k]
  BY <1>4, <1>9
<1>15. RxOrder(H, V, Q)
  BY <1>9, <1>10, <1>11, <1>12, <1>13, <1>14 DEF RxOrder, Increasing
<1>16. ASSUME NEW f \in Frames
       PROVE  ((\E k \in DOMAIN G : G[k] = f) \/ (\E k \in DOMAIN U : U[k].frame = f))
                <=> ((\E k \in DOMAIN H : H[k] = f) \/ (\E k \in DOMAIN V : V[k].frame = f))
  <2>0. f # 0
    BY RingsAssumption DEF Frames
  <2>1. ASSUME NEW k \in DOMAIN G, G[k] = f
        PROVE  \E l \in DOMAIN H : H[l] = f
    BY <1>8, <2>1
  <2>2. ASSUME NEW k \in DOMAIN U, U[k].frame = f
        PROVE  (\E l \in DOMAIN H : H[l] = f) \/ (\E l \in DOMAIN V : V[l].frame = f)
    <3>1. CASE k = 1
      <4>1. f1 = f /\ g + 1 \in DOMAIN H /\ H[g + 1] = f1
        BY <1>1, <1>6, <2>0, <2>2, <3>1 DEF f1
      <4> QED
        BY <4>1
    <3>2. CASE k # 1
      BY <1>5, <2>2, <3>2
    <3> QED
      BY <3>1, <3>2
  <2>3. ASSUME NEW k \in DOMAIN H, H[k] = f
        PROVE  (\E l \in DOMAIN G : G[l] = f) \/ (\E l \in DOMAIN U : U[l].frame = f)
    BY <1>3, <1>7, <2>3 DEF f1
  <2>4. ASSUME NEW k \in DOMAIN V, V[k].frame = f
        PROVE  \E l \in DOMAIN U : U[l].frame = f
    BY <1>4, <2>4
  <2> QED
    BY <2>1, <2>2, <2>3, <2>4
<1>17. RxAll(H, V, Q, A)
  <2>1. RxAll(G, U, Q, A)
    BY DEF RxFlow
  <2> QED
    BY <1>16, <2>1, Zenon DEF RxAll
<1> QED
  BY <1>15, <1>17 DEF RxFlow

LEMMA RxInject ==
  ASSUME NEW G \in Seq(Frames), NEW Q \in Seq(Frames), NEW U \in Seq(Completions),
         NEW n \in Nat, n + 1 \in Frames, NEW D \in SUBSET (1..n),
         RxFlow(G, U, Q, (1..n) \ D)
  PROVE  RxFlow(G, U, Append(Q, n + 1), (1..(n + 1)) \ D)
<1> DEFINE R == Append(Q, n + 1)
           q == Len(Q)
<1>1. /\ q \in Nat /\ DOMAIN Q = 1..q /\ DOMAIN R = 1..(q + 1)
      /\ R[q + 1] = n + 1 /\ \A k \in 1..q : R[k] = Q[k]
  <2>1. /\ R \in Seq(Frames) /\ Len(R) = q + 1
        /\ R[q + 1] = n + 1 /\ \A k \in 1..q : R[k] = Q[k]
    BY AppendProperties
  <2> HIDE DEF R
  <2> QED
    BY <2>1, FrameType
<1>2. /\ \A k \in DOMAIN U : U[k].frame \in Int /\ 0 <= U[k].frame
                             /\ (U[k].frame # 0 => U[k].frame \in Frames)
      /\ \A k \in DOMAIN G : G[k] \in Int /\ G[k] \in Frames
      /\ \A k \in DOMAIN Q : Q[k] \in Int /\ Q[k] \in Frames
  BY CarriedType, FrameType
<1> HIDE DEF R, q
<1>3. RxAll(G, U, Q, (1..n) \ D) /\ RxOrder(G, U, Q)
  BY DEF RxFlow
<1>4. /\ \A k \in DOMAIN G : G[k] \in 1..n
      /\ \A k \in DOMAIN U : U[k].frame # 0 => U[k].frame \in 1..n
      /\ \A k \in DOMAIN Q : Q[k] \in 1..n
  BY <1>2, <1>3, Zenon DEF RxAll
<1>5. ASSUME NEW k \in DOMAIN R
      PROVE  \/ k \in DOMAIN Q /\ k < q + 1 /\ R[k] = Q[k]
             \/ k = q + 1 /\ R[k] = n + 1
  BY <1>1
<1>6. \A k \in DOMAIN Q : k \in DOMAIN R /\ R[k] = Q[k]
  BY <1>1
<1>7. ASSUME NEW j \in DOMAIN R, NEW k \in DOMAIN R, j < k
      PROVE  R[j] < R[k]
  <2>1. j \in DOMAIN Q /\ R[j] = Q[j] /\ R[j] \in 1..n
    BY <1>1, <1>4, <1>5, <1>7
  <2>2. CASE k = q + 1 /\ R[k] = n + 1
    BY <2>1, <2>2
  <2>3. CASE k \in DOMAIN Q /\ R[k] = Q[k]
    BY <1>3, <1>7, <2>1, <2>3 DEF RxOrder, Increasing
  <2> QED
    BY <1>5, <2>2, <2>3
<1>8. ASSUME NEW j \in DOMAIN G, NEW k \in DOMAIN R
      PROVE  G[j] < R[k]
  <2>2. CASE k = q + 1 /\ R[k] = n + 1
    BY <1>4, <2>2
  <2>3. CASE k \in DOMAIN Q /\ R[k] = Q[k]
    BY <1>3, <2>3 DEF RxOrder
  <2> QED
    BY <1>5, <2>2, <2>3
<1>9. ASSUME NEW j \in DOMAIN U, NEW k \in DOMAIN R
      PROVE  U[j].frame < R[k]
  <2>2. CASE k = q + 1 /\ R[k] = n + 1
    BY <1>4, <2>2
  <2>3. CASE k \in DOMAIN Q /\ R[k] = Q[k]
    BY <1>3, <2>3 DEF RxOrder
  <2> QED
    BY <1>5, <2>2, <2>3
<1>10. RxOrder(G, U, R)
  BY <1>3, <1>7, <1>8, <1>9 DEF RxOrder, Increasing
<1>11. ASSUME NEW f \in Frames
       PROVE  /\ f \in (1..(n + 1)) \ D <=> (f \in (1..n) \ D \/ f = n + 1)
              /\ (\E k \in DOMAIN R : R[k] = f) <=> ((\E k \in DOMAIN Q : Q[k] = f) \/ f = n + 1)
  <2>1. f \in (1..(n + 1)) \ D <=> (f \in (1..n) \ D \/ f = n + 1)
    OBVIOUS
  <2>2. q + 1 \in DOMAIN R /\ R[q + 1] = n + 1
    BY <1>1
  <2>3. (\E k \in DOMAIN R : R[k] = f) <=> ((\E k \in DOMAIN Q : Q[k] = f) \/ f = n + 1)
    BY <1>5, <1>6, <2>2
  <2> QED
    BY <2>1, <2>3
<1>12. RxAll(G, U, R, (1..(n + 1)) \ D)
  BY <1>3, <1>11, Zenon DEF RxAll
<1> QED
  BY <1>10, <1>12 DEF RxFlow, R

\* A sequence without its first t elements.
LEMMA SubSeqAt ==
  ASSUME NEW Q \in Seq(Frames), NEW t \in 0..Len(Q)
  PROVE  /\ Len(SubSeq(Q, t + 1, Len(Q))) = Len(Q) - t
         /\ \A k \in 1..(Len(Q) - t) : SubSeq(Q, t + 1, Len(Q))[k] = Q[k + t]
<1> DEFINE q == Len(Q)
<1>1. q \in Nat /\ t \in Nat /\ t <= q
  BY LenProperties
<1>2. \A k \in (t + 1)..q : Q[k] \in Frames
  BY <1>1, LenProperties
<1> HIDE DEF q
<1>3. t + 1 \in Int /\ q \in Int
  BY <1>1
<1>4. /\ Len(SubSeq(Q, t + 1, q)) = IF t + 1 <= q THEN q - (t + 1) + 1 ELSE 0
      /\ \A k \in 1..(q - (t + 1) + 1) : SubSeq(Q, t + 1, q)[k] = Q[(t + 1) + k - 1]
  BY <1>2, <1>3, SubSeqProperties
<1> DEFINE X == SubSeq(Q, t + 1, q)
<1> HIDE DEF X
<1>5. Len(X) = q - t
  BY <1>1, <1>4 DEF X
<1>6. ASSUME NEW k \in 1..(q - t)
      PROVE  X[k] = Q[k + t]
  <2>1. k \in 1..(q - (t + 1) + 1) /\ (t + 1) + k - 1 = k + t
    BY <1>1
  <2>2. X[k] = Q[(t + 1) + k - 1]
    BY <1>4, <2>1, Zenon DEF X
  <2> QED
    BY <2>1, <2>2
<1> QED
  BY <1>5, <1>6 DEF X, q

\* service_rx: of the first n pending chains those of T take the next frames, those
\* of F into the completion and those of S into nothing.
Fills(U, V, Q, R, T, n, F, S) ==
  /\ Rank(T, n) <= Len(Q)
  /\ F \cap S = {}
  /\ \A k \in 1..n : k \in T <=> k \in F \cup S
  /\ Len(V) = Len(U) + n
  /\ \A k \in 1..Len(U) : V[k] = U[k]
  /\ \A k \in 1..n : V[Len(U) + k].frame = IF k \in F THEN Q[Rank(T, k)] ELSE 0
  /\ Len(R) = Len(Q) - Rank(T, n)
  /\ \A k \in 1..Len(R) : R[k] = Q[k + Rank(T, n)]

TakenBy(Q, T, S) == {Q[Rank(T, k)] : k \in S}

LEMMA RxServe ==
  ASSUME NEW G \in Seq(Frames), NEW Q \in Seq(Frames), NEW R \in Seq(Frames),
         NEW U \in Seq(Completions), NEW V \in Seq(Completions), NEW A,
         RxFlow(G, U, Q, A),
         NEW L \in Nat, NEW T \in SUBSET (1..L), NEW n \in 0..L,
         NEW F \in SUBSET (1..n), NEW S \in SUBSET (1..n), Fills(U, V, Q, R, T, n, F, S)
  PROVE  RxFlow(G, V, R, A \ TakenBy(Q, T, S))
<1>0. /\ Rank(T, n) <= Len(Q)
      /\ F \cap S = {}
      /\ \A k \in 1..n : k \in T <=> k \in F \cup S
      /\ Len(V) = Len(U) + n
      /\ \A k \in 1..Len(U) : V[k] = U[k]
      /\ \A k \in 1..n : V[Len(U) + k].frame = IF k \in F THEN Q[Rank(T, k)] ELSE 0
      /\ Len(R) = Len(Q) - Rank(T, n)
      /\ \A k \in 1..Len(R) : R[k] = Q[k + Rank(T, n)]
  BY DEF Fills
<1> DEFINE a == Len(U)
           q == Len(Q)
           t == Rank(T, n)
           D == {Q[Rank(T, k)] : k \in S}
<1>1. a \in Nat /\ DOMAIN U = 1..a /\ DOMAIN V = 1..(a + n) /\ n \in Nat
  BY <1>0, CarriedType
<1>2. q \in Nat /\ DOMAIN Q = 1..q /\ t \in Nat /\ t <= q
  <2>1. n \in Int
    OBVIOUS
  <2>2. t \in Nat
    BY <2>1, RankSpec, Zenon
  <2> QED
    BY <1>0, <2>2, FrameType
<1>3. /\ DOMAIN R = 1..(q - t) /\ \A k \in 1..(q - t) : R[k] = Q[k + t]
  BY <1>0, FrameType
<1>4. ASSUME NEW k \in 1..n, k \in F \cup S
      PROVE  k \in T /\ Rank(T, k) \in 1..t /\ Rank(T, k) \in DOMAIN Q
  <2>1. k \in T /\ k <= n
    BY <1>0, <1>4
  <2>2. Rank(T, k) \in 1..Rank(T, n)
    BY <1>0, <1>2, <2>1, RankInQueue
  <2> QED
    BY <1>2, <2>1, <2>2
<1>5. ASSUME NEW j \in 1..n, NEW k \in 1..n, k \in F \cup S, j < k
      PROVE  Rank(T, j) < Rank(T, k)
  <2>1. k \in T /\ j \in Int
    BY <1>4, <1>5
  <2> QED
    BY <1>5, <2>1, RankSpec
<1> HIDE DEF a, q, t
<1>6. ASSUME NEW k \in DOMAIN V
      PROVE  /\ k \in Int
             /\ k <= a => k \in DOMAIN U /\ V[k] = U[k]
             /\ ~(k <= a) => /\ k - a \in 1..n
                             /\ V[k].frame = IF k - a \in F THEN Q[Rank(T, k - a)] ELSE 0
  <2>1. k \in Int /\ (k <= a => k \in 1..a) /\ (~(k <= a) => k - a \in 1..n /\ a + (k - a) = k)
    BY <1>1
  <2> QED
    BY <1>0, <1>1, <2>1 DEF a
<1>7. ASSUME NEW k \in DOMAIN R
      PROVE  k + t \in DOMAIN Q /\ k + t \in Int /\ t < k + t /\ R[k] = Q[k + t] /\ k \in Int
  BY <1>2, <1>3
<1>8. /\ \A k \in DOMAIN U : U[k].frame \in Int
      /\ \A k \in DOMAIN G : G[k] \in Int /\ 0 < G[k]
      /\ \A k \in DOMAIN Q : Q[k] \in Int /\ 0 < Q[k] /\ Q[k] \in Frames
  BY CarriedType, FrameType
<1>9. /\ \A j, k \in DOMAIN G : j < k => G[j] < G[k]
      /\ \A j, k \in DOMAIN Q : j < k => Q[j] < Q[k]
      /\ \A j, k \in DOMAIN U : j < k /\ U[j].frame # 0 /\ U[k].frame # 0
                                => U[j].frame < U[k].frame
      /\ \A j \in DOMAIN G, k \in DOMAIN U : U[k].frame # 0 => G[j] < U[k].frame
      /\ \A j \in DOMAIN G, k \in DOMAIN Q : G[j] < Q[k]
      /\ \A j \in DOMAIN U, k \in DOMAIN Q : U[j].frame < Q[k]
  BY DEF RxFlow, RxOrder, Increasing
\* A new completion that carries a frame.
<1>10. ASSUME NEW k \in DOMAIN V, ~(k <= a), V[k].frame # 0
       PROVE  /\ k - a \in F /\ k - a \in 1..n
              /\ Rank(T, k - a) \in DOMAIN Q /\ Rank(T, k - a) \in 1..t
              /\ V[k].frame = Q[Rank(T, k - a)]
  BY <1>4, <1>6, <1>10
<1>11. ASSUME NEW j \in DOMAIN V, NEW k \in DOMAIN V, j < k, V[j].frame # 0, V[k].frame # 0
       PROVE  V[j].frame < V[k].frame
  <2>1. CASE k <= a
    <3>1. j <= a
      BY <1>1, <1>6, <1>11, <2>1
    <3> QED
      BY <1>6, <1>9, <1>11, <2>1, <3>1
  <2>2. CASE j <= a /\ ~(k <= a)
    BY <1>6, <1>9, <1>10, <1>11, <2>2
  <2>3. CASE ~(j <= a) /\ ~(k <= a)
    <3>1. j - a < k - a
      BY <1>1, <1>6, <1>11
    <3>2. Rank(T, j - a) < Rank(T, k - a)
      BY <1>5, <1>10, <1>11, <2>3, <3>1
    <3> QED
      BY <1>9, <1>10, <1>11, <2>3, <3>2
  <2> QED
    BY <2>1, <2>2, <2>3
<1>12. ASSUME NEW j \in DOMAIN G, NEW k \in DOMAIN V, V[k].frame # 0
       PROVE  G[j] < V[k].frame
  <2>1. CASE k <= a
    BY <1>6, <1>9, <1>12, <2>1
  <2>2. CASE ~(k <= a)
    BY <1>9, <1>10, <1>12, <2>2
  <2> QED
    BY <2>1, <2>2
<1>13. ASSUME NEW j \in DOMAIN V, NEW k \in DOMAIN R
       PROVE  V[j].frame < R[k]
  <2>1. CASE j <= a
    BY <1>6, <1>7, <1>9, <2>1
  <2>2. CASE ~(j <= a) /\ V[j].frame # 0
    <3>1. Rank(T, j - a) < k + t
      BY <1>2, <1>7, <1>10, <2>2
    <3> QED
      BY <1>7, <1>9, <1>10, <2>2, <3>1
  <2>3. CASE V[j].frame = 0
    BY <1>7, <1>8, <2>3
  <2> QED
    BY <2>1, <2>2, <2>3
<1>14. RxOrder(G, V, R)
  <2>1. ASSUME NEW j \in DOMAIN R, NEW k \in DOMAIN R, j < k
        PROVE  R[j] < R[k]
    <3>1. j + t < k + t
      BY <1>2, <1>7, <2>1
    <3> QED
      BY <1>7, <1>9, <3>1
  <2>2. ASSUME NEW j \in DOMAIN G, NEW k \in DOMAIN R
        PROVE  G[j] < R[k]
    BY <1>7, <1>9
  <2> QED
    BY <1>9, <1>11, <1>12, <1>13, <2>1, <2>2 DEF RxOrder, Increasing
<1>15. RxAll(G, U, Q, A)
  BY DEF RxFlow
\* Frames of the channel are given out or stay.
<1>16. ASSUME NEW m \in DOMAIN Q, Q[m] \notin D
       PROVE  (\E k \in DOMAIN V : V[k].frame = Q[m]) \/ (\E k \in DOMAIN R : R[k] = Q[m])
  <2>1. CASE m <= t
    <3>1. m \in 1..Rank(T, n) /\ n \in Nat
      BY <1>1, <1>2, <2>1 DEF t
    <3>2. PICK k \in T : k <= n /\ Rank(T, k) = m
      <4>1. Ranked(T, n, m)
        BY <3>1, RankOnto
      <4> QED
        BY <4>1 DEF Ranked
    <3>3. k \in 1..n /\ k \in F \cup S
      BY <1>0, <1>1, <3>2
    <3>4. k \in F
      BY <1>16, <3>2, <3>3
    <3>5. a + k \in DOMAIN V /\ V[a + k].frame = Q[m]
      BY <1>0, <1>1, <3>2, <3>3, <3>4 DEF a
    <3> QED
      BY <3>5
  <2>2. CASE ~(m <= t)
    <3>1. m - t \in 1..(q - t) /\ (m - t) + t = m
      BY <1>2, <2>2
    <3>2. m - t \in DOMAIN R /\ R[m - t] = Q[m]
      BY <1>3, <3>1
    <3> QED
      BY <3>2
  <2> QED
    BY <2>1, <2>2
\* A frame kept anywhere is not one of those dropped.
<1>17. ASSUME NEW k \in S
       PROVE  /\ k \in 1..n /\ Rank(T, k) \in DOMAIN Q /\ Rank(T, k) \in 1..t
              /\ \A j \in DOMAIN G : G[j] # Q[Rank(T, k)]
              /\ \A j \in DOMAIN V : V[j].frame # Q[Rank(T, k)]
              /\ \A j \in DOMAIN R : R[j] # Q[Rank(T, k)]
  <2> DEFINE x == Rank(T, k)
  <2>1. k \in 1..n /\ k \in F \cup S /\ x \in DOMAIN Q /\ x \in 1..t
    BY <1>4
  <2> HIDE DEF x
  <2>2. ASSUME NEW j \in DOMAIN G
        PROVE  G[j] # Q[x]
    <3>1. G[j] < Q[x] /\ G[j] \in Int /\ Q[x] \in Int
      BY <1>8, <1>9, <2>1
    <3> QED
      BY <3>1
  <2>3. ASSUME NEW j \in DOMAIN R
        PROVE  R[j] # Q[x]
    <3>1. x < j + t
      BY <1>2, <1>7, <2>1
    <3>2. Q[x] < Q[j + t] /\ Q[x] \in Int /\ Q[j + t] \in Int /\ R[j] = Q[j + t]
      BY <1>7, <1>8, <1>9, <2>1, <3>1
    <3> QED
      BY <3>2
  <2>4. ASSUME NEW j \in DOMAIN V, V[j].frame = Q[x]
        PROVE  FALSE
    <3>1. CASE j <= a
      <4>1. U[j].frame < Q[x] /\ U[j].frame = Q[x] /\ Q[x] \in Int
        BY <1>6, <1>8, <1>9, <2>1, <2>4, <3>1
      <4> QED
        BY <4>1
    <3>2. CASE ~(j <= a)
      <4> DEFINE y == Rank(T, j - a)
      <4>0. V[j].frame # 0
        BY <1>8, <2>1, <2>4
      <4>1. /\ j - a \in F /\ j - a \in 1..n /\ y \in DOMAIN Q /\ V[j].frame = Q[y]
            /\ y \in 1..t
        BY <1>10, <3>2, <4>0
      <4>2. j - a # k
        BY <1>0, <4>1
      <4>3. x < y \/ y < x
        <5>1. j - a \in Int /\ k \in Int
          BY <2>1, <4>1
        <5>2. j - a < k \/ k < j - a
          BY <4>2, <5>1
        <5> QED
          BY <1>5, <2>1, <4>1, <5>2 DEF x
      <4> HIDE DEF y
      <4>4. Q[x] < Q[y] \/ Q[y] < Q[x]
        BY <1>9, <2>1, <4>1, <4>3
      <4> QED
        BY <1>8, <2>1, <2>4, <4>1, <4>4
    <3> QED
      BY <3>1, <3>2
  <2> QED
    BY <2>1, <2>2, <2>3, <2>4 DEF x
<1>18. ASSUME NEW f \in Frames
       PROVE  f \in A \ D <=> \/ \E k \in DOMAIN G : G[k] = f
                              \/ \E k \in DOMAIN V : V[k].frame = f
                              \/ \E k \in DOMAIN R : R[k] = f
  <2>0. f # 0
    BY RingsAssumption DEF Frames
  <2>1. ASSUME f \in A, f \notin D
        PROVE  \/ \E k \in DOMAIN G : G[k] = f
               \/ \E k \in DOMAIN V : V[k].frame = f
               \/ \E k \in DOMAIN R : R[k] = f
    <3>1. CASE \E k \in DOMAIN G : G[k] = f
      BY <3>1
    <3>2. CASE \E k \in DOMAIN U : U[k].frame = f
      <4>1. PICK k \in DOMAIN U : U[k].frame = f
        BY <3>2
      <4>2. k \in DOMAIN V /\ V[k] = U[k]
        BY <1>0, <1>1, <4>1 DEF a
      <4> QED
        BY <4>1, <4>2
    <3>3. CASE \E k \in DOMAIN Q : Q[k] = f
      BY <1>16, <2>1, <3>3
    <3> QED
      BY <1>15, <2>1, <3>1, <3>2, <3>3 DEF RxAll
  <2>2. ASSUME \/ \E k \in DOMAIN G : G[k] = f
               \/ \E k \in DOMAIN V : V[k].frame = f
               \/ \E k \in DOMAIN R : R[k] = f
        PROVE  f \in A /\ f \notin D
    <3>1. f \notin D
      BY <1>17, <2>2
    <3>2. CASE \E k \in DOMAIN G : G[k] = f
      BY <1>15, <3>1, <3>2 DEF RxAll
    <3>3. CASE \E k \in DOMAIN V : V[k].frame = f
      <4>1. PICK k \in DOMAIN V : V[k].frame = f
        BY <3>3
      <4>2. (\E j \in DOMAIN U : U[j].frame = f) \/ (\E j \in DOMAIN Q : Q[j] = f)
        BY <1>6, <1>10, <2>0, <4>1
      <4> QED
        BY <1>15, <3>1, <4>2 DEF RxAll
    <3>4. CASE \E k \in DOMAIN R : R[k] = f
      <4>1. \E j \in DOMAIN Q : Q[j] = f
        BY <1>7, <3>4
      <4> QED
        BY <1>15, <3>1, <4>1 DEF RxAll
    <3> QED
      BY <2>2, <3>1, <3>2, <3>3, <3>4
  <2> QED
    BY <2>1, <2>2
<1>19. RxAll(G, V, R, A \ D)
  BY <1>18, Zenon DEF RxAll
<1> QED
  BY <1>14, <1>19 DEF RxFlow, TakenBy

\* A frame in the channel is one injected and not dropped.
LEMMA QueuedInjected ==
  ASSUME NEW G, NEW U, NEW Q \in Seq(Frames), NEW A, RxFlow(G, U, Q, A), NEW k \in 1..Len(Q)
  PROVE  Q[k] \in A
<1>1. k \in DOMAIN Q /\ Q[k] \in Frames
  BY FrameType
<1> QED
  BY <1>1 DEF RxFlow, RxAll

LEMMA RxNext ==
  ASSUME Inv, Orderly, [Next]_vars
  PROVE  RxInv'
<1> DEFINE U == Unreaped
           P == Pending
           A == (1..injected) \ dropped
<1>1. /\ RingInv /\ TypeOK /\ LineFacts /\ TypeOK' /\ LineFacts' /\ RxInv
      /\ U \in Seq(Completions) /\ U' \in Seq(Completions) /\ P \in Seq(Slots)
      /\ got \in Seq(Frames) /\ got' \in Seq(Frames) /\ queue \in Seq(Frames) /\ queue' \in Seq(Frames)
      /\ injected \in Nat
  <2>1. /\ RingInv /\ TypeOK /\ LineFacts /\ TypeOK' /\ LineFacts' /\ RxInv
    BY RingFits, TypeNext, LineTypeNext DEF Inv, RingInv
  <2> QED
    BY <2>1, RingsAssumption DEF TypeOK, LineFacts
<1>2. dir' = dir
  BY DEF Next, Worker, TakeEvent, Service, CompleteUsed, Post, Reap, Inject, Connect,
         UpdateMemory, SetVrings, Disconnect, GhostEvent, vars, fixed
<1> SUFFICES ASSUME dir = RX
             PROVE  /\ RxFlow(got', U', queue', A')
                    /\ dropped' \subseteq 1..injected'
                    /\ sent' = << >>
  BY <1>2 DEF RxInv
<1>3. RxFlow(got, U, queue, A) /\ dropped \subseteq 1..injected /\ sent = << >>
  BY <1>1 DEF RxInv
<1> HIDE DEF U, P
<1>4. ASSUME U' = U, UNCHANGED <<got, queue, injected, dropped, sent>>
      PROVE  /\ RxFlow(got', U', queue', A')
             /\ dropped' \subseteq 1..injected'
             /\ sent' = << >>
  BY <1>3, <1>4
<1>5. CASE Service /\ Serves
  <2> DEFINE T == Takers(P)
  <2>1. PICK n \in 0..Len(P) : RxTakes(P, Oldest, n)
    BY <1>1, <1>5, ServeRx DEF P
  <2>2. Served(n) /\ UNCHANGED <<got, injected>>
    BY <1>1, <1>5, <2>1, ServeRxMove DEF P, Service, guest
  <2> DEFINE F == {k \in 1..n : chain[P[k]].kind = "fit"}
             S == {k \in 1..n : chain[P[k]].kind = "small"}
             D == {queue[Rank(T, k)] : k \in S}
             t == Rank(T, n)
  <2>3. T \in SUBSET (1..Len(P)) /\ Len(P) \in Nat /\ DOMAIN P = 1..Len(P)
    BY <1>1, MarkedType, LenProperties DEF Takers
  <2>4. ASSUME NEW k \in 1..n
        PROVE  k \in T <=> k \in F \cup S
    <3>1. k \in DOMAIN P
      BY <2>3
    <3> QED
      BY <3>1 DEF Takers, Marked
  <2>5. /\ t <= Len(queue) /\ sent' = sent
        /\ queue' = SubSeq(queue, t + 1, Len(queue))
        /\ dropped' = dropped \cup D
        /\ \A k \in 1..n : batch'[k].frame = IF k \in F THEN queue[Rank(T, k)] ELSE 0
    BY <2>1 DEF RxTakes
  <2>6. F \in SUBSET (1..n) /\ S \in SUBSET (1..n) /\ F \cap S = {}
    OBVIOUS
  <2>7. t \in 0..Len(queue)
    <3>1. n \in Int
      OBVIOUS
    <3>2. t \in Nat
      BY <2>3, <3>1, RankSpec, Zenon
    <3> QED
      BY <1>1, <2>5, <3>2, FrameType
  <2> HIDE DEF T, F, S, t, A
  <2>8. Len(queue') = Len(queue) - t /\ \A k \in 1..Len(queue') : queue'[k] = queue[k + t]
    BY <1>1, <2>5, <2>7, SubSeqAt
  <2>9. /\ Len(U') = Len(U) + n /\ \A k \in 1..Len(U) : U'[k] = U[k]
        /\ \A k \in 1..n : U'[Len(U) + k].frame = IF k \in F THEN queue[Rank(T, k)] ELSE 0
    BY <2>2, <2>5 DEF Served, U
  <2>10. RxFlow(got, U', queue', A \ D)
    <3>1. Fills(U, U', queue, queue', T, n, F, S)
      BY <2>4, <2>5, <2>6, <2>8, <2>9 DEF Fills, t
    <3>2. RxFlow(got, U', queue', A \ TakenBy(queue, T, S))
      BY <1>1, <1>3, <2>3, <2>6, <3>1, RxServe
    <3> QED
      BY <3>2 DEF TakenBy
  <2>11. A' = A \ D
    BY <2>2, <2>5 DEF A
  <2>12. D \subseteq 1..injected
    <3>1. ASSUME NEW k \in S
          PROVE  queue[Rank(T, k)] \in 1..injected
      <4>1. k \in 1..n /\ k \in T /\ k <= n
        BY <2>4, <2>6
      <4>2. Rank(T, k) \in 1..Len(queue)
        BY <1>1, <2>3, <2>5, <4>1, RankInQueue, FrameType DEF t
      <4>3. queue[Rank(T, k)] \in A
        BY <1>1, <1>3, <4>2, QueuedInjected
      <4> QED
        BY <4>3 DEF A
    <3> QED
      BY <3>1
  <2> QED
    BY <1>3, <2>2, <2>5, <2>10, <2>11, <2>12
<1>6. CASE Inject
  <2>1. U' = U /\ got' = got /\ dropped' = dropped /\ sent' = sent
        /\ queue' = Append(queue, injected + 1) /\ injected' = injected + 1
    BY <1>6 DEF Inject, U, Unreaped, guest, device
  <2>2. injected + 1 \in Frames
    BY <1>1, <1>6, RingsAssumption DEF Inject, TypeOK, Frames
  <2>3. RxFlow(got, U, Append(queue, injected + 1), (1..(injected + 1)) \ dropped)
    BY <1>1, <1>3, <2>2, RxInject
  <2>4. dropped \subseteq 1..(injected + 1)
    BY <1>1, <1>3
  <2> QED
    BY <1>3, <2>1, <2>3, <2>4
<1>7. CASE Reap
  <2>1. Reaped
    BY <1>1, <1>7, ReapMove
  <2>2. /\ Len(U) > 0 /\ Len(U') = Len(U) - 1 /\ \A k \in 1..Len(U') : U'[k] = U[k + 1]
        /\ got' = IF U[1].frame # 0 THEN Append(got, U[1].frame) ELSE got
        /\ UNCHANGED <<queue, injected, dropped, sent>>
    BY <1>7, <2>1 DEF Reaped, Reap, U, traffic
  <2> HIDE DEF A
  <2>3. RxFlow(got', U', queue, A)
    BY <1>1, <1>3, <2>2, RxReap
  <2> QED
    BY <1>3, <2>2, <2>3 DEF A
<1>8. CASE CompleteUsed
  <2>1. U' = U /\ UNCHANGED <<got, queue, injected, dropped, sent>>
    BY <1>1, <1>8, CompleteMove DEF Kept, U, CompleteUsed, guest, traffic
  <2> QED
    BY <1>4, <2>1
<1>9. CASE \/ TakeEvent \/ Connect \/ UpdateMemory \/ UNCHANGED vars \/ SetVrings
           \/ (\E end \in Ends : Disconnect(end)) \/ (\E g \in DOMAIN ghosts : GhostEvent(g))
           \/ (Service /\ ~Serves)
           \/ (\E h \in Slots, kind \in Kinds : Post(h, kind))
  <2>1. UNCHANGED <<seen, used, done, batch>> /\ UNCHANGED <<got, queue, injected, dropped, sent>>
    BY <1>1, <1>9, GhostDrains DEF TakeEvent, Connect, UpdateMemory, Disconnect, Service,
       SetVrings, Post, vars, guest, device, traffic
  <2>2. U' = U
    BY <2>1 DEF U, Unreaped
  <2> QED
    BY <1>4, <2>1, <2>2
<1> QED
  BY <1>5, <1>6, <1>7, <1>8, <1>9 DEF Next, Worker

LEMMA InvInit == Init => Inv
<1> SUFFICES ASSUME Init PROVE Inv
  OBVIOUS
<1>1. TypeOK
  <2>1. /\ 0 \in Idx /\ 0 \in Slots /\ 0 \in 0..MaxSessions /\ 0 \in 0..MaxPosts /\ 0 \in 0..MaxFrames
        /\ 0 <= Size
    BY RingsAssumption DEF Idx, Slots
  <2>2. heads \in [Slots -> Slots] /\ done \in [Slots -> Completions]
        /\ chain \in [Slots -> [kind : Kinds, frame : Frames \cup {0}]]
    BY <2>1 DEF Init, Completions, Kinds
  <2>3. batch \in Seq(Completions) /\ Len(batch) <= Size /\ {queue, got, sent} \subseteq Seq(Frames)
    BY <2>1 DEF Init
  <2> QED
    BY <2>1, <2>2, <2>3 DEF Init, TypeOK
<1>2. Marks
  <2>1. 0 \in Idx /\ Len(<< >>) = 0
    BY RingsAssumption DEF Idx
  <2>2. Plus(0, 0) = 0
    BY <2>1, MinusZero
  <2> QED
    BY <2>1, <2>2 DEF Init, Marks
<1>3. Unreaped = << >> /\ Pending = << >>
  <2>1. 0 \in Idx /\ Len(<< >>) = 0
    BY RingsAssumption DEF Idx
  <2>2. Plus(0, 0) = 0 /\ Minus(0, 0) = 0
    BY <2>1, MinusZero
  <2>3. LineFacts
    BY <1>1, LineType
  <2>4. Oldest = 0
    BY <2>1, <2>2 DEF Init, Oldest
  <2>5. Len(Unreaped) = 0 /\ Len(Pending) = 0
    BY <2>1, <2>2, <2>3, <2>4 DEF Init, LineFacts
  <2> QED
    BY <2>3, <2>5 DEF LineFacts
<1>4. RingInv
  BY <1>1, <1>2, <1>3 DEF RingInv, Lined, Covered, Init
<1>5. RxInv
  <2>1. (1..injected) \ dropped = {}
    BY DEF Init
  <2> QED
    BY <1>3, <2>1 DEF RxInv, RxFlow, RxOrder, RxAll, Increasing, Init
<1>6. TxInv
  BY <1>3 DEF TxInv, TxOrder, Increasing, Init
<1>7. TxAllInv
  BY <1>3 DEF TxAllInv, TxAll, Init
<1> QED
  BY <1>4, <1>5, <1>6, <1>7 DEF Inv

\* The four parts are preserved together by every step.
LEMMA InvInductive ==
  ASSUME Orderly
  PROVE  Spec => []Inv
<1>1. Inv /\ [Next]_vars => Inv'
  BY RingNext, RxNext, TxNext, TxAllNext DEF Inv
<1> QED
  BY <1>1, InvInit, PTL DEF Spec

-------------------------------------------------------------------------------
(* The theorems *)

\* The ring indices stay within their width, ring slots hold descriptors, and a
\* batch of service_rx or service_tx fits the ring.
THEOREM RingsTypeCorrect ==
  ASSUME Orderly
  PROVE  Spec => []TypeOK
<1>1. Inv => TypeOK
  BY DEF Inv, RingInv
<1> QED
  BY <1>1, InvInductive, PTL

\* complete_used gives back only chains the guest has handed over and not had
\* back, each once, across index wrap-around, recovery and reconnects.
THEOREM CompletionsAlwaysOwed ==
  ASSUME Orderly
  PROVE  Spec => []CompletionsOwed
<1>1. Inv => CompletionsOwed
  BY DEF Inv, RingInv, Lined, CompletionsOwed
<1> QED
  BY <1>1, InvInductive, PTL

\* service_rx's recovery leaves no RX buffer behind: each was given back or will
\* be offered to the next frames.
THEOREM ChainsAlwaysAccounted ==
  ASSUME Orderly
  PROVE  Spec => []ChainsAccounted
<1>1. Inv => ChainsAccounted
  <2> SUFFICES ASSUME Inv, dir = RX, session = "ready", worker = "idle"
               PROVE  LET hs == HeadsFrom(Start)
                      IN  owed = {Unreaped[k].head : k \in DOMAIN Unreaped}
                                   \cup {hs[k] : k \in DOMAIN hs}
    BY DEF ChainsAccounted
  <2>1. RingInv /\ worker # "complete"
    BY DEF Inv
  <2>2. HeadsFrom(Start) = Pending
    BY <2>1, StartIsOldest DEF Pending
  <2>3. Lined(Unreaped, Pending, owed) /\ Covered(Unreaped, Pending, owed)
    BY <2>1 DEF RingInv
  <2>4. owed = {Unreaped[k].head : k \in DOMAIN Unreaped} \cup {Pending[k] : k \in DOMAIN Pending}
    BY <2>3 DEF Lined, Covered
  <2> QED
    BY <2>2, <2>4
<1> QED
  BY <1>1, InvInductive, PTL

\* The frames of G, of U and of Q in a row.
InRow(G, U, Q) == G \o [k \in DOMAIN U |-> U[k].frame] \o Q

\* Where they lie.
LaidOut(W, G, U, Q) ==
  /\ DOMAIN W = 1..(Len(G) + Len(U) + Len(Q))
  /\ \A k \in 1..Len(G) : W[k] = G[k]
  /\ \A k \in 1..Len(U) : W[Len(G) + k] = U[k].frame
  /\ \A k \in 1..Len(Q) : W[Len(G) + Len(U) + k] = Q[k]

\* The frames of W are those of A, in order.
AllInOrder(W, A) ==
  /\ \A i, j \in DOMAIN W : i < j /\ W[i] # 0 /\ W[j] # 0 => W[i] < W[j]
  /\ {W[k] : k \in DOMAIN W} \ {0} = A

LEMMA UnderwayAt ==
  ASSUME NEW G \in Seq(Frames), NEW U \in Seq(Completions), NEW Q \in Seq(Frames), NEW W,
         W = InRow(G, U, Q)
  PROVE  LaidOut(W, G, U, Q)
<1> DEFINE g == Len(G)
           a == Len(U)
           q == Len(Q)
           V == [k \in DOMAIN U |-> U[k].frame]
           X == G \o V
           Z == Frames \cup {0}
<1>1. g \in Nat /\ a \in Nat /\ q \in Nat /\ DOMAIN U = 1..a
  BY FrameType, CarriedType
<1>2. V \in Seq(Z) /\ Len(V) = a /\ \A k \in 1..a : V[k] = U[k].frame
  <2>1. V = [k \in 1..a |-> U[k].frame]
    BY <1>1
  <2>2. \A k \in 1..a : U[k].frame \in Z
    BY <1>1, CarriedType
  <2>3. V \in [1..a -> Z] /\ \A k \in 1..a : V[k] = U[k].frame
    BY <2>1, <2>2
  <2> HIDE DEF V, Z, a
  <2> QED
    BY <1>1, <2>3
<1>3. G \in Seq(Z) /\ Q \in Seq(Z)
  BY LenProperties
<1> HIDE DEF V, Z, X, g, a, q
<1>4. /\ X \in Seq(Z) /\ Len(X) = Len(G) + Len(V)
      /\ \A k \in 1..(Len(G) + Len(V)) : X[k] = IF k <= Len(G) THEN G[k] ELSE V[k - Len(G)]
  BY <1>2, <1>3, ConcatProperties DEF X
<1>5. W = X \o Q
  BY DEF X, V, InRow
<1>6. /\ X \o Q \in Seq(Z) /\ Len(X \o Q) = Len(X) + Len(Q)
      /\ \A k \in 1..(Len(X) + Len(Q)) : (X \o Q)[k] = IF k <= Len(X) THEN X[k] ELSE Q[k - Len(X)]
  <2>1. X \in Seq(Z) /\ Q \in Seq(Z)
    BY <1>3, <1>4
  <2> QED
    BY <2>1, ConcatProperties, Zenon
<1>7. W \in Seq(Z) /\ Len(W) = g + a + q
  BY <1>2, <1>4, <1>5, <1>6 DEF g, q
<1>8. DOMAIN W = 1..(g + a + q)
  BY <1>7, LenProperties
<1>9. /\ \A k \in 1..(g + a) : X[k] = IF k <= g THEN G[k] ELSE V[k - g]
      /\ \A k \in 1..(g + a + q) : W[k] = IF k <= g + a THEN X[k] ELSE Q[k - (g + a)]
  <2>1. Len(G) = g /\ Len(V) = a /\ Len(Q) = q /\ Len(X) = g + a
    BY <1>2, <1>4 DEF g, q
  <2> QED
    BY <1>4, <1>5, <1>6, <2>1, Zenon
<1>10. ASSUME NEW k \in 1..g
       PROVE  W[k] = G[k]
  <2>1. k \in 1..(g + a) /\ k \in 1..(g + a + q) /\ k <= g /\ k <= g + a
    BY <1>1
  <2> QED
    BY <1>9, <2>1, Zenon
<1>11. ASSUME NEW k \in 1..a
       PROVE  W[g + k] = U[k].frame
  <2>1. /\ g + k \in 1..(g + a) /\ g + k \in 1..(g + a + q) /\ ~(g + k <= g) /\ g + k <= g + a
        /\ (g + k) - g = k
    BY <1>1
  <2>2. W[g + k] = V[k]
    BY <1>9, <2>1, Zenon
  <2> QED
    BY <1>2, <2>2
<1>12. ASSUME NEW k \in 1..q
       PROVE  W[g + a + k] = Q[k]
  <2>1. g + a + k \in 1..(g + a + q) /\ ~(g + a + k <= g + a) /\ (g + a + k) - (g + a) = k
    BY <1>1
  <2> QED
    BY <1>9, <2>1, Zenon
<1> QED
  BY <1>8, <1>10, <1>11, <1>12 DEF g, a, q, LaidOut

\* The order of the parts is the order of the whole, and so are their frames.
LEMMA UnderwayOrder ==
  ASSUME NEW G \in Seq(Frames), NEW U \in Seq(Completions), NEW Q \in Seq(Frames), NEW W,
         W = InRow(G, U, Q), NEW A \in SUBSET Frames, RxFlow(G, U, Q, A)
  PROVE  AllInOrder(W, A)
<1> DEFINE g == Len(G)
           a == Len(U)
           q == Len(Q)
<1>1. /\ g \in Nat /\ a \in Nat /\ q \in Nat
      /\ DOMAIN G = 1..g /\ DOMAIN U = 1..a /\ DOMAIN Q = 1..q
  BY FrameType, CarriedType
<1>2. /\ DOMAIN W = 1..(g + a + q)
      /\ \A k \in 1..g : W[k] = G[k]
      /\ \A k \in 1..a : W[g + k] = U[k].frame
      /\ \A k \in 1..q : W[g + a + k] = Q[k]
  BY UnderwayAt DEF LaidOut
<1> HIDE DEF g, a, q
<1>3. ASSUME NEW k \in DOMAIN W
      PROVE  /\ k \in Int
             /\ k <= g => k \in DOMAIN G /\ W[k] = G[k]
             /\ g < k /\ k <= g + a => k - g \in DOMAIN U /\ W[k] = U[k - g].frame
             /\ g + a < k => k - (g + a) \in DOMAIN Q /\ W[k] = Q[k - (g + a)]
  <2>1. k \in 1..(g + a + q)
    BY <1>2, Zenon
  <2>2. /\ k \in Int
        /\ k <= g => k \in 1..g
        /\ g < k /\ k <= g + a => k - g \in 1..a /\ g + (k - g) = k
        /\ g + a < k => k - (g + a) \in 1..q /\ g + a + (k - (g + a)) = k
    BY <1>1, <2>1
  <2>3. CASE k <= g
    BY <1>1, <1>2, <2>2, <2>3
  <2>4. CASE g < k /\ k <= g + a
    <3>1. k - g \in 1..a /\ W[g + (k - g)] = U[k - g].frame /\ g + (k - g) = k /\ k \in Int
      BY <1>2, <2>2, <2>4, Zenon
    <3> QED
      BY <1>1, <2>4, <3>1
  <2>5. CASE g + a < k
    <3>1. /\ k - (g + a) \in 1..q /\ W[g + a + (k - (g + a))] = Q[k - (g + a)]
          /\ g + a + (k - (g + a)) = k /\ k \in Int
      BY <1>2, <2>2, <2>5, Zenon
    <3> QED
      BY <1>1, <2>5, <3>1
  <2> QED
    BY <1>1, <2>2, <2>3, <2>4, <2>5
<1>4. /\ \A j, k \in DOMAIN G : j < k => G[j] < G[k]
      /\ \A j, k \in DOMAIN Q : j < k => Q[j] < Q[k]
      /\ \A j, k \in DOMAIN U : j < k /\ U[j].frame # 0 /\ U[k].frame # 0
                                => U[j].frame < U[k].frame
      /\ \A j \in DOMAIN G, k \in DOMAIN U : U[k].frame # 0 => G[j] < U[k].frame
      /\ \A j \in DOMAIN G, k \in DOMAIN Q : G[j] < Q[k]
      /\ \A j \in DOMAIN U, k \in DOMAIN Q : U[j].frame < Q[k]
  BY DEF RxFlow, RxOrder, Increasing
<1>5. ASSUME NEW i \in DOMAIN W, NEW j \in DOMAIN W, i < j, W[i] # 0, W[j] # 0
      PROVE  W[i] < W[j]
  <2>0. i \in Int /\ j \in Int
    BY <1>3
  <2>1. CASE j <= g
    <3>1. i <= g
      BY <1>1, <1>5, <2>0, <2>1
    <3> QED
      BY <1>3, <1>4, <1>5, <2>1, <3>1
  <2>2. CASE g < j /\ j <= g + a
    <3>1. CASE i <= g
      BY <1>3, <1>4, <1>5, <2>2, <3>1
    <3>2. CASE g < i
      <4>1. i <= g + a /\ i - g < j - g
        BY <1>1, <1>5, <2>0, <2>2
      <4> QED
        BY <1>3, <1>4, <1>5, <2>2, <3>2, <4>1
    <3> QED
      BY <1>1, <2>0, <3>1, <3>2
  <2>3. CASE g + a < j
    <3>1. CASE i <= g
      BY <1>3, <1>4, <2>3, <3>1
    <3>2. CASE g < i /\ i <= g + a
      BY <1>3, <1>4, <2>3, <3>2
    <3>3. CASE g + a < i
      <4>1. i - (g + a) < j - (g + a)
        BY <1>1, <1>5, <2>0
      <4> QED
        BY <1>3, <1>4, <2>3, <3>3, <4>1
    <3> QED
      BY <1>1, <2>0, <3>1, <3>2, <3>3
  <2> QED
    BY <1>1, <2>0, <2>1, <2>2, <2>3
<1>6. ASSUME NEW f
      PROVE  f \in {W[k] : k \in DOMAIN W} \ {0} <=> f \in A
  <2>0. RxAll(G, U, Q, A)
    BY DEF RxFlow
  <2>1. ASSUME NEW k \in DOMAIN W, W[k] # 0
        PROVE  W[k] \in A
    <3>0. k \in Int
      BY <1>3
    <3>1. CASE k <= g
      <4>1. k \in DOMAIN G /\ W[k] = G[k] /\ G[k] \in Frames
        BY <1>3, <3>1, FrameType
      <4> QED
        BY <2>0, <4>1 DEF RxAll
    <3>2. CASE g < k /\ k <= g + a
      <4>1. k - g \in DOMAIN U /\ W[k] = U[k - g].frame
        BY <1>3, <3>2
      <4>2. W[k] \in Frames
        BY <2>1, <4>1, CarriedType
      <4> QED
        BY <2>0, <4>1, <4>2 DEF RxAll
    <3>3. CASE g + a < k
      <4>1. k - (g + a) \in DOMAIN Q /\ W[k] = Q[k - (g + a)]
        BY <1>3, <3>3
      <4>2. W[k] \in Frames
        BY <4>1, FrameType
      <4> QED
        BY <2>0, <4>1, <4>2 DEF RxAll
    <3> QED
      BY <1>1, <3>0, <3>1, <3>2, <3>3
  <2>2. ASSUME f \in A
        PROVE  f # 0 /\ \E k \in DOMAIN W : W[k] = f
    <3>0. f \in Frames /\ f # 0
      <4>1. f \in Frames
        BY <2>2
      <4> QED
        BY <4>1, RingsAssumption DEF Frames
    <3>1. CASE \E k \in DOMAIN G : G[k] = f
      <4>1. PICK k \in 1..g : G[k] = f
        BY <1>1, <3>1
      <4>2. k \in DOMAIN W /\ W[k] = f
        BY <1>1, <1>2, <4>1
      <4> QED
        BY <3>0, <4>2
    <3>2. CASE \E k \in DOMAIN U : U[k].frame = f
      <4>1. PICK k \in 1..a : U[k].frame = f
        BY <1>1, <3>2
      <4>2. g + k \in DOMAIN W /\ W[g + k] = f
        BY <1>1, <1>2, <4>1
      <4> QED
        BY <3>0, <4>2
    <3>3. CASE \E k \in DOMAIN Q : Q[k] = f
      <4>1. PICK k \in 1..q : Q[k] = f
        BY <1>1, <3>3
      <4>2. g + a + k \in DOMAIN W /\ W[g + a + k] = f
        BY <1>1, <1>2, <4>1
      <4> QED
        BY <3>0, <4>2
    <3> QED
      BY <2>0, <2>2, <3>0, <3>1, <3>2, <3>3 DEF RxAll
  <2> QED
    BY <2>1, <2>2
<1>7. {W[k] : k \in DOMAIN W} \ {0} = A
  BY <1>6
<1> QED
  BY <1>5, <1>7 DEF AllInOrder

\* On the way to the guest no frame is lost, doubled or overtaken: what the guest has
\* reaped, what service_rx has written and what is in the channel are all frames
\* injected, in order, less those too large for their buffer.  On the way to the
\* switch, service_tx hands over each transmission at most once and in order, and,
\* when frontends resume at the used index, leaves none out.
THEOREM FramesAlwaysInOrder ==
  ASSUME Orderly
  PROVE  Spec => []FramesInOrder
<1>1. Inv => FramesInOrder
  <2> SUFFICES ASSUME Inv PROVE FramesInOrder
    OBVIOUS
  <2>1. RingInv /\ TypeOK /\ LineFacts /\ RxInv /\ TxInv /\ TxAllInv
    BY RingFits DEF Inv, RingInv
  <2>2. Increasing(sent)
    <3>1. CASE dir = RX
      BY <2>1, <3>1 DEF RxInv, Increasing
    <3>2. CASE dir # RX
      BY <2>1, <3>2 DEF TxInv, TxOrder, TypeOK
    <3> QED
      BY <3>1, <3>2
  <2>3. ASSUME dir = RX
        PROVE  /\ \A i, j \in DOMAIN Underway :
                    i < j /\ Underway[i] # 0 /\ Underway[j] # 0 => Underway[i] < Underway[j]
               /\ {Underway[k] : k \in DOMAIN Underway} \ {0} = (1..injected) \ dropped
    <3>1. got \in Seq(Frames) /\ Unreaped \in Seq(Completions) /\ queue \in Seq(Frames)
      BY <2>1 DEF TypeOK, LineFacts
    <3>2. RxFlow(got, Unreaped, queue, (1..injected) \ dropped)
      BY <2>1, <2>3 DEF RxInv
    <3>3. (1..injected) \ dropped \in SUBSET Frames
      BY <2>1, RingsAssumption DEF TypeOK, Frames
    <3>4. Underway = InRow(got, Unreaped, queue)
      BY DEF Underway, InRow
    <3>5. AllInOrder(Underway, (1..injected) \ dropped)
      BY <3>1, <3>2, <3>3, <3>4, UnderwayOrder
    <3> QED
      BY <3>5 DEF AllInOrder
  <2>4. ASSUME dir = TX, base = "used"
        PROVE  offered = {sent[k] : k \in DOMAIN sent} \cup Untransmitted
    <3>1. Pending = HeadsFrom(nextAvail)
      BY <2>4 DEF Pending, Oldest, RX, TX
    <3>2. Untransmitted = {chain[Pending[k]].frame : k \in Marked(Pending, {"fit"})}
      BY <3>1 DEF Untransmitted
    <3>3. \A k : k \in Marked(Pending, {"fit"})
                  <=> k \in DOMAIN Pending /\ chain[Pending[k]].kind = "fit"
      BY DEF Marked
    <3>4. /\ offered \subseteq Frames
          /\ \A k \in DOMAIN sent : sent[k] \in Frames
          /\ \A k \in DOMAIN Pending : chain[Pending[k]].frame \in Frames
      <4>1. sent \in Seq(Frames) /\ posts \in 0..MaxPosts /\ offered \subseteq Frames
        BY <2>1 DEF TypeOK
      <4>2. \A f \in 1..posts : f \in Frames
        BY <4>1, RingsAssumption DEF Frames
      <4>3. \A k \in DOMAIN Pending : chain[Pending[k]].frame \in 1..posts
        BY <2>1, <2>4 DEF TxInv
      <4> QED
        BY <4>1, <4>2, <4>3, FrameType
    <3>5. TxAll(sent, Pending, chain, offered)
      BY <2>1, <2>4 DEF TxAllInv
    <3>6. ASSUME NEW f
          PROVE  f \in offered <=> f \in {sent[k] : k \in DOMAIN sent} \cup Untransmitted
      BY <3>2, <3>3, <3>4, <3>5 DEF TxAll
    <3> QED
      BY <3>6
  <2> QED
    BY <2>2, <2>3, <2>4 DEF FramesInOrder
<1> QED
  BY <1>1, InvInductive, PTL

===============================================================================
