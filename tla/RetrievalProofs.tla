---------------------------- MODULE RetrievalProofs ----------------------------
(***************************************************************************)
(* Theorems about Retrieval: its algorithms are correct for texts, vectors *)
(* and limits of any size, and no answer is lost.                          *)
(*                                                                         *)
(* Chunks is arithmetic. Dot, Take and FlattenSeq are recursive functions: *)
(* Recursion shows that such a function exists, DotSums, TakeSteps and     *)
(* FlattenSteps that it obeys its equation, and Induction, on the set of   *)
(* numbers up to which a fact holds, what it computes. The prompt is best  *)
(* because sorting puts the relevant chunks first (RelevantFirst), so that *)
(* the limit and the threshold cut the same ranking (TakePrefix).          *)
(* RetrievalInv adds to the properties that a chunk has no answer before   *)
(* the loop has passed it, which is why appending keeps the order.         *)
(***************************************************************************)
EXTENDS RetrievalProps, FiniteSetTheorems, WellFoundedInduction, TLAPS

\* The number of chunks of a text of n runes: the last one is not empty, and
\* reaches the end.
Count(n) == (n + ChunkSize - 1) \div ChunkSize

LEMMA CountBounds ==
  ASSUME NEW n \in Nat
  PROVE  /\ Count(n) \in Nat
         /\ n <= Count(n) * ChunkSize
         /\ n > 0 => Count(n) > 0
         /\ n > 0 => (Count(n) - 1) * ChunkSize < n
         /\ Count(n) <= n
<1>1. ChunkSize \in Nat \ {0} BY RetrievalAssumption
<1> PICK s \in Nat \ {0} : s = ChunkSize BY <1>1
<1> PICK a \in Nat : a = n + s - 1 OBVIOUS
<1>2. /\ a \div s \in Int
      /\ s * (a \div s) <= a 
      /\ a < s * (a \div s) + s
  OBVIOUS
<1>3. Count(n) = a \div s BY DEF Count
<1> PICK q \in Int : q = a \div s BY <1>2
<1>4. s * q <= n + s - 1 /\ n + s - 1 < s * q + s BY <1>2
<1>5. q >= 0
  <2> SUFFICES ASSUME q <= -1 PROVE FALSE OBVIOUS
  <2>1. s * q <= s * (-1) OBVIOUS
  <2> QED BY <1>4, <2>1
<1>6. n <= q * s BY <1>4
<1>7. n > 0 => q > 0
  <2> SUFFICES ASSUME n > 0, q = 0 PROVE FALSE BY <1>5
  <2> QED BY <1>6
<1>8. (q - 1) * s < n
  <2>1. (q - 1) * s = s * q - s OBVIOUS
  <2> QED BY <1>4, <2>1
<1>9. q <= n
  <2> SUFFICES ASSUME q >= n + 1 PROVE FALSE OBVIOUS
  <2>1. (q - 1) * s >= n * s OBVIOUS
  <2>2. n * s >= n OBVIOUS
  <2> QED BY <1>8, <2>1, <2>2
<1> QED BY <1>3, <1>5, <1>6, <1>7, <1>8, <1>9

\* The chunks of a text, one by one.
LEMMA ChunkAt ==
  ASSUME NEW n \in Nat
  PROVE  /\ DOMAIN Chunks(n) = 1..Count(n)
         /\ Len(Chunks(n)) = Count(n)
         /\ \A i \in 1..Count(n) :
              /\ Chunks(n)[i].from = (i - 1) * ChunkSize
              /\ i < Count(n) => Chunks(n)[i].to = i * ChunkSize
              /\ i = Count(n) => Chunks(n)[i].to = n
              /\ i < Count(n) => i * ChunkSize < n
<1> ChunkSize \in Nat \ {0} BY RetrievalAssumption
<1> PICK c \in Nat : c = Count(n) BY CountBounds
<1>1. Chunks(n) = [i \in 1..c |-> [from |-> (i - 1) * ChunkSize,
                                   to |-> IF i * ChunkSize > n THEN n ELSE i * ChunkSize]]
  BY DEF Chunks, Count
<1>2. Len(Chunks(n)) = c BY <1>1
<1>3. ASSUME NEW i \in 1..c
      PROVE  /\ Chunks(n)[i].from = (i - 1) * ChunkSize
             /\ Chunks(n)[i].to = IF i * ChunkSize > n THEN n ELSE i * ChunkSize
  BY <1>1
<1>4. ASSUME NEW i \in 1..c, i < c PROVE i * ChunkSize < n
  <2>1. n > 0 BY <1>4, CountBounds
  <2>2. i * ChunkSize <= (c - 1) * ChunkSize BY <1>4
  <2>3. i * ChunkSize \in Int /\ (c - 1) * ChunkSize \in Int OBVIOUS
  <2> QED BY <2>1, <2>2, <2>3, CountBounds
<1>5. n <= c * ChunkSize /\ c * ChunkSize \in Int BY CountBounds
<1>6. ASSUME NEW i \in 1..c
      PROVE  /\ i < c => Chunks(n)[i].to = i * ChunkSize
             /\ i = c => Chunks(n)[i].to = n
  <2>1. CASE i < c
    <3>1. i * ChunkSize < n /\ i * ChunkSize \in Int BY <1>4, <2>1
    <3> QED BY <1>3, <2>1, <3>1
  <2>2. CASE i = c BY <1>3, <1>5, <2>2
  <2> QED BY <2>1, <2>2
<1> QED BY <1>1, <1>2, <1>3, <1>4, <1>6

\* The chunks of a text of any length partition it.
Partition(n) ==
  LET chunks == Chunks(n)
  IN  /\ \A p \in 0..(n - 1) :
           \E i \in DOMAIN chunks : chunks[i].from <= p /\ p < chunks[i].to
      /\ \A i \in DOMAIN chunks :
           /\ chunks[i].from < chunks[i].to
           /\ chunks[i].to - chunks[i].from <= ChunkSize
           /\ i > 1 => chunks[i].from = chunks[i - 1].to

LEMMA ChunksPartitionText == ASSUME NEW n \in Nat PROVE Partition(n)
<1> PICK s \in Nat \ {0} : s = ChunkSize BY RetrievalAssumption
<1> PICK c \in Nat : c = Count(n) BY CountBounds
<1> DEFINE chunk(i) == Chunks(n)[i]
<1>1. /\ DOMAIN Chunks(n) = 1..c
      /\ \A i \in 1..c : /\ chunk(i).from = (i - 1) * s
                         /\ i < c => chunk(i).to = i * s
                         /\ i = c => chunk(i).to = n
                         /\ i < c => i * s < n
  BY ChunkAt
<1>2. /\ n <= c * s
      /\ n > 0 => c > 0 /\ (c - 1) * s < n
      /\ c <= n
  BY CountBounds
<1> HIDE DEF chunk
<1>3. ASSUME NEW i \in 1..c
      PROVE  /\ chunk(i).from < chunk(i).to
             /\ chunk(i).to - chunk(i).from <= s
             /\ i > 1 => chunk(i).from = chunk(i - 1).to
  <2>1. chunk(i).from = i * s - s /\ i * s \in Int
    <3>1. (i - 1) * s = i * s - s OBVIOUS
    <3> QED BY <1>1, <3>1
  <2>2. i > 1 => chunk(i - 1).to = i * s - s
    <3>1. (i - 1) * s = i * s - s OBVIOUS
    <3> QED BY <1>1, <3>1
  <2>3. CASE i < c BY <1>1, <2>1, <2>2, <2>3
  <2>4. CASE i = c
    <3>1. n > 0 BY <1>2, <2>4
    <3>2. (c - 1) * s = i * s - s /\ c * s = i * s BY <2>4
    <3>3. i * s - s < n /\ n <= i * s BY <1>2, <3>1, <3>2
    <3>4. chunk(i).to = n BY <1>1, <2>4
    <3>5. i * s \in Int OBVIOUS
    <3> QED BY ONLY <2>1, <2>2, <3>3, <3>4, <3>5, n \in Nat, s \in Nat
  <2> QED BY <2>3, <2>4
<1>4. ASSUME NEW p \in 0..(n - 1)
      PROVE  \E i \in 1..c : chunk(i).from <= p /\ p < chunk(i).to
  <2> PICK q \in Int : q = p \div s OBVIOUS
  <2>1. s * q <= p /\ p < s * q + s OBVIOUS
  <2>2. q >= 0
    <3> SUFFICES ASSUME q <= -1 PROVE FALSE OBVIOUS
    <3>1. s * q <= s * (-1) OBVIOUS
    <3> QED BY <2>1, <3>1
  <2>3. q + 1 <= c
    <3> SUFFICES ASSUME q >= c PROVE FALSE OBVIOUS
    <3>1. s * q >= c * s OBVIOUS
    <3> QED BY <1>2, <2>1, <3>1
  <2>4. chunk(q + 1).from <= p
    <3>1. ((q + 1) - 1) * s = s * q OBVIOUS
    <3> QED BY <1>1, <2>1, <2>2, <2>3, <3>1
  <2>5. p < chunk(q + 1).to
    <3>1. (q + 1) * s = s * q + s OBVIOUS
    <3> QED BY <1>1, <2>1, <2>2, <2>3, <3>1
  <2> QED BY <2>2, <2>3, <2>4, <2>5
<1> QED BY <1>1, <1>3, <1>4 DEF Partition, chunk

-----------------------------------------------------------------------------
(* Induction, by sets instead of predicates. *)

LessThan == {p \in Nat \X Nat : p[1] < p[2]}

\* A set of naturals that is closed under the successor holds all of them.
LEMMA Induction ==
  ASSUME NEW T \in SUBSET Nat, 0 \in T, \A n \in T : n + 1 \in T
  PROVE  T = Nat
<1> SUFFICES ASSUME Nat \ T # {} PROVE FALSE OBVIOUS
<1>1. IsWellFoundedOn(LessThan, Nat) BY NatLessThanWellFounded DEF OpToRel, LessThan
<1>2. PICK x \in Nat \ T : \A y \in Nat \ T : ~ <<y, x>> \in LessThan BY <1>1, WFMin
<1>3. x # 0 /\ x - 1 \in Nat OBVIOUS
<1>4. <<x - 1, x>> \in LessThan BY <1>3 DEF LessThan
<1>5. x - 1 \in T BY <1>2, <1>3, <1>4
<1>6. (x - 1) + 1 \in T BY <1>5
<1> QED BY <1>6

\* A function on a..b, with values in V, that starts with base and goes on with g.
Solvable(V, base, g, a, b) ==
  \E f \in [a..b -> V] :
    \A i \in a..b : f[i] = IF i = a THEN base ELSE g[<<i, f[i - 1]>>]

\* There is one.
LEMMA Recursion ==
  ASSUME NEW V, NEW base \in V, NEW g \in [Nat \X V -> V], NEW a \in Nat, NEW b \in Nat, a <= b
  PROVE  Solvable(V, base, g, a, b)
<1> DEFINE Defines(f, m) ==
             \A i \in a..(a + m) : f[i] = IF i = a THEN base ELSE g[<<i, f[i - 1]>>]
           T == {m \in Nat : \E f \in [a..(a + m) -> V] : Defines(f, m)}
<1>1. 0 \in T
  <2>1. [i \in a..(a + 0) |-> base] \in [a..(a + 0) -> V] OBVIOUS
  <2>2. Defines([i \in a..(a + 0) |-> base], 0) OBVIOUS
  <2> QED BY <2>1, <2>2
<1>2. ASSUME NEW m \in T PROVE m + 1 \in T
  <2>1. PICK f \in [a..(a + m) -> V] : Defines(f, m) OBVIOUS
  <2> PICK k \in Nat : k = a + m OBVIOUS
  <2> PICK v : v = g[<<k + 1, f[k]>>] OBVIOUS
  <2> DEFINE h == [i \in a..(k + 1) |-> IF i = k + 1 THEN v ELSE f[i]]
  <2>2. v \in V
    <3>1. f[k] \in V OBVIOUS
    <3>2. <<k + 1, f[k]>> \in Nat \X V BY <3>1
    <3> QED BY <3>2
  <2>3. h \in [a..(k + 1) -> V] BY <2>2
  <2>4. \A i \in a..k : h[i] = f[i] OBVIOUS
  <2>5. h[k + 1] = v OBVIOUS
  <2> HIDE DEF h
  <2>6. ASSUME NEW i \in a..(k + 1)
        PROVE  h[i] = IF i = a THEN base ELSE g[<<i, h[i - 1]>>]
    <3>1. CASE i = k + 1
      <4>1. i - 1 = k /\ k \in a..k /\ i # a BY <3>1
      <4> QED BY <2>4, <2>5, <3>1, <4>1
    <3>2. CASE i # k + 1
      <4>1. i \in a..(a + m) /\ i \in a..k BY <3>2
      <4>2. i # a => i - 1 \in a..k BY <4>1
      <4> QED BY <2>1, <2>4, <4>1, <4>2
    <3> QED BY <3>1, <3>2
  <2>7. a + (m + 1) = k + 1 OBVIOUS
  <2> QED BY <2>3, <2>6, <2>7
<1>3. T = Nat
  <2> HIDE DEF T
  <2>1. T \in SUBSET Nat BY DEF T
  <2> QED BY <1>1, <1>2, <2>1, Induction
<1> HIDE DEF T
<1>4. b - a \in T /\ a + (b - a) = b BY <1>3
<1> USE DEF T
<1>5. PICK f \in [a..(a + (b - a)) -> V] : Defines(f, b - a) BY <1>4
<1> QED BY <1>4, <1>5 DEF Solvable

-----------------------------------------------------------------------------
(* Similarity. *)

\* Dot is the last of the partial sums.
LEMMA DotSums ==
  ASSUME NEW v \in Seq(Int), NEW w \in Seq(Int), Len(v) = Len(w)
  PROVE  \E f \in [0..Len(v) -> Int] :
           /\ f[0] = 0
           /\ \A i \in 1..Len(v) : f[i] = f[i - 1] + v[i] * w[i]
           /\ Dot(v, w) = f[Len(v)]
<1> PICK n \in Nat : n = Len(v) OBVIOUS
<1> DEFINE g == [p \in Nat \X Int |-> p[2] + IF p[1] \in 1..n THEN v[p[1]] * w[p[1]] ELSE 0]
           IsDot(f) == f = [i \in 0..n |-> IF i = 0 THEN 0 ELSE f[i - 1] + v[i] * w[i]]
           dot == CHOOSE f : IsDot(f)
<1>1. \A i \in 1..n : v[i] \in Int /\ w[i] \in Int OBVIOUS
<1>2. g \in [Nat \X Int -> Int]
  <2> SUFFICES ASSUME NEW i \in Nat, NEW x \in Int
               PROVE  x + (IF i \in 1..n THEN v[i] * w[i] ELSE 0) \in Int
    OBVIOUS
  <2> QED BY <1>1
<1>3. \A i \in 1..n, x \in Int : g[<<i, x>>] = x + v[i] * w[i] OBVIOUS
<1> HIDE DEF g
<1>4. PICK h \in [0..n -> Int] :
        \A i \in 0..n : h[i] = IF i = 0 THEN 0 ELSE g[<<i, h[i - 1]>>]
  <2>1. 0 \in Int /\ 0 \in Nat /\ 0 <= n OBVIOUS
  <2>2. Solvable(Int, 0, g, 0, n) BY <1>2, <2>1, Recursion
  <2> QED BY <2>2 DEF Solvable
<1>5. ASSUME NEW i \in 1..n PROVE h[i] = h[i - 1] + v[i] * w[i]
  <2>1. i - 1 \in 0..n /\ i \in 0..n /\ i # 0 OBVIOUS
  <2>2. h[i - 1] \in Int BY <2>1
  <2> QED BY <1>3, <1>4, <2>1, <2>2
<1>6. h[0] = 0
  <2>1. 0 \in 0..n OBVIOUS
  <2> QED BY <1>4, <2>1
<1>7. IsDot(h)
  <2>1. \A i \in 0..n : h[i] = IF i = 0 THEN 0 ELSE h[i - 1] + v[i] * w[i] BY <1>5, <1>6
  <2> QED BY <2>1
<1>8. IsDot(dot) BY <1>7
<1>9. Dot(v, w) = dot[n] BY DEF Dot
<1> HIDE DEF dot
<1>10. dot = [i \in 0..n |-> IF i = 0 THEN 0 ELSE dot[i - 1] + v[i] * w[i]] BY <1>8
<1>11. dot[0] = 0 /\ \A i \in 1..n : dot[i] = dot[i - 1] + v[i] * w[i]
  <2>1. 0 \in 0..n /\ \A i \in 1..n : i \in 0..n /\ i # 0 OBVIOUS
  <2> QED BY <1>10, <2>1
<1>12. \A i \in 0..n : dot[i] \in Int
  <2> DEFINE T == {m \in Nat : m <= n => dot[m] \in Int}
  <2>1. 0 \in T BY <1>11
  <2>2. ASSUME NEW m \in T PROVE m + 1 \in T
    <3> SUFFICES ASSUME m + 1 <= n PROVE dot[m + 1] \in Int OBVIOUS
    <3>1. m + 1 \in 1..n /\ (m + 1) - 1 = m /\ m <= n OBVIOUS
    <3>2. dot[m + 1] = dot[m] + v[m + 1] * w[m + 1] BY <1>11, <3>1
    <3> QED BY <1>1, <3>1, <3>2
  <2> HIDE DEF T
  <2>3. T \in SUBSET Nat BY DEF T
  <2>4. T = Nat BY <2>1, <2>2, <2>3, Induction
  <2> QED BY <2>4 DEF T
<1>13. dot \in [0..n -> Int] BY <1>10, <1>12
<1> QED BY <1>9, <1>11, <1>13

\* A scalar product is an integer, that of a vector with itself not negative.
LEMMA DotType ==
  ASSUME NEW v \in Seq(Int), NEW w \in Seq(Int), Len(v) = Len(w)
  PROVE  Dot(v, w) \in Int
<1> PICK f \in [0..Len(v) -> Int] : Dot(v, w) = f[Len(v)] BY DotSums
<1>1. Len(v) \in Nat /\ Len(v) \in 0..Len(v) OBVIOUS
<1> QED BY <1>1

LEMMA SquareNotNegative == ASSUME NEW x \in Int PROVE x * x \in Int /\ x * x >= 0
OBVIOUS

LEMMA NormNotNegative == ASSUME NEW v \in Seq(Int) PROVE Dot(v, v) >= 0
<1> PICK n \in Nat : n = Len(v) OBVIOUS
<1> PICK f \in [0..n -> Int] : /\ f[0] = 0
                             /\ \A i \in 1..n : f[i] = f[i - 1] + v[i] * v[i]
                             /\ Dot(v, v) = f[n]
  BY DotSums
<1> DEFINE T == {m \in Nat : m <= n => f[m] >= 0}
<1>1. 0 \in T OBVIOUS
<1>2. ASSUME NEW m \in T PROVE m + 1 \in T
  <2> SUFFICES ASSUME m + 1 <= n PROVE f[m + 1] >= 0 OBVIOUS
  <2>1. m + 1 \in 1..n /\ (m + 1) - 1 = m /\ m <= n /\ m \in 0..n OBVIOUS
  <2>2. f[m + 1] = f[m] + v[m + 1] * v[m + 1] BY <2>1
  <2>3. v[m + 1] \in Int BY <2>1
  <2>4. v[m + 1] * v[m + 1] \in Int /\ v[m + 1] * v[m + 1] >= 0 BY <2>3, SquareNotNegative
  <2>5. f[m] \in Int /\ f[m] >= 0 BY <2>1
  <2> QED BY <2>2, <2>4, <2>5
<1> HIDE DEF T
<1>3. T \in SUBSET Nat BY DEF T
<1>4. n \in T BY <1>1, <1>2, <1>3, Induction
<1>5. f[n] >= 0 BY <1>4 DEF T
<1> QED BY <1>5

\* Fractions with a positive denominator.
Fractions == [num : Int, den : Nat \ {0}]

LEMMA CosineType ==
  ASSUME NEW v \in Vectors, NEW w \in Vectors
  PROVE  Cosine(v, w) \in Fractions
<1>1. v \in Seq(Int) /\ w \in Seq(Int) /\ Len(v) = Len(w) BY RetrievalAssumption
<1> PICK x \in Int : x = Dot(v, w) BY <1>1, DotType
<1> PICK a \in Nat : a = Dot(v, v) BY <1>1, DotType, NormNotNegative
<1> PICK b \in Nat : b = Dot(w, w) BY <1>1, DotType, NormNotNegative
<1>2. a * b \in Nat OBVIOUS
<1>3. Sign(x) \in Int BY DEF Sign
<1>4. Sign(x) * x * x \in Int BY <1>3
<1>5. Cosine(v, w) = IF a * b = 0 THEN [num |-> 0, den |-> 1]
                                  ELSE [num |-> Sign(x) * x * x, den |-> a * b]
  BY DEF Cosine
<1> QED BY <1>2, <1>4, <1>5 DEF Fractions

\* What scores no less than a fraction that is above another is above it too.
LEMMA LessTransitive ==
  ASSUME NEW r \in Fractions, NEW s \in Fractions, NEW t \in Fractions,
         Less(r, t), ~ Less(s, t)
  PROVE  Less(r, s)
<1> PICK a \in Int, b \in Nat \ {0} : r.num = a /\ r.den = b BY DEF Fractions
<1> PICK c \in Int, d \in Nat \ {0} : s.num = c /\ s.den = d BY DEF Fractions
<1> PICK e \in Int, f \in Nat \ {0} : t.num = e /\ t.den = f BY DEF Fractions
<1>1. a * f < e * b /\ e * d <= c * f BY DEF Less
<1> PICK x \in Int, y \in Int : x = a * f /\ y = e * b OBVIOUS
<1> PICK z \in Int, u \in Int : z = e * d /\ u = c * f OBVIOUS
<1>2. x * d < y * d
  <2>1. y - x >= 1 BY <1>1
  <2>2. (y - x) * d >= 1 BY <2>1
  <2>3. (y - x) * d = y * d - x * d OBVIOUS
  <2> QED BY <2>2, <2>3
<1>3. z * b <= u * b
  <2>1. u - z >= 0 BY <1>1
  <2>2. (u - z) * b >= 0 BY <2>1
  <2>3. (u - z) * b = u * b - z * b OBVIOUS
  <2> QED BY <2>2, <2>3
<1>4. y * d = z * b OBVIOUS
<1> PICK g \in Int, h \in Int : g = a * d /\ h = c * b OBVIOUS
<1>5. x * d = g * f /\ u * b = h * f OBVIOUS
<1>6. g * f < h * f BY <1>2, <1>3, <1>4, <1>5
<1>7. g < h
  <2> SUFFICES ASSUME g - h >= 0 PROVE FALSE OBVIOUS
  <2>1. (g - h) * f >= 0 OBVIOUS
  <2>2. (g - h) * f = g * f - h * f OBVIOUS
  <2> QED BY <1>6, <2>1, <2>2
<1> QED BY <1>7 DEF Less

-----------------------------------------------------------------------------
(* Ranking. *)

\* The ranks of the relevant chunks, for the ranking p.
RelevantRanks(p, q, corpus) ==
  {i \in DOMAIN p : Less(Threshold, Cosine(q, corpus[p[i]].vec))}

\* What the model knows of the MEMOIRE.
Knowledge == Seq([chunk : Nat, vec : Vectors])

LEMMA KnowledgeAt ==
  ASSUME NEW corpus \in Knowledge, NEW m \in 1..Len(corpus)
  PROVE  corpus[m] \in [chunk : Nat, vec : Vectors]
<1> DEFINE S == [chunk : Nat, vec : Vectors]
<1>1. corpus \in Seq(S) BY DEF Knowledge
<1> HIDE DEF S
<1>2. m \in 1..Len(corpus) => corpus[m] \in S BY <1>1
<1> QED BY <1>2 DEF S

\* A set of ranks that holds every rank before one of its own is a prefix.
LEMMA Prefix ==
  ASSUME NEW n \in Nat, NEW R \in SUBSET (1..n),
         \A i, j \in 1..n : i < j /\ j \in R => i \in R
  PROVE  \E c \in 0..n : R = 1..c
<1> DEFINE T == {m \in Nat : m <= n => \E c \in 0..m : R \cap (1..m) = 1..c}
<1>1. 0 \in T
  <2>1. 0 \in 0..0 /\ R \cap (1..0) = 1..0 OBVIOUS
  <2> QED BY <2>1
<1>2. ASSUME NEW m \in T PROVE m + 1 \in T
  <2> SUFFICES ASSUME m + 1 <= n
               PROVE  \E c \in 0..(m + 1) : R \cap (1..(m + 1)) = 1..c
    OBVIOUS
  <2>1. CASE m + 1 \in R
    <3>1. R \cap (1..(m + 1)) = 1..(m + 1) BY <2>1
    <3>2. m + 1 \in 0..(m + 1) OBVIOUS
    <3> QED BY <3>1, <3>2
  <2>2. CASE m + 1 \notin R
    <3>1. PICK c \in 0..m : R \cap (1..m) = 1..c OBVIOUS
    <3>2. R \cap (1..(m + 1)) = R \cap (1..m) BY <2>2
    <3>3. c \in 0..(m + 1) OBVIOUS
    <3> QED BY <3>1, <3>2, <3>3
  <2> QED BY <2>1, <2>2
<1> HIDE DEF T
<1>3. T \in SUBSET Nat BY DEF T
<1>4. n \in T BY <1>1, <1>2, <1>3, Induction
<1>5. PICK c \in 0..n : R \cap (1..n) = 1..c BY <1>4 DEF T
<1> QED BY <1>5

\* A ranking holds every chunk once.
LEMMA RankingIsBijection ==
  ASSUME NEW corpus \in Knowledge, NEW q, NEW p \in Rankings(q, corpus)
  PROVE  /\ p \in [1..Len(corpus) -> 1..Len(corpus)]
         /\ \A i, j \in 1..Len(corpus) : i # j => p[i] # p[j]
         /\ \A m \in 1..Len(corpus) : \E i \in 1..Len(corpus) : p[i] = m
<1> PICK n \in Nat : n = Len(corpus) BY DEF Knowledge
<1>1. DOMAIN corpus = 1..n BY DEF Knowledge
<1>2. IsFiniteSet(1..n) /\ Cardinality(1..n) = n
  <2>1. 1 \in Int /\ n \in Int OBVIOUS
  <2>2. IsFiniteSet(1..n) /\ Cardinality(1..n) = IF 1 > n THEN 0 ELSE n - 1 + 1
    BY <2>1, FS_Interval, Zenon
  <2> QED BY <2>2
<1>3. p \in [1..n -> 1..n] /\ \A i, j \in 1..n : i # j => p[i] # p[j]
  BY <1>1, <1>2 DEF Rankings, SetToSeqs
<1>4. p \in Injection(1..n, 1..n) BY <1>3 DEF Injection, IsInjective
<1>5. p \in Surjection(1..n, 1..n) BY <1>2, <1>4, FS_Injection
<1> QED BY <1>3, <1>5 DEF Surjection

\* Sorting puts the relevant chunks first.
LEMMA RelevantFirst ==
  ASSUME NEW corpus \in Knowledge, NEW q \in Vectors, NEW p \in Rankings(q, corpus)
  PROVE  \E c \in 0..Len(corpus) : RelevantRanks(p, q, corpus) = 1..c
<1> PICK n \in Nat : n = Len(corpus) BY DEF Knowledge
<1> DEFINE score(i) == Cosine(q, corpus[p[i]].vec)
<1>1. p \in [1..n -> 1..n] BY RankingIsBijection
<1>2. \A i, j \in 1..n : i < j => ~ Less(score(i), score(j)) BY <1>1 DEF Rankings
<1>3. \A i \in 1..n : score(i) \in Fractions
  <2> TAKE i \in 1..n
  <2>1. p[i] \in 1..n BY <1>1
  <2>2. corpus[p[i]] \in [chunk : Nat, vec : Vectors] BY <2>1, KnowledgeAt
  <2>3. corpus[p[i]].vec \in Vectors BY <2>2
  <2> QED BY <2>3, CosineType
<1>4. Threshold \in Fractions BY DEF Threshold, Fractions
<1> PICK R : R = RelevantRanks(p, q, corpus) OBVIOUS
<1>5. R = {i \in 1..n : Less(Threshold, score(i))} BY <1>1 DEF RelevantRanks
<1> HIDE DEF score
<1>6. \A i, j \in 1..n : i < j /\ j \in R => i \in R
  BY <1>2, <1>3, <1>4, <1>5, LessTransitive
<1>7. R \in SUBSET (1..n) BY <1>5
<1> QED BY <1>6, <1>7, Prefix

\* Take goes through the ranks one by one.
OneByOne(n, p, k, q, corpus) ==
  \E f \in [0..k -> Seq(1..n)] :
    /\ f[0] = <<>>
    /\ \A i \in 1..k : f[i] = IF i \in RelevantRanks(p, q, corpus)
                            THEN Append(f[i - 1], p[i]) ELSE f[i - 1]
    /\ Take(p, k, q, corpus) = f[k]

LEMMA TakeSteps ==
  ASSUME NEW n \in Nat, NEW p \in [1..n -> 1..n], NEW k \in 0..n, NEW q, NEW corpus
  PROVE  OneByOne(n, p, k, q, corpus)
<1> PICK V : V = Seq(1..n) OBVIOUS
<1> PICK R : R = RelevantRanks(p, q, corpus) OBVIOUS
<1> DEFINE g == [x \in Nat \X V |-> IF x[1] \in 1..k /\ x[1] \in R
                                    THEN Append(x[2], p[x[1]]) ELSE x[2]]
           Steps(f) == f = [i \in 0..k |->
                              IF i = 0 THEN <<>>
                              ELSE IF Less(Threshold, Cosine(q, corpus[p[i]].vec))
                                   THEN Append(f[i - 1], p[i])
                              ELSE f[i - 1]]
           taken == CHOOSE f : Steps(f)
<1>1. \A i \in 1..k : i \in R <=> Less(Threshold, Cosine(q, corpus[p[i]].vec))
  BY DEF RelevantRanks
<1>2. g \in [Nat \X V -> V]
  <2> SUFFICES ASSUME NEW i \in Nat, NEW x \in V
               PROVE  (IF i \in 1..k /\ i \in R THEN Append(x, p[i]) ELSE x) \in V
    OBVIOUS
  <2>1. CASE i \in 1..k /\ i \in R
    <3>1. p[i] \in 1..n BY <2>1
    <3>2. x \in Seq(1..n) OBVIOUS
    <3>3. Append(x, p[i]) \in Seq(1..n) BY <3>1, <3>2
    <3> QED BY <2>1, <3>3
  <2>2. CASE ~ (i \in 1..k /\ i \in R) BY <2>2
  <2> QED BY <2>1, <2>2
<1>3. \A i \in 1..k, x \in V :
        g[<<i, x>>] = IF i \in R THEN Append(x, p[i]) ELSE x
  OBVIOUS
<1> HIDE DEF g
<1>4. PICK h \in [0..k -> V] :
        \A i \in 0..k : h[i] = IF i = 0 THEN <<>> ELSE g[<<i, h[i - 1]>>]
  <2>1. <<>> \in V /\ 0 \in Nat /\ k \in Nat /\ 0 <= k OBVIOUS
  <2>2. Solvable(V, <<>>, g, 0, k) BY <1>2, <2>1, Recursion
  <2> QED BY <2>2 DEF Solvable
<1>5. ASSUME NEW i \in 1..k
      PROVE  h[i] = IF i \in R THEN Append(h[i - 1], p[i]) ELSE h[i - 1]
  <2>1. i - 1 \in 0..k /\ i \in 0..k /\ i # 0 OBVIOUS
  <2>2. h[i - 1] \in V BY <2>1
  <2>3. h[i] = g[<<i, h[i - 1]>>] BY <1>4, <2>1
  <2> QED BY <1>3, <2>2, <2>3
<1>6. h[0] = <<>>
  <2>1. 0 \in 0..k OBVIOUS
  <2> QED BY <1>4, <2>1
<1>7. Steps(h)
  <2>1. \A i \in 0..k : h[i] = IF i = 0 THEN <<>>
                              ELSE IF Less(Threshold, Cosine(q, corpus[p[i]].vec))
                                   THEN Append(h[i - 1], p[i])
                              ELSE h[i - 1]
    <3> TAKE i \in 0..k
    <3>1. CASE i = 0 BY <1>6, <3>1
    <3>2. CASE i # 0
      <4>1. i \in 1..k BY <3>2
      <4>2. h[i] = IF i \in R THEN Append(h[i - 1], p[i]) ELSE h[i - 1] BY <1>5, <4>1
      <4>3. i \in R <=> Less(Threshold, Cosine(q, corpus[p[i]].vec)) BY <1>1, <4>1
      <4> QED BY <3>2, <4>2, <4>3
    <3> QED BY <3>1, <3>2
  <2> QED BY <2>1
<1>8. Steps(taken) BY <1>7
<1>9. Take(p, k, q, corpus) = taken[k] BY DEF Take
<1>10. taken = h
  <2> DEFINE T == {m \in Nat : m <= k => taken[m] = h[m]}
  <2> HIDE DEF taken
  <2>1. /\ taken[0] = <<>>
        /\ \A i \in 1..k : taken[i] = IF i \in R THEN Append(taken[i - 1], p[i]) ELSE taken[i - 1]
    <3>1. 0 \in 0..k /\ \A i \in 1..k : i \in 0..k /\ i # 0 OBVIOUS
    <3> QED BY <1>1, <1>8, <3>1
  <2>2. 0 \in T BY <1>6, <2>1
  <2>3. ASSUME NEW m \in T PROVE m + 1 \in T
    <3> SUFFICES ASSUME m + 1 <= k PROVE taken[m + 1] = h[m + 1] OBVIOUS
    <3>1. m + 1 \in 1..k /\ (m + 1) - 1 = m /\ m <= k OBVIOUS
    <3>2. taken[m] = h[m] BY <3>1
    <3>3. taken[m + 1] = IF m + 1 \in R THEN Append(taken[m], p[m + 1]) ELSE taken[m]
      BY <2>1, <3>1
    <3>4. h[m + 1] = IF m + 1 \in R THEN Append(h[m], p[m + 1]) ELSE h[m]
      BY <1>5, <3>1
    <3> QED BY <3>2, <3>3, <3>4
  <2> HIDE DEF T
  <2>4. T \in SUBSET Nat BY DEF T
  <2>5. T = Nat BY <2>2, <2>3, <2>4, Induction
  <2>6. \A i \in 0..k : taken[i] = h[i]
    <3> TAKE i \in 0..k
    <3>1. i \in T /\ i <= k BY <2>5
    <3> QED BY <3>1 DEF T
  <2>7. taken = [i \in 0..k |-> taken[i]] BY <1>8
  <2> QED BY <2>6, <2>7
<1> HIDE DEF taken
<1> QED BY <1>5, <1>6, <1>9, <1>10 DEF OneByOne

\* The first k chunks of a ranking.
FirstOf(p, k) == [i \in 1..k |-> p[i]]
FirstSet(p, k) == {p[i] : i \in 1..k}

\* It stops at the first that is not relevant, when the relevant ones come first.
LEMMA TakePrefix ==
  ASSUME NEW corpus \in Knowledge, NEW q \in Vectors, NEW p \in Rankings(q, corpus),
         NEW k \in 0..Len(corpus)
  PROVE  \E c \in 0..Len(corpus) :
           /\ RelevantRanks(p, q, corpus) = 1..c
           /\ Take(p, k, q, corpus) = FirstOf(p, IF k < c THEN k ELSE c)
<1> PICK n \in Nat : n = Len(corpus) BY DEF Knowledge
<1>ranking. p \in [1..n -> 1..n] BY RankingIsBijection
<1>cut. PICK c \in 0..n : RelevantRanks(p, q, corpus) = 1..c BY RelevantFirst
<1> DEFINE least(m) == IF m < c THEN m ELSE c
           first(m) == [i \in 1..m |-> p[i]]
<1>1. PICK f \in [0..k -> Seq(1..n)] :
        /\ f[0] = <<>>
        /\ \A i \in 1..k : f[i] = IF i \in RelevantRanks(p, q, corpus)
                                THEN Append(f[i - 1], p[i]) ELSE f[i - 1]
        /\ Take(p, k, q, corpus) = f[k]
  <2> HIDE DEF least, first
  <2>1. OneByOne(n, p, k, q, corpus) BY <1>ranking, TakeSteps
  <2> QED BY <2>1 DEF OneByOne
<1>2. first(0) = <<>> /\ least(0) = 0 OBVIOUS
<1>3. ASSUME NEW m \in Nat, m + 1 \in 1..c
      PROVE  Append(first(m), p[m + 1]) = first(m + 1)
  <2>1. Len(first(m)) = m OBVIOUS
  <2> QED BY <1>ranking, <2>1
<1>4. ASSUME NEW m \in Nat
      PROVE  /\ m + 1 \in 1..c => least(m) = m /\ least(m + 1) = m + 1
             /\ m + 1 \notin 1..c => least(m) = c /\ least(m + 1) = c
  BY ONLY m \in Nat, n \in Nat, c \in 0..n
<1> HIDE DEF least, first
<1> DEFINE T == {m \in Nat : m <= k => f[m] = first(least(m))}
<1>5. 0 \in T BY <1>1, <1>2
<1>6. ASSUME NEW m \in T PROVE m + 1 \in T
  <2> SUFFICES ASSUME m + 1 <= k PROVE f[m + 1] = first(least(m + 1)) OBVIOUS
  <2>1. m + 1 \in 1..k /\ (m + 1) - 1 = m /\ m <= k OBVIOUS
  <2>2. f[m] = first(least(m)) BY <2>1
  <2>3. f[m + 1] = IF m + 1 \in 1..c THEN Append(f[m], p[m + 1]) ELSE f[m] BY <1>1, <1>cut, <2>1
  <2>4. CASE m + 1 \in 1..c BY <1>3, <1>4, <2>2, <2>3, <2>4
  <2>5. CASE m + 1 \notin 1..c BY <1>4, <2>2, <2>3, <2>5
  <2> QED BY <2>4, <2>5
<1> HIDE DEF T
<1>7. T \in SUBSET Nat BY DEF T
<1>8. k \in T
  <2>1. T = Nat BY <1>5, <1>6, <1>7, Induction
  <2> QED BY <2>1
<1>9. f[k] = first(least(k)) BY <1>8 DEF T
<1>10. Take(p, k, q, corpus) = FirstOf(p, IF k < c THEN k ELSE c)
  BY <1>1, <1>9 DEF first, least, FirstOf
<1> QED BY <1>cut, <1>10

\* The first j chunks of a ranking are j chunks.
LEMMA FirstRanks ==
  ASSUME NEW n \in Nat, NEW p \in [1..n -> 1..n],
         \A i, j \in 1..n : i # j => p[i] # p[j],
         NEW k \in 0..n
  PROVE  Cardinality(FirstSet(p, k)) = k
<1> DEFINE S == FirstSet(p, k)
           first == [i \in 1..k |-> p[i]]
<1>1. IsFiniteSet(1..k) /\ Cardinality(1..k) = k
  <2>1. 1 \in Int /\ k \in Int OBVIOUS
  <2>2. IsFiniteSet(1..k) /\ Cardinality(1..k) = IF 1 > k THEN 0 ELSE k - 1 + 1
    BY <2>1, FS_Interval, Zenon
  <2> QED BY <2>2
<1>2. first \in Injection(1..k, S) BY DEF Injection, IsInjective, FirstSet
<1>3. first \in Surjection(1..k, S) BY DEF Surjection, FirstSet
<1>4. first \in Bijection(1..k, S) BY <1>2, <1>3 DEF Bijection
<1>5. ExistsBijection(1..k, S) BY <1>4 DEF ExistsBijection
<1> HIDE DEF S, first
<1>6. Cardinality(S) = Cardinality(1..k) BY <1>1, <1>5, FS_Bijection
<1> QED BY <1>1, <1>6 DEF S

LEMMA MinOfTwo ==
  ASSUME NEW a \in Nat, NEW b \in Nat
  PROVE  Min({a, b}) = IF a < b THEN a ELSE b
<1> PICK m \in Nat : m = IF a < b THEN a ELSE b OBVIOUS
<1>1. m \in {a, b} /\ \A y \in {a, b} : m <= y OBVIOUS
<1>2. \A x \in {a, b} : (\A y \in {a, b} : x <= y) => x = m OBVIOUS
<1> QED BY <1>1, <1>2 DEF Min

\* What getTopKSimilar returns is the best prompt.
LEMMA TopKIsBest ==
  ASSUME knowledge \in Knowledge, query \in Vectors, prompt \in TopK(query, knowledge)
  PROVE  PromptIsBest
<1> PICK n \in Nat : n = Len(knowledge) BY DEF Knowledge
<1> PICK k \in 0..n : k = IF n < K THEN n ELSE K BY RetrievalAssumption
<1>1. PICK p \in Rankings(query, knowledge) : prompt = Take(p, k, query, knowledge)
  BY DEF TopK
<1>2. /\ p \in [1..n -> 1..n]
      /\ \A i, j \in 1..n : i # j => p[i] # p[j]
      /\ \A m \in 1..n : \E i \in 1..n : p[i] = m
  BY RankingIsBijection
<1>3. PICK c \in 0..n :
        /\ RelevantRanks(p, query, knowledge) = 1..c
        /\ Take(p, k, query, knowledge) = FirstOf(p, IF k < c THEN k ELSE c)
  BY TakePrefix
<1> PICK m \in 0..n : m = IF k < c THEN k ELSE c OBVIOUS
<1>4. prompt = [i \in 1..m |-> p[i]] BY <1>1, <1>3 DEF FirstOf
<1>5. \A i, j \in 1..n : i < j => ~ Less(Score(p[i]), Score(p[j]))
  BY <1>2 DEF Rankings, Score
<1>6. DOMAIN knowledge = 1..n BY DEF Knowledge
<1>7. Relevant = FirstSet(p, c)
  <2>1. \A i \in 1..n : i \in 1..c <=> Less(Threshold, Score(p[i]))
    BY <1>2, <1>3 DEF RelevantRanks, Score
  <2>2. Relevant \subseteq FirstSet(p, c)
    <3> SUFFICES ASSUME NEW r \in Relevant PROVE r \in FirstSet(p, c) OBVIOUS
    <3>1. r \in 1..n /\ Less(Threshold, Score(r)) BY <1>6 DEF Relevant
    <3>2. PICK i \in 1..n : p[i] = r BY <1>2, <3>1
    <3>3. i \in 1..c BY <2>1, <3>1, <3>2
    <3> QED BY <3>2, <3>3 DEF FirstSet
  <2>3. ASSUME NEW i \in 1..c PROVE p[i] \in Relevant
    <3>1. i \in 1..n OBVIOUS
    <3>2. p[i] \in 1..n BY <1>2, <3>1
    <3> QED BY <1>6, <2>1, <3>1, <3>2 DEF Relevant
  <2> QED BY <2>2, <2>3 DEF FirstSet
<1>8. Range(prompt) = FirstSet(p, m) BY <1>4 DEF Range, FirstSet
<1>9. Len(prompt) = m BY <1>4
<1>10. Range(prompt) \subseteq Relevant BY <1>7, <1>8 DEF FirstSet
<1>11. Cardinality(Range(prompt)) = Len(prompt)
  <2>1. Cardinality(FirstSet(p, m)) = m BY <1>2, FirstRanks
  <2> QED BY <1>8, <1>9, <2>1
<1>12. Len(prompt) = Min({K, Cardinality(Relevant)})
  <2>1. Cardinality(Relevant) = c BY <1>2, <1>7, FirstRanks
  <2>2. K \in Nat BY RetrievalAssumption
  <2>3. Min({K, c}) = IF K < c THEN K ELSE c BY <2>2, MinOfTwo
  <2>4. m = IF K < c THEN K ELSE c BY <2>2
  <2> QED BY <1>9, <2>1, <2>3, <2>4
<1>13. \A r \in Range(prompt), s \in Relevant \ Range(prompt) : ~ Less(Score(r), Score(s))
  <2> TAKE r \in Range(prompt), s \in Relevant \ Range(prompt)
  <2>1. PICK i \in 1..m : r = p[i] BY <1>8 DEF FirstSet
  <2>2. PICK j \in 1..c : s = p[j] BY <1>7 DEF FirstSet
  <2>3. j \notin 1..m BY <1>8, <2>2 DEF FirstSet
  <2>4. i \in 1..n /\ j \in 1..n /\ i < j BY <2>3
  <2> QED BY <1>5, <2>1, <2>2, <2>4
<1>14. \A i, j \in DOMAIN prompt : i < j => ~ Less(Score(prompt[i]), Score(prompt[j]))
  <2>1. DOMAIN prompt = 1..m /\ \A i \in 1..m : prompt[i] = p[i] /\ i \in 1..n BY <1>4
  <2> QED BY <1>5, <2>1
<1> QED BY <1>10, <1>11, <1>12, <1>13, <1>14 DEF PromptIsBest

-----------------------------------------------------------------------------
(* Answers. *)

\* FlattenSeq goes through the sequences one by one.
OneSequenceByOne(V, n, seqs) ==
  \E f \in [0..n -> Seq(V)] :
    /\ f[0] = <<>>
    /\ \A i \in 1..n : f[i] = f[i - 1] \o seqs[i]
    /\ FlattenSeq(seqs) = f[n]

LEMMA FlattenSteps ==
  ASSUME NEW V, NEW seqs \in Seq(Seq(V)), NEW n \in Nat, n = Len(seqs)
  PROVE  OneSequenceByOne(V, n, seqs)
<1> PICK W : W = Seq(V) OBVIOUS
<1> DEFINE g == [x \in Nat \X W |-> IF x[1] \in 1..n THEN x[2] \o seqs[x[1]] ELSE x[2]]
           Steps(f) == f = [i \in 1..n |-> IF i = 1 THEN seqs[i] ELSE f[i - 1] \o seqs[i]]
           flat == CHOOSE f : Steps(f)
<1>1. \A i \in 1..n : seqs[i] \in W
  <2>1. seqs \in Seq(W) OBVIOUS
  <2> QED BY <2>1
<1>2. g \in [Nat \X W -> W]
  <2> SUFFICES ASSUME NEW i \in Nat, NEW x \in W
               PROVE  (IF i \in 1..n THEN x \o seqs[i] ELSE x) \in W
    OBVIOUS
  <2>1. CASE i \in 1..n
    <3>1. seqs[i] \in Seq(V) /\ x \in Seq(V) BY <1>1, <2>1
    <3>2. x \o seqs[i] \in Seq(V) BY <3>1
    <3> QED BY <2>1, <3>2
  <2>2. CASE i \notin 1..n BY <2>2
  <2> QED BY <2>1, <2>2
<1>3. ASSUME NEW i \in 1..n, NEW x \in W PROVE g[<<i, x>>] = x \o seqs[i]
  <2>1. <<i, x>> \in Nat \X W OBVIOUS
  <2> QED BY <2>1
<1> HIDE DEF g
<1>unit. \A x \in W : <<>> \o x = x OBVIOUS
<1>typed. seqs \in Seq(W) OBVIOUS
<1>4. PICK h \in [0..n -> W] :
        \A i \in 0..n : h[i] = IF i = 0 THEN <<>> ELSE g[<<i, h[i - 1]>>]
  <2>1. <<>> \in W /\ 0 \in Nat /\ 0 <= n OBVIOUS
  <2>2. Solvable(W, <<>>, g, 0, n) BY <1>2, <2>1, Recursion
  <2> QED BY <2>2 DEF Solvable
<1>5. ASSUME NEW i \in 1..n PROVE h[i] = h[i - 1] \o seqs[i]
  <2>1. i - 1 \in 0..n /\ i \in 0..n /\ i # 0 OBVIOUS
  <2>2. h[i - 1] \in W BY <2>1
  <2>3. h[i] = g[<<i, h[i - 1]>>] BY <1>4, <2>1
  <2> QED BY <1>3, <2>2, <2>3
<1>6. h[0] = <<>>
  <2>1. 0 \in 0..n OBVIOUS
  <2> QED BY <1>4, <2>1
<1>7. CASE n = 0
  <2>1. seqs = <<>>
    <3>1. \A x \in Seq(W) : Len(x) = 0 => x = <<>> OBVIOUS
    <3> QED BY <1>7, <1>typed, <3>1
  <2>2. FlattenSeq(seqs) = seqs BY <1>7 DEF FlattenSeq
  <2> QED BY <1>5, <1>6, <1>7, <2>1, <2>2 DEF OneSequenceByOne
<1>8. CASE n # 0
  <2> DEFINE part == [i \in 1..n |-> h[i]]
  <2>1. Steps(part)
    <3>1. \A i \in 1..n : h[i] = IF i = 1 THEN seqs[i] ELSE part[i - 1] \o seqs[i]
      <4> TAKE i \in 1..n
      <4>1. CASE i = 1
        <5>1. h[i] = h[i - 1] \o seqs[i] BY <1>5
        <5>2. seqs[i] \in W BY <1>1
        <5>3. h[i - 1] = <<>> BY <1>6, <4>1
        <5> QED BY <1>unit, <4>1, <5>1, <5>2, <5>3
      <4>2. CASE i # 1
        <5>1. i - 1 \in 1..n BY <4>2
        <5> QED BY <1>5, <4>2, <5>1
      <4> QED BY <4>1, <4>2
    <3> QED BY <3>1
  <2>2. Steps(flat) BY <2>1
  <2>3. FlattenSeq(seqs) = flat[n] BY <1>8 DEF FlattenSeq
  <2> HIDE DEF flat, part
  <2>4. /\ flat[1] = seqs[1]
        /\ \A i \in 2..n : flat[i] = flat[i - 1] \o seqs[i]
    <3>1. 1 \in 1..n /\ \A i \in 2..n : i \in 1..n /\ i # 1 BY <1>8
    <3> QED BY <2>2, <3>1
  <2> DEFINE T == {m \in Nat : m + 1 <= n => flat[m + 1] = h[m + 1]}
  <2>5. 0 \in T
    <3>1. PICK i \in 1..n : i = 1 BY <1>8
    <3>2. h[i] = h[i - 1] \o seqs[i] BY <1>5
    <3>3. seqs[i] \in W BY <1>1
    <3>4. h[i - 1] = <<>> BY <1>6, <3>1
    <3>5. h[1] = seqs[1] BY <1>unit, <3>1, <3>2, <3>3, <3>4
    <3> QED BY <2>4, <3>5
  <2>6. ASSUME NEW m \in T PROVE m + 1 \in T
    <3> SUFFICES ASSUME (m + 1) + 1 <= n PROVE flat[(m + 1) + 1] = h[(m + 1) + 1] OBVIOUS
    <3> PICK k \in Nat : k = (m + 1) + 1 OBVIOUS
    <3>1. k \in 2..n /\ k \in 1..n /\ k - 1 = m + 1 /\ m + 1 <= n OBVIOUS
    <3>2. flat[m + 1] = h[m + 1] BY <3>1
    <3>3. flat[k] = flat[k - 1] \o seqs[k] BY <2>4, <3>1
    <3>4. h[k] = h[k - 1] \o seqs[k] BY <1>5, <3>1
    <3> QED BY <3>1, <3>2, <3>3, <3>4
  <2> HIDE DEF T
  <2>7. T \in SUBSET Nat BY DEF T
  <2>8. n - 1 \in T
    <3>1. T = Nat BY <2>5, <2>6, <2>7, Induction
    <3> QED BY <1>8, <3>1
  <2>9. flat[n] = h[n] BY <2>8 DEF T
  <2> QED BY <1>5, <1>6, <2>3, <2>9 DEF OneSequenceByOne
<1> QED BY <1>7, <1>8

\* Sequences that are all empty have nothing in them.
LEMMA FlattenEmpty ==
  ASSUME NEW V, NEW seqs \in Seq(Seq(V)), NEW n \in Nat, n = Len(seqs),
         \A i \in 1..n : seqs[i] = <<>>
  PROVE  FlattenSeq(seqs) = <<>>
<1>1. OneSequenceByOne(V, n, seqs) BY FlattenSteps
<1>2. PICK f \in [0..n -> Seq(V)] :
        /\ f[0] = <<>>
        /\ \A i \in 1..n : f[i] = f[i - 1] \o seqs[i]
        /\ FlattenSeq(seqs) = f[n]
  BY <1>1 DEF OneSequenceByOne
<1> DEFINE T == {m \in Nat : m <= n => f[m] = <<>>}
<1>3. 0 \in T BY <1>2
<1>4. ASSUME NEW m \in T PROVE m + 1 \in T
  <2> SUFFICES ASSUME m + 1 <= n PROVE f[m + 1] = <<>> OBVIOUS
  <2>1. m + 1 \in 1..n /\ (m + 1) - 1 = m /\ m <= n OBVIOUS
  <2>2. f[m + 1] = <<>> \o <<>> BY <1>2, <2>1
  <2> QED BY <2>2
<1> HIDE DEF T
<1>5. T \in SUBSET Nat BY DEF T
<1>6. T = Nat BY <1>3, <1>4, <1>5, Induction
<1>7. f[n] = <<>> BY <1>6 DEF T
<1> QED BY <1>2, <1>7

\* t is s with its k-th of n sequences set, the first after which all are empty.
SetsNext(V, n, s, t, k) ==
  /\ s \in Seq(Seq(V)) /\ n = Len(s)
  /\ t \in Seq(Seq(V)) /\ n = Len(t)
  /\ \A i \in 1..n : i < k => s[i] = t[i]
  /\ \A i \in 1..n : i >= k => s[i] = <<>>
  /\ \A i \in 1..n : i > k => t[i] = <<>>

\* Flattened, it goes to the end.
FlattenExtends(s, t, k) == FlattenSeq(t) = FlattenSeq(s) \o t[k]

LEMMA FlattenLater ==
  ASSUME NEW V, NEW n \in Nat, NEW s, NEW t, NEW k \in 1..n, SetsNext(V, n, s, t, k)
  PROVE  FlattenExtends(s, t, k)
<1> USE DEF SetsNext
<1>1. OneSequenceByOne(V, n, s) /\ OneSequenceByOne(V, n, t) BY FlattenSteps
<1>2. PICK f \in [0..n -> Seq(V)] :
        /\ f[0] = <<>>
        /\ \A i \in 1..n : f[i] = f[i - 1] \o s[i]
        /\ FlattenSeq(s) = f[n]
  BY <1>1 DEF OneSequenceByOne
<1>3. PICK g \in [0..n -> Seq(V)] :
        /\ g[0] = <<>>
        /\ \A i \in 1..n : g[i] = g[i - 1] \o t[i]
        /\ FlattenSeq(t) = g[n]
  BY <1>1 DEF OneSequenceByOne
<1>4. \A x \in Seq(V) : x \o <<>> = x OBVIOUS
<1> DEFINE T == {m \in Nat : m <= n => g[m] = IF m < k THEN f[m] ELSE f[m] \o t[k]}
<1>5. 0 \in T BY <1>2, <1>3
<1>6. ASSUME NEW m \in T PROVE m + 1 \in T
  <2> SUFFICES ASSUME m + 1 <= n
               PROVE  g[m + 1] = IF m + 1 < k THEN f[m + 1] ELSE f[m + 1] \o t[k]
    OBVIOUS
  <2>1. m + 1 \in 1..n /\ (m + 1) - 1 = m /\ m <= n /\ m \in 0..n OBVIOUS
  <2>nat. m \in Nat /\ k \in Nat OBVIOUS
  <2>2. g[m] = IF m < k THEN f[m] ELSE f[m] \o t[k] BY <2>1
  <2>3. f[m + 1] = f[m] \o s[m + 1] /\ g[m + 1] = g[m] \o t[m + 1] BY <1>2, <1>3, <2>1
  <2>4. f[m] \in Seq(V) /\ g[m] \in Seq(V) BY <2>1
  <2>5. CASE m + 1 < k
    <3>1. m < k BY <2>nat, <2>5
    <3>2. s[m + 1] = t[m + 1] BY <2>1, <2>5
    <3> HIDE DEF T
    <3> QED BY <2>2, <2>3, <2>5, <3>1, <3>2
  <2>6. CASE m + 1 = k
    <3>1. s[m + 1] = <<>> BY <2>1, <2>6
    <3>2. f[m + 1] = f[m] BY <1>4, <2>3, <2>4, <3>1
    <3>3. g[m] = f[m] BY <2>2, <2>6
    <3> QED BY <2>3, <2>6, <3>2, <3>3
  <2>7. CASE m + 1 > k
    <3>1. s[m + 1] = <<>> /\ t[m + 1] = <<>>
      <4>1. m + 1 >= k BY <2>nat, <2>7
      <4> QED BY <2>1, <2>7, <4>1
    <3>2. f[m + 1] = f[m] /\ g[m + 1] = g[m] BY <1>4, <2>3, <2>4, <3>1
    <3>3. ~ (m < k) /\ ~ (m + 1 < k) BY <2>nat, <2>7
    <3>4. g[m] = f[m] \o t[k] BY <2>2, <3>3
    <3> QED BY <3>2, <3>3, <3>4
  <2> QED BY <2>5, <2>6, <2>7
<1> HIDE DEF T
<1>7. T \in SUBSET Nat BY DEF T
<1>8. T = Nat BY <1>5, <1>6, <1>7, Induction
<1>9. g[n] = f[n] \o t[k]
  <2>1. n \in T BY <1>8
  <2>2. ~ (n < k) /\ n <= n OBVIOUS
  <2> QED BY <2>1, <2>2 DEF T
<1> QED BY <1>2, <1>3, <1>9 DEF FlattenExtends

\* The pairs of the answers, answer by answer.
Replies(a) == [d \in DOMAIN a |-> [i \in 1..a[d] |-> <<d, i>>]]

LEMMA RepliesType ==
  ASSUME NEW n \in Nat, NEW a \in [1..n -> 0..MaxPairs]
  PROVE  /\ Replies(a) \in Seq(Seq((1..n) \X (1..MaxPairs)))
         /\ Len(Replies(a)) = n
         /\ \A d \in 1..n : /\ Replies(a)[d] = [i \in 1..a[d] |-> <<d, i>>]
                            /\ a[d] = 0 => Replies(a)[d] = <<>>
<1> PICK V : V = (1..n) \X (1..MaxPairs) OBVIOUS
<1> DEFINE reply(d) == [i \in 1..a[d] |-> <<d, i>>]
<1>1. DOMAIN a = 1..n OBVIOUS
<1>2. Replies(a) = [d \in 1..n |-> reply(d)] BY <1>1 DEF Replies
<1>3. ASSUME NEW d \in 1..n PROVE reply(d) \in Seq(V)
  <2>1. a[d] \in Nat /\ a[d] <= MaxPairs BY RetrievalAssumption
  <2>2. \A i \in 1..a[d] : <<d, i>> \in V BY <2>1, RetrievalAssumption
  <2> HIDE DEF reply
  <2>3. reply(d) \in [1..a[d] -> V] BY <2>2 DEF reply
  <2> QED BY <2>1, <2>3
<1>4. ASSUME NEW d \in 1..n, a[d] = 0 PROVE reply(d) = <<>>
  BY <1>4
<1> PICK W : W = Seq(V) OBVIOUS
<1> HIDE DEF reply
<1>5. Replies(a) \in [1..n -> W] BY <1>2, <1>3
<1>6. Replies(a) \in Seq(W) /\ Len(Replies(a)) = n BY <1>5
<1>7. \A d \in 1..n : Replies(a)[d] = reply(d) BY <1>2
<1> QED BY <1>4, <1>6, <1>7 DEF reply

\* An answer to a chunk, when neither it nor a later one has one.
LEMMA ReplyAppended ==
  ASSUME NEW n \in Nat, NEW a \in [1..n -> 0..MaxPairs], NEW k \in 1..n,
         \A d \in 1..n : d >= k => a[d] = 0,
         NEW m \in 0..MaxPairs
  PROVE  FlattenSeq(Replies([a EXCEPT ![k] = m]))
           = FlattenSeq(Replies(a)) \o [i \in 1..m |-> <<k, i>>]
<1> PICK b \in [1..n -> 0..MaxPairs] : b = [a EXCEPT ![k] = m] OBVIOUS
<1> PICK V : V = (1..n) \X (1..MaxPairs) OBVIOUS
<1>1. b[k] = m /\ \A d \in 1..n : d # k => b[d] = a[d] OBVIOUS
<1> PICK s : s = Replies(a) OBVIOUS
<1> PICK t : t = Replies(b) OBVIOUS
<1>2. s \in Seq(Seq(V)) /\ n = Len(s) /\ t \in Seq(Seq(V)) /\ n = Len(t) BY RepliesType
<1>3. \A i \in 1..n : i < k => s[i] = t[i]
  <2> TAKE i \in 1..n
  <2>1. s[i] = [j \in 1..a[i] |-> <<i, j>>] /\ t[i] = [j \in 1..b[i] |-> <<i, j>>]
    BY RepliesType
  <2>2. i < k => a[i] = b[i] BY <1>1
  <2> QED BY <2>1, <2>2
<1>4. \A i \in 1..n : i >= k => s[i] = <<>>
  <2> TAKE i \in 1..n
  <2>1. i >= k => a[i] = 0 OBVIOUS
  <2>2. a[i] = 0 => Replies(a)[i] = <<>> BY RepliesType
  <2> QED BY <2>1, <2>2
<1>5. \A i \in 1..n : i > k => t[i] = <<>>
  <2> TAKE i \in 1..n
  <2>1. i > k => b[i] = 0 BY <1>1
  <2> QED BY <2>1, RepliesType
<1>6. t[k] = [i \in 1..m |-> <<k, i>>] BY <1>1, RepliesType
<1>7. SetsNext(V, n, s, t, k) BY <1>2, <1>3, <1>4, <1>5 DEF SetsNext
<1>8. FlattenSeq(t) = FlattenSeq(s) \o t[k]
  <2>1. FlattenExtends(s, t, k) BY <1>7, FlattenLater
  <2> QED BY <2>1 DEF FlattenExtends
<1> QED BY <1>6, <1>8

-----------------------------------------------------------------------------
(* The inductive invariant. *)

\* The loops stay within their chunks, and what is kept of the MEMOIRE names
\* chunks of it.
LoopInv ==
  /\ phase \in {"memo", "embed", "ask", "returned"}
  /\ dceLen \in 0..MaxLen /\ memLen \in 0..MaxLen
  /\ phase = "memo" => at \in 1..(Count(memLen) + 1)
  /\ phase # "memo" => at \in 1..(Count(dceLen) + 1)
  /\ phase = "ask" => at \in 1..Count(dceLen)
  /\ knowledge \in Seq([chunk : 1..Count(memLen), vec : Vectors])
  /\ cancelled \in BOOLEAN

\* There is a prompt while a chunk of the DCE is asked about.
AskInv ==
  /\ phase = "ask" => query \in Vectors /\ prompt \in TopK(query, knowledge)
  /\ phase # "ask" => query = <<>> /\ prompt = NoPrompt

\* The chunks from the current one on have no answer yet.
AnswersInv ==
  /\ answers \in [1..Count(dceLen) -> 0..MaxPairs]
  /\ \A d \in 1..Count(dceLen) : phase = "memo" \/ d >= at => answers[d] = 0
  /\ allPairs \in Seq((1..Count(dceLen)) \X (1..MaxPairs))
  /\ NoAnswerLost

RetrievalInv == LoopInv /\ AskInv /\ AnswersInv

LEMMA SeqGrows == ASSUME NEW S, NEW T, S \subseteq T PROVE Seq(S) \subseteq Seq(T)
<1> SUFFICES ASSUME NEW s \in Seq(S) PROVE s \in Seq(T) OBVIOUS
<1>1. Len(s) \in Nat /\ s \in [1..Len(s) -> S] OBVIOUS
<1>2. s \in [1..Len(s) -> T] BY <1>1
<1> QED BY <1>1, <1>2

LEMMA Lengths ==
  ASSUME LoopInv
  PROVE  /\ dceLen \in Nat /\ Count(dceLen) \in 0..MaxLen
         /\ memLen \in Nat /\ Count(memLen) \in 0..MaxLen
         /\ DOMAIN Chunks(dceLen) = 1..Count(dceLen)
         /\ DOMAIN Chunks(memLen) = 1..Count(memLen)
<1>1. MaxLen \in Nat BY RetrievalAssumption
<1>2. dceLen \in Nat /\ dceLen <= MaxLen /\ memLen \in Nat /\ memLen <= MaxLen
  BY <1>1 DEF LoopInv
<1>3. Count(dceLen) \in Nat /\ Count(dceLen) <= dceLen BY <1>2, CountBounds
<1>4. Count(memLen) \in Nat /\ Count(memLen) <= memLen BY <1>2, CountBounds
<1>5. DOMAIN Chunks(dceLen) = 1..Count(dceLen) BY <1>2, ChunkAt
<1>6. DOMAIN Chunks(memLen) = 1..Count(memLen) BY <1>2, ChunkAt
<1>7. Count(dceLen) <= MaxLen /\ Count(memLen) <= MaxLen BY <1>1, <1>2, <1>3, <1>4
<1> QED BY <1>1, <1>2, <1>3, <1>4, <1>5, <1>6, <1>7

LEMMA KnowledgeType ==
  ASSUME LoopInv
  PROVE  /\ knowledge \in Knowledge
         /\ \A m \in DOMAIN knowledge :
              knowledge[m].chunk \in 1..Count(memLen) /\ knowledge[m].vec \in Vectors
<1> DEFINE S == [chunk : 1..Count(memLen), vec : Vectors]
           T == [chunk : Nat, vec : Vectors]
<1>1. knowledge \in Seq(S) BY DEF LoopInv
<1>2. S \subseteq T BY Lengths
<1>3. knowledge \in Seq(T)
  <2> HIDE DEF S, T
  <2> QED BY <1>1, <1>2, SeqGrows
<1>4. \A m \in DOMAIN knowledge : knowledge[m] \in S
  <2> HIDE DEF S, T
  <2> QED BY <1>1
<1> QED BY <1>3, <1>4 DEF Knowledge

LEMMA LostMeans == NoAnswerLost <=> allPairs = FlattenSeq(Replies(answers))
BY DEF NoAnswerLost, Replies

LEMMA InitInv == Init => RetrievalInv
<1> SUFFICES ASSUME Init PROVE RetrievalInv OBVIOUS
<1>1. MaxLen \in Nat /\ MaxPairs \in Nat BY RetrievalAssumption
<1>2. dceLen \in Nat /\ memLen \in Nat BY <1>1 DEF Init
<1> PICK n \in Nat : n = Count(dceLen) BY <1>2, CountBounds
<1>3. LoopInv
  <2>1. Count(memLen) \in Nat BY <1>2, CountBounds
  <2>2. 1 \in 1..(Count(memLen) + 1) BY <2>1
  <2> PICK S : S = [chunk : 1..Count(memLen), vec : Vectors] OBVIOUS
  <2>3. <<>> \in Seq(S) OBVIOUS
  <2>4. phase = "memo" /\ at = 1 /\ knowledge = <<>> /\ cancelled = FALSE
        /\ dceLen \in 0..MaxLen /\ memLen \in 0..MaxLen
    BY DEF Init
  <2> QED BY <2>2, <2>3, <2>4 DEF LoopInv
<1>4. AskInv BY DEF Init, AskInv
<1>5. answers \in [1..n -> 0..MaxPairs] /\ \A d \in 1..n : answers[d] = 0
  BY <1>1, <1>2, ChunkAt DEF Init
<1>6. NoAnswerLost
  <2> PICK V : V = (1..n) \X (1..MaxPairs) OBVIOUS
  <2> PICK s : s = Replies(answers) OBVIOUS
  <2>1. s \in Seq(Seq(V)) /\ n = Len(s) BY <1>5, RepliesType
  <2>2. \A d \in 1..n : s[d] = <<>> BY <1>5, RepliesType
  <2>3. FlattenSeq(s) = <<>> BY <2>1, <2>2, FlattenEmpty
  <2> QED BY <2>3, LostMeans DEF Init
<1>7. AnswersInv BY <1>5, <1>6 DEF AnswersInv, Init
<1> QED BY <1>3, <1>4, <1>7 DEF RetrievalInv

LEMMA LoopStep == LoopInv /\ [Next]_vars => LoopInv'
<1> SUFFICES ASSUME LoopInv, [Next]_vars PROVE LoopInv' OBVIOUS
<1> PICK c \in Nat : c = Count(dceLen) BY Lengths
<1> PICK m \in Nat : m = Count(memLen) BY Lengths
<1>1. DOMAIN Chunks(dceLen) = 1..c /\ DOMAIN Chunks(memLen) = 1..m BY Lengths
<1> DEFINE S == [chunk : 1..m, vec : Vectors]
<1>2. knowledge \in Seq(S) BY DEF LoopInv
<1>3. ASSUME /\ dceLen' = dceLen /\ memLen' = memLen
             /\ phase' \in {"memo", "embed", "ask", "returned"}
             /\ phase' = "memo" => at' \in 1..(m + 1)
             /\ phase' # "memo" => at' \in 1..(c + 1)
             /\ phase' = "ask" => at' \in 1..c
             /\ knowledge' \in Seq(S)
             /\ cancelled' \in BOOLEAN
      PROVE  LoopInv'
  BY <1>3 DEF LoopInv, Count
<1> HIDE DEF S
<1>4. CASE EmbedMemo
  <2>1. PICK v \in Vectors : knowledge' = Append(knowledge, [chunk |-> at, vec |-> v])
    BY <1>4 DEF EmbedMemo
  <2>2. at \in 1..m BY <1>1, <1>4 DEF EmbedMemo, AtMemo
  <2>3. [chunk |-> at, vec |-> v] \in S BY <2>2 DEF S
  <2>4. knowledge' \in Seq(S) BY <1>2, <2>1, <2>3
  <2>5. phase = "memo" /\ phase' = phase /\ at' = at + 1 /\ cancelled' = cancelled
        /\ dceLen' = dceLen /\ memLen' = memLen
    BY <1>4 DEF EmbedMemo, AtMemo, texts
  <2> QED BY <1>3, <2>2, <2>4, <2>5 DEF LoopInv
<1>5. CASE EmbedMemoFails
  BY <1>1, <1>2, <1>3, <1>5 DEF EmbedMemoFails, AtMemo, texts, LoopInv
<1>6. CASE MemoEmbedded BY <1>2, <1>3, <1>6 DEF MemoEmbedded, texts, LoopInv
<1>7. CASE EmbedDce BY <1>1, <1>2, <1>3, <1>7 DEF EmbedDce, AtDce, texts, LoopInv
<1>8. ASSUME NextDce, at \in DOMAIN Chunks(dceLen) PROVE LoopInv'
  BY <1>1, <1>2, <1>3, <1>8 DEF NextDce, texts, LoopInv
<1>9. CASE EmbedDceFails \/ Answer \/ AnswerFails \/ AskCancelled
  BY <1>8, <1>9 DEF EmbedDceFails, Answer, AnswerFails, AskCancelled, AtDce
<1>10. CASE Return BY <1>2, <1>3, <1>10 DEF Return, texts, LoopInv
<1>11. CASE Cancel BY <1>2, <1>3, <1>11 DEF Cancel, texts, LoopInv
<1>12. CASE UNCHANGED vars BY <1>2, <1>3, <1>12 DEF vars, texts, LoopInv
<1> QED BY <1>4, <1>5, <1>6, <1>7, <1>9, <1>10, <1>11, <1>12 DEF Next

LEMMA AskStep == LoopInv /\ AskInv /\ [Next]_vars => AskInv'
<1> SUFFICES ASSUME LoopInv, AskInv, [Next]_vars PROVE AskInv' OBVIOUS
<1>1. ASSUME UNCHANGED <<query, prompt, knowledge>>, phase' = "ask" <=> phase = "ask"
      PROVE  AskInv'
  BY <1>1 DEF AskInv
<1>2. CASE EmbedMemo
  <2>1. phase = "memo" /\ phase' = phase /\ query' = query /\ prompt' = prompt
    BY <1>2 DEF EmbedMemo, AtMemo
  <2> QED BY <2>1 DEF AskInv
<1>3. CASE EmbedMemoFails BY <1>1, <1>3 DEF EmbedMemoFails
<1>4. CASE MemoEmbedded BY <1>1, <1>4 DEF MemoEmbedded
<1>5. CASE EmbedDce
  <2>1. /\ query' \in Vectors /\ prompt' \in TopK(query', knowledge)
        /\ phase' = "ask" /\ knowledge' = knowledge
    BY <1>5 DEF EmbedDce
  <2> QED BY <2>1 DEF AskInv
<1>6. CASE EmbedDceFails \/ Answer \/ AnswerFails \/ AskCancelled
  BY <1>6 DEF EmbedDceFails, Answer, AnswerFails, AskCancelled, NextDce, AskInv
<1>7. CASE Return BY <1>1, <1>7 DEF Return
<1>8. CASE Cancel BY <1>1, <1>8 DEF Cancel
<1>9. CASE UNCHANGED vars BY <1>1, <1>9 DEF vars
<1> QED BY <1>2, <1>3, <1>4, <1>5, <1>6, <1>7, <1>8, <1>9 DEF Next

LEMMA AnswersStep == LoopInv /\ AnswersInv /\ [Next]_vars => AnswersInv'
<1> SUFFICES ASSUME LoopInv, AnswersInv, [Next]_vars PROVE AnswersInv' OBVIOUS
<1> PICK c \in Nat : c = Count(dceLen) BY Lengths
<1>1. DOMAIN Chunks(dceLen) = 1..c BY Lengths
<1>2. at \in Nat BY Lengths DEF LoopInv
<1>3. ASSUME UNCHANGED <<dceLen, allPairs, answers>>,
             \A d \in 1..c : phase' = "memo" \/ d >= at' => phase = "memo" \/ d >= at
      PROVE  AnswersInv'
  BY <1>3 DEF AnswersInv, NoAnswerLost, Count
<1>4. CASE EmbedMemo BY <1>3, <1>4 DEF EmbedMemo, AtMemo, texts
<1>5. CASE EmbedMemoFails BY <1>3, <1>5 DEF EmbedMemoFails, AtMemo, texts
<1>6. CASE MemoEmbedded BY <1>3, <1>6 DEF MemoEmbedded, texts
<1>7. CASE EmbedDce BY <1>3, <1>7 DEF EmbedDce, AtDce, texts
<1>8. CASE EmbedDceFails \/ AnswerFails \/ AskCancelled
  <2>1. at' = at + 1 /\ phase' = "embed" /\ UNCHANGED <<dceLen, allPairs, answers>>
    BY <1>8 DEF EmbedDceFails, AnswerFails, AskCancelled, NextDce, texts
  <2> QED BY <1>2, <1>3, <2>1
<1>9. CASE Answer
  <2>1. PICK n \in 0..MaxPairs : /\ allPairs' = allPairs \o [i \in 1..n |-> <<at, i>>]
                                /\ answers' = [answers EXCEPT ![at] = n]
    BY <1>9 DEF Answer
  <2>2. /\ at \in 1..c /\ phase = "ask"
        /\ at' = at + 1 /\ phase' = "embed" /\ dceLen' = dceLen
    BY <1>1, <1>9 DEF Answer, AtDce, NextDce, texts
  <2>3. answers \in [1..c -> 0..MaxPairs] /\ \A d \in 1..c : d >= at => answers[d] = 0
    BY DEF AnswersInv
  <2> PICK V : V = (1..c) \X (1..MaxPairs) OBVIOUS
  <2>4. answers' \in [1..c -> 0..MaxPairs] BY <2>1, <2>3
  <2>5. \A d \in 1..c : d >= at' => answers'[d] = 0 BY <1>2, <2>1, <2>2, <2>3
  <2>6. allPairs' \in Seq(V)
    <3>1. allPairs \in Seq(V) BY DEF AnswersInv
    <3> PICK new : new = [i \in 1..n |-> <<at, i>>] OBVIOUS
    <3>2. n \in Nat /\ n <= MaxPairs BY RetrievalAssumption
    <3>3. \A i \in 1..n : <<at, i>> \in V BY <2>2, <3>2, RetrievalAssumption
    <3>4. new \in [1..n -> V] BY <3>3
    <3>5. new \in Seq(V) BY <3>2, <3>4
    <3>6. allPairs' = allPairs \o new BY <2>1
    <3> QED BY <3>1, <3>5, <3>6
  <2>7. allPairs' = FlattenSeq(Replies(answers'))
    <3>1. allPairs = FlattenSeq(Replies(answers)) BY LostMeans DEF AnswersInv
    <3>2. FlattenSeq(Replies([answers EXCEPT ![at] = n]))
            = FlattenSeq(Replies(answers)) \o [i \in 1..n |-> <<at, i>>]
      BY <2>2, <2>3, ReplyAppended
    <3> QED BY <2>1, <3>1, <3>2
  <2>8. NoAnswerLost' BY <2>7 DEF NoAnswerLost, Replies
  <2> QED BY <2>2, <2>4, <2>5, <2>6, <2>8 DEF AnswersInv, Count
<1>10. CASE Return BY <1>3, <1>10 DEF Return, texts
<1>11. CASE Cancel BY <1>3, <1>11 DEF Cancel, texts
<1>12. CASE UNCHANGED vars BY <1>3, <1>12 DEF vars, texts
<1> QED BY <1>4, <1>5, <1>6, <1>7, <1>8, <1>9, <1>10, <1>11, <1>12 DEF Next

LEMMA InvImpliesType == RetrievalInv => TypeOK
<1> SUFFICES ASSUME RetrievalInv PROVE TypeOK OBVIOUS
<1> USE DEF RetrievalInv
<1> PICK c \in Nat : c = Count(dceLen) BY Lengths
<1> PICK m \in Nat : m = Count(memLen) BY Lengths
<1>1. /\ MaxLen \in Nat /\ c <= MaxLen /\ m <= MaxLen
      /\ DOMAIN Chunks(dceLen) = 1..c /\ DOMAIN Chunks(memLen) = 1..m
  BY Lengths, RetrievalAssumption
<1>2. at \in 1..(MaxLen + 1) BY <1>1 DEF LoopInv
<1>3. \A r \in DOMAIN knowledge :
        knowledge[r].chunk \in DOMAIN Chunks(memLen) /\ knowledge[r].vec \in Vectors
  BY <1>1, KnowledgeType
<1>4. query \in Vectors \cup {<<>>} BY DEF AskInv
<1>5. prompt = NoPrompt \/ Range(prompt) \subseteq DOMAIN knowledge
  <2>1. CASE phase = "ask"
    <3>1. PromptIsBest BY <2>1, KnowledgeType, TopKIsBest DEF AskInv
    <3> QED BY <2>1, <3>1 DEF PromptIsBest, Relevant
  <2>2. CASE phase # "ask" BY <2>2 DEF AskInv
  <2> QED BY <2>1, <2>2
<1>6. Range(allPairs) \subseteq (DOMAIN Chunks(dceLen)) \X (1..MaxPairs)
  <2> PICK V : V = (1..c) \X (1..MaxPairs) OBVIOUS
  <2>1. allPairs \in Seq(V) BY DEF AnswersInv
  <2>2. Range(allPairs) \subseteq V BY <2>1 DEF Range
  <2> QED BY <1>1, <2>2
<1>7. answers \in [DOMAIN Chunks(dceLen) -> 0..MaxPairs] BY <1>1 DEF AnswersInv
<1> QED BY <1>2, <1>3, <1>4, <1>5, <1>6, <1>7 DEF TypeOK, LoopInv

-----------------------------------------------------------------------------
(* The theorems. *)

\* Every behaviour stays within the inductive invariant.
THEOREM RetrievalInvariant == Spec => []RetrievalInv
<1>1. Init => RetrievalInv BY InitInv
<1>2. RetrievalInv /\ [Next]_vars => RetrievalInv'
  BY LoopStep, AskStep, AnswersStep DEF RetrievalInv
<1> QED BY <1>1, <1>2, PTL DEF Spec

\* The loops index only chunks that exist, and prompts name only chunks that
\* are known.
THEOREM RetrievalTypeCorrect == Spec => []TypeOK
BY RetrievalInvariant, InvImpliesType, PTL

\* chunkText covers both texts without a gap or an overlap, whatever their
\* lengths and the limit.
THEOREM ChunksAlwaysPartition == Spec => []ChunksPartition
<1>1. RetrievalInv => ChunksPartition
  <2> SUFFICES ASSUME RetrievalInv PROVE ChunksPartition OBVIOUS
  <2>1. dceLen \in Nat /\ memLen \in Nat BY Lengths DEF RetrievalInv
  <2>2. Partition(dceLen) /\ Partition(memLen) BY <2>1, ChunksPartitionText
  <2>3. \A n \in {dceLen, memLen} : Partition(n) BY <2>2
  <2> QED BY <2>3 DEF ChunksPartition, Partition
<1> QED BY <1>1, RetrievalInvariant, PTL

\* getTopKSimilar puts into every prompt the most similar of the relevant
\* chunks of the MEMOIRE, whatever K, the vectors and the failures.
THEOREM PromptsAreBest == Spec => []PromptIsBest
<1>1. RetrievalInv => PromptIsBest
  <2> SUFFICES ASSUME RetrievalInv PROVE PromptIsBest OBVIOUS
  <2>1. CASE phase = "ask"
    BY <2>1, KnowledgeType, TopKIsBest DEF RetrievalInv, AskInv
  <2>2. CASE phase # "ask" BY <2>2 DEF PromptIsBest
  <2> QED BY <2>1, <2>2
<1> QED BY <1>1, RetrievalInvariant, PTL

\* The pairs returned are those of every answer, in the order of the DCE,
\* whichever calls failed in between.
THEOREM AnswersAreKept == Spec => []NoAnswerLost
<1>1. RetrievalInv => NoAnswerLost BY DEF RetrievalInv, AnswersInv
<1> QED BY <1>1, RetrievalInvariant, PTL
=============================================================================
