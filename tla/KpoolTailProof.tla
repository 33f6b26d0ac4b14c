----------------------------- MODULE KpoolTailProof -----------------------------
(***************************************************************************)
(* What the K-pooled indexer computes, for any batch of requests, any pool *)
(* size and any number of drafts: the length that each row of the logits   *)
(* gets, the tokens that an expanded choice of pools stands for, and what  *)
(* the writes of prefill chunks and of decodes with drafts make of the tail*)
(* cache.  ModelRunnerProof rests its invariants on these.                 *)
(*                                                                         *)
(* The operators are sums, searches and folds over sequences of any length.*)
(* Induction is by a least counterexample (Least): partial sums are chains *)
(* of numbers, a fold is a chain of values (Chained), and each is shown to *)
(* exist and to keep what one step keeps.                                  *)
(***************************************************************************)
EXTENDS ModelRunner, TLAPS, WellFoundedInduction, FiniteSetTheorems, SequenceTheorems

(* Division by the pool size.                                              *)
LEMMA DivFact ==
    ASSUME NEW a \in Int, NEW k \in Nat \ {0}
    PROVE  /\ a \div k \in Int /\ a % k \in 0..k - 1 /\ a = k * (a \div k) + (a % k)
  OBVIOUS

LEMMA DivIs ==
    ASSUME NEW a \in Int, NEW b \in Int, NEW k \in Nat \ {0}, 0 <= b, b < k
    PROVE  (a * k + b) \div k = a /\ (a * k + b) % k = b
<1> DEFINE x == a * k + b
           q == x \div k
<1>0. x \in Int
  OBVIOUS
<1> HIDE DEF x
<1>1. q \in Int /\ x % k \in 0..k-1 /\ x = k * q + (x % k)
  BY <1>0, DivFact
<1> HIDE DEF q
<1>2. x = a * k + b
  BY DEF x
<1>3. q = a
  <2>1. CASE q < a
    <3>1. k * q <= k * (a - 1)
      BY <1>1, <2>1
    <3>2. k * (a - 1) = a * k - k
      OBVIOUS
    <3> QED
      BY <1>1, <1>2, <3>1, <3>2
  <2>2. CASE q > a
    <3>1. k * (a + 1) <= k * q
      BY <1>1, <2>2
    <3>2. k * (a + 1) = a * k + k
      OBVIOUS
    <3> QED
      BY <1>1, <1>2, <3>1, <3>2
  <2> QED
    BY <1>1, <2>1, <2>2
<1>4. x % k = b
  BY <1>1, <1>2, <1>3
<1> QED
  BY <1>3, <1>4 DEF x, q

(* A set of numbers that is not empty has a least element.                 *)
LEMMA Least ==
    ASSUME NEW T, T \subseteq Nat, T # {}
    PROVE  \E n \in T : \A m \in T : n <= m
<1> DEFINE F == {0..n : n \in T}
           S == FiniteSubsetsOf(Nat)
           R == StrictSubsetOrdering(Nat)
<1>1. F \subseteq S /\ F # {}
  <2>1. \A n \in T : 0..n \in S
    <3>1. \A n \in T : IsFiniteSet(0..n) /\ 0..n \in SUBSET Nat
      BY FS_Interval
    <3> QED
      BY <3>1 DEF FiniteSubsetsOf
  <2> QED
    BY <2>1
<1>2. IsWellFoundedOn(R, S)
  BY FS_StrictSubsetOrderingWellFounded
<1>3. \E s \in F : \A t \in F : <<t, s>> \notin R
  <2> HIDE DEF F, R, S
  <2> QED
    BY <1>1, <1>2, WFMin
<1>4. PICK n \in T : \A t \in F : <<t, 0..n>> \notin R
  BY <1>3
<1>5. ASSUME NEW m \in T, m < n PROVE FALSE
  <2>1. 0..m \in F /\ 0..m \in SUBSET Nat /\ 0..n \in SUBSET Nat /\ 0..m \subseteq 0..n
    BY <1>5
  <2>2. n \in 0..n /\ n \notin 0..m
    BY <1>5
  <2>3. <<0..m, 0..n>> \in R
    BY <2>1, <2>2 DEF StrictSubsetOrdering
  <2> QED
    BY <1>4, <2>1, <2>3
<1>6. \A m \in T : n <= m
  BY <1>5
<1> QED
  BY <1>6

(***************************************************************************)
(* Sequences of partial sums: one exists, there is only one, and it never  *)
(* shrinks.  By the least counterexample.                                  *)
(***************************************************************************)
Sums(n, lens, f) ==
    /\ f \in [0..n -> Nat]
    /\ f[0] = 0
    /\ \A r \in 1..n : f[r] = f[r - 1] + lens[r]

LEMMA SumsNext ==
    ASSUME NEW m \in Nat \ {0}, NEW lens, lens[m] \in Nat, NEW g, Sums(m - 1, lens, g)
    PROVE  \E f : Sums(m, lens, f)
<1> DEFINE f == [r \in 0..m |-> IF r = m THEN g[m - 1] + lens[m] ELSE g[r]]
<1>1. g \in [0..m - 1 -> Nat] /\ g[0] = 0 /\ \A r \in 1..m - 1 : g[r] = g[r - 1] + lens[r]
  BY DEF Sums
<1>2. /\ \A r \in 0..m - 1 : r \in 0..m /\ r # m
      /\ \A r \in 0..m : r = m \/ r \in 0..m - 1
      /\ m - 1 \in 0..m - 1 /\ m \in 0..m /\ 0 \in 0..m - 1
  OBVIOUS
<1>3. \A r \in 0..m - 1 : f[r] = g[r]
  BY <1>2
<1>4. f[m] = g[m - 1] + lens[m]
  BY <1>2
<1>5. f \in [0..m -> Nat]
  <2>1. \A r \in 0..m : f[r] \in Nat
    BY <1>1, <1>2, <1>3, <1>4
  <2>2. f = [r \in 0..m |-> f[r]]
    OBVIOUS
  <2> HIDE DEF f
  <2> QED
    BY <2>1, <2>2
<1> HIDE DEF f
<1>6. ASSUME NEW r \in 1..m PROVE f[r] = f[r - 1] + lens[r]
  <2>1. CASE r = m
    BY <1>2, <1>3, <1>4, <2>1
  <2>2. CASE r # m
    <3>1. r \in 1..m - 1 /\ r \in 0..m - 1 /\ r - 1 \in 0..m - 1
      BY <2>2
    <3> QED
      BY <1>1, <1>3, <3>1
  <2> QED
    BY <2>1, <2>2
<1>7. f[0] = 0
  BY <1>1, <1>2, <1>3
<1> QED
  BY <1>5, <1>6, <1>7 DEF Sums

LEMMA SumsExist ==
    ASSUME NEW n \in Nat, NEW lens, \A r \in 1..n : lens[r] \in Nat
    PROVE  \E f : Sums(n, lens, f)
<1> DEFINE T == {m \in 0..n : ~\E f : Sums(m, lens, f)}
<1>1. ASSUME T # {} PROVE FALSE
  <2>1. T \subseteq Nat
    OBVIOUS
  <2>2. PICK m \in T : \A k \in T : m <= k
    <3> HIDE DEF T
    <3> QED
      BY <1>1, <2>1, Least
  <2>3. m \in 0..n /\ ~\E f : Sums(m, lens, f)
    BY <2>2
  <2>4. m # 0
    <3> DEFINE f == [r \in 0..0 |-> 0]
    <3>1. Sums(0, lens, f)
      BY DEF Sums
    <3> HIDE DEF f
    <3> QED
      BY <2>3, <3>1
  <2>5. m - 1 \in 0..n /\ m - 1 \notin T /\ m \in 1..n
    <3>1. m \in Nat /\ m - 1 \in 0..n /\ m \in 1..n /\ ~(m <= m - 1)
      BY <2>3, <2>4
    <3> QED
      BY <2>2, <3>1
  <2>6. PICK g : Sums(m - 1, lens, g)
    BY <2>5
  <2>7. m \in Nat \ {0} /\ lens[m] \in Nat
    BY <2>5
  <2> QED
    BY <2>3, <2>6, <2>7, SumsNext
<1> QED
  BY <1>1

LEMMA SumsUnique ==
    ASSUME NEW n \in Nat, NEW lens, NEW f, Sums(n, lens, f), NEW b,
           b = [r \in 0..n |-> IF r = 0 THEN 0 ELSE b[r - 1] + lens[r]]
    PROVE  b = f
<1> DEFINE T == {r \in 0..n : b[r] # f[r]}
<1>0. /\ b[0] = 0 /\ f[0] = 0
      /\ \A r \in 1..n : b[r] = b[r - 1] + lens[r] /\ f[r] = f[r - 1] + lens[r]
  <2>1. \A r \in 1..n : r \in 0..n /\ r # 0
    OBVIOUS
  <2>2. 0 \in 0..n
    OBVIOUS
  <2>3. b[0] = 0 /\ \A r \in 1..n : b[r] = b[r - 1] + lens[r]
    BY <2>1, <2>2, Zenon
  <2> QED
    BY <2>3 DEF Sums
<1>1. ASSUME T # {} PROVE FALSE
  <2>1. T \subseteq Nat
    OBVIOUS
  <2>2. PICK m \in T : \A k \in T : m <= k
    <3> HIDE DEF T
    <3> QED
      BY <1>1, <2>1, Least
  <2>3. m \in 0..n /\ b[m] # f[m]
    BY <2>2
  <2>4. m # 0
    BY <1>0, <2>3
  <2>5. m - 1 \in 0..n /\ m - 1 \notin T /\ m \in 1..n
    <3>1. m \in Nat /\ m - 1 \in 0..n /\ m \in 1..n /\ ~(m <= m - 1)
      BY <2>3, <2>4
    <3> QED
      BY <2>2, <3>1
  <2>6. b[m - 1] = f[m - 1]
    BY <2>5
  <2>7. b[m] = b[m - 1] + lens[m] /\ f[m] = f[m - 1] + lens[m]
    BY <1>0, <2>5
  <2> QED
    BY <2>3, <2>6, <2>7, Zenon
<1>2. \A r \in 0..n : b[r] = f[r]
  BY <1>1
<1>3. f = [r \in 0..n |-> f[r]]
  BY DEF Sums
<1>4. DOMAIN b = 0..n /\ b = [r \in 0..n |-> b[r]]
  <2>1. DOMAIN b = 0..n
    BY Zenon
  <2> QED
    BY <2>1, Zenon
<1> QED
  BY <1>2, <1>3, <1>4, Zenon

LEMMA SumsGrow ==
    ASSUME NEW n \in Nat, NEW lens, NEW f, Sums(n, lens, f), \A r \in 1..n : lens[r] \in Nat,
           NEW q \in 0..n, NEW r \in 0..n, q <= r
    PROVE  f[q] <= f[r]
<1> DEFINE T == {m \in 0..n : q <= m /\ f[m] < f[q]}
<1>0. f \in [0..n -> Nat] /\ \A m \in 1..n : f[m] = f[m - 1] + lens[m] /\ lens[m] \in Nat
  BY DEF Sums
<1>1. ASSUME T # {} PROVE FALSE
  <2>1. T \subseteq Nat
    OBVIOUS
  <2>2. PICK m \in T : \A k \in T : m <= k
    <3> HIDE DEF T
    <3> QED
      BY <1>1, <2>1, Least
  <2>3. m \in 0..n /\ q <= m /\ f[m] < f[q] /\ f[q] \in Nat
    BY <1>0, <2>2
  <2>4. q < m
    BY <2>3
  <2>5. m - 1 \in 0..n /\ q <= m - 1 /\ m \in 1..n /\ ~(m <= m - 1)
    BY <2>3, <2>4
  <2>6. m - 1 \notin T
    BY <2>2, <2>5
  <2>7. ~(f[m - 1] < f[q])
    BY <2>5, <2>6
  <2>8. f[m] = f[m - 1] + lens[m] /\ lens[m] \in Nat /\ f[m - 1] \in Nat
    BY <1>0, <2>5
  <2> QED
    BY <2>3, <2>7, <2>8
<1>2. ~(f[r] < f[q])
  BY <1>1
<1>3. f[r] \in Nat /\ f[q] \in Nat
  BY <1>0
<1> QED
  BY <1>2, <1>3

(* Before is such a sequence.                                              *)
LEMMA BeforeFact ==
    ASSUME NEW lens \in Seq(Nat)
    PROVE  Sums(Len(lens), lens, Before(lens))
<1> DEFINE Is(f) == f = [r \in 0..Len(lens) |-> IF r = 0 THEN 0 ELSE f[r - 1] + lens[r]]
<1>1. Len(lens) \in Nat /\ \A r \in 1..Len(lens) : lens[r] \in Nat
  OBVIOUS
<1>2. PICK f : Sums(Len(lens), lens, f)
  BY <1>1, SumsExist
<1>3. Is(f)
  <2>1. \A r \in 0..Len(lens) : f[r] = IF r = 0 THEN 0 ELSE f[r - 1] + lens[r]
    <3>1. \A r \in 0..Len(lens) : r = 0 \/ r \in 1..Len(lens)
      BY <1>1
    <3> QED
      BY <1>2, <3>1 DEF Sums
  <2>2. f = [r \in 0..Len(lens) |-> f[r]]
    BY <1>2 DEF Sums
  <2> QED
    BY <2>1, <2>2, Zenon
<1>4. Before(lens) = CHOOSE g : Is(g)
  BY Zenon DEF Before
<1>5. Is(Before(lens))
  <2> HIDE DEF Is
  <2> QED
    BY <1>3, <1>4, Zenon
<1>6. Before(lens) = f
  <2> DEFINE b == Before(lens)
  <2>1. b = [r \in 0..Len(lens) |-> IF r = 0 THEN 0 ELSE b[r - 1] + lens[r]]
    BY <1>5, Zenon
  <2> DEFINE n == Len(lens)
  <2>2. n \in Nat /\ Sums(n, lens, f)
    BY <1>1, <1>2
  <2>3. b = [r \in 0..n |-> IF r = 0 THEN 0 ELSE b[r - 1] + lens[r]]
    BY <2>1, Zenon
  <2> HIDE DEF b, n
  <2>4. b = f
    BY <2>2, <2>3, SumsUnique
  <2> QED
    BY <2>4 DEF b
<1> QED
  BY <1>2, <1>6

(***************************************************************************)
(* The flat tokens and the rows: token Before(lens)[r - 1] + t is the one  *)
(* at place t of row r, and every flat token is one of these.              *)
(***************************************************************************)
Flat(lens, r, t) == Before(lens)[r - 1] + t

LEMMA PlacesApart ==
    ASSUME NEW n \in Nat, NEW lens, NEW f, Sums(n, lens, f), \A r \in 1..n : lens[r] \in Nat,
           NEW q \in 1..n, NEW r \in 1..n, NEW i \in Nat,
           f[q - 1] < i, i <= f[q], f[r - 1] < i, i <= f[r]
    PROVE  q = r
<1>1. q \in 0..n /\ r \in 0..n /\ q - 1 \in 0..n /\ r - 1 \in 0..n
  OBVIOUS
<1>2. \A m \in 0..n : f[m] \in Nat
  BY DEF Sums
<1>3. CASE q < r
  <2>1. f[q] <= f[r - 1]
    BY <1>1, <1>3, SumsGrow
  <2> QED
    BY <1>1, <1>2, <2>1
<1>4. CASE r < q
  <2>1. f[r] <= f[q - 1]
    BY <1>1, <1>4, SumsGrow
  <2> QED
    BY <1>1, <1>2, <2>1
<1> QED
  BY <1>3, <1>4

LEMMA PlaceExists ==
    ASSUME NEW n \in Nat, NEW lens, NEW f, Sums(n, lens, f), \A r \in 1..n : lens[r] \in Nat,
           NEW i \in 1..f[n]
    PROVE  \E r \in 1..n : f[r - 1] < i /\ i <= f[r]
<1> DEFINE T == {m \in 0..n : i <= f[m]}
<1>0. \A m \in 0..n : f[m] \in Nat
  BY DEF Sums
<1>1. T \subseteq Nat /\ T # {}
  <2>1. n \in T
    BY <1>0
  <2> QED
    BY <2>1
<1>2. PICK r \in T : \A k \in T : r <= k
  <2> HIDE DEF T
  <2> QED
    BY <1>1, Least
<1>3. r \in 0..n /\ i <= f[r]
  BY <1>2
<1>4. r # 0
  BY <1>3 DEF Sums
<1>5. r \in 1..n /\ r - 1 \in 0..n /\ ~(r <= r - 1)
  BY <1>3, <1>4
<1>6. ~(i <= f[r - 1])
  BY <1>2, <1>5
<1>7. f[r - 1] < i
  BY <1>0, <1>5, <1>6
<1> QED
  BY <1>3, <1>5, <1>7

LEMMA ScatterFact ==
    ASSUME NEW lens \in Seq(Nat)
    PROVE  /\ DOMAIN ScatterIndices(lens) = 1..Before(lens)[Len(lens)]
           /\ \A r \in 1..Len(lens) : \A t \in 1..lens[r] :
                 /\ Flat(lens, r, t) \in DOMAIN ScatterIndices(lens)
                 /\ ScatterIndices(lens)[Flat(lens, r, t)] = <<r, t>>
           /\ \A i \in DOMAIN ScatterIndices(lens) :
                 \E r \in 1..Len(lens) : \E t \in 1..lens[r] : i = Flat(lens, r, t)
<1> DEFINE n == Len(lens)
           f == Before(lens)
           x == ScatterIndices(lens)
<1>1. n \in Nat /\ DOMAIN lens = 1..n /\ \A r \in 1..n : lens[r] \in Nat
  OBVIOUS
<1>2. Sums(n, lens, f)
  BY BeforeFact
<1>3. x = [i \in 1..f[n] |->
             LET r == CHOOSE r \in DOMAIN lens : f[r - 1] < i /\ i <= f[r]
             IN  <<r, i - f[r - 1]>>]
  BY Zenon DEF ScatterIndices
<1> HIDE DEF n, f, x
<1>4. DOMAIN x = 1..f[n]
  BY <1>3
<1>5. /\ \A m \in 0..n : f[m] \in Nat
      /\ \A r \in 1..n : f[r] = f[r - 1] + lens[r]
  BY <1>2 DEF Sums
<1>6. ASSUME NEW r \in 1..n, NEW t \in 1..lens[r]
      PROVE  f[r - 1] + t \in DOMAIN x /\ x[f[r - 1] + t] = <<r, t>>
  <2> DEFINE i == f[r - 1] + t
  <2>1. r - 1 \in 0..n /\ r \in 0..n /\ n \in 0..n /\ r <= n
    BY <1>1
  <2>2. f[r] <= f[n]
    BY <1>1, <1>2, <2>1, SumsGrow
  <2>3. lens[r] \in Nat /\ f[r - 1] \in Nat /\ f[r] \in Nat /\ f[n] \in Nat /\ f[r] = f[r - 1] + lens[r]
    BY <1>1, <1>5, <2>1
  <2>4. i \in Nat /\ f[r - 1] < i /\ i <= f[r] /\ i \in 1..f[n]
    BY <2>2, <2>3
  <2> HIDE DEF i
  <2>5. \A q \in 1..n : f[q - 1] < i /\ i <= f[q] => q = r
    BY <1>1, <1>2, <2>4, PlacesApart
  <2>6. (CHOOSE q \in DOMAIN lens : f[q - 1] < i /\ i <= f[q]) = r
    BY <1>1, <2>4, <2>5
  <2>7. x[i] = <<r, i - f[r - 1]>>
    BY <1>3, <2>4, <2>6
  <2>8. i - f[r - 1] = t
    BY <2>3 DEF i
  <2> QED
    BY <1>4, <2>4, <2>7, <2>8 DEF i
<1>7. ASSUME NEW i \in DOMAIN x PROVE \E r \in 1..n : \E t \in 1..lens[r] : i = f[r - 1] + t
  <2>1. i \in 1..f[n]
    BY <1>4
  <2>2. PICK r \in 1..n : f[r - 1] < i /\ i <= f[r]
    BY <1>1, <1>2, <2>1, PlaceExists
  <2>3. r - 1 \in 0..n /\ r \in 0..n
    BY <1>1
  <2>4. lens[r] \in Nat /\ f[r - 1] \in Nat /\ f[r] = f[r - 1] + lens[r]
    BY <1>1, <1>5, <2>3
  <2>5. i - f[r - 1] \in 1..lens[r] /\ i = f[r - 1] + (i - f[r - 1])
    BY <2>1, <2>2, <2>4
  <2> QED
    BY <2>5
<1> QED
  BY <1>4, <1>6, <1>7 DEF n, f, x, Flat

(* The tokens of a batch, row by row.                                      *)
TokenOf(row, t) ==
    [block |-> row.block, pos |-> row.start + t - 1,
     key |-> Key(row.req, row.start + t - 1, t <= row.n - row.drafts + row.right)]

Place(rows, r, t) == Flat(Lens(rows), r, t)

LEMMA LensFact ==
    ASSUME NEW R, NEW rows \in Seq(R), \A row \in R : row.n \in Nat
    PROVE  /\ Lens(rows) \in Seq(Nat) /\ Len(Lens(rows)) = Len(rows) /\ Len(rows) \in Nat
           /\ DOMAIN rows = 1..Len(rows) /\ DOMAIN Lens(rows) = 1..Len(rows)
           /\ \A r \in 1..Len(rows) : rows[r] \in R /\ Lens(rows)[r] = rows[r].n
<1>1. Len(rows) \in Nat /\ DOMAIN rows = 1..Len(rows) /\ \A r \in 1..Len(rows) : rows[r] \in R
  OBVIOUS
<1>2. Lens(rows) = [r \in 1..Len(rows) |-> rows[r].n]
  BY <1>1 DEF Lens
<1>3. Lens(rows) \in [1..Len(rows) -> Nat]
  BY <1>1, <1>2
<1>4. Lens(rows) \in Seq(Nat) /\ Len(Lens(rows)) = Len(rows)
  BY <1>1, <1>3, IsASeq
<1> QED
  BY <1>1, <1>2, <1>4

LEMMA TokensFact ==
    ASSUME NEW R, NEW rows \in Seq(R), \A row \in R : row.n \in Nat
    PROVE  /\ DOMAIN Tokens(rows) = 1..Before(Lens(rows))[Len(rows)]
           /\ Before(Lens(rows))[Len(rows)] \in Nat
           /\ \A r \in 1..Len(rows) : \A t \in 1..rows[r].n :
                 /\ Place(rows, r, t) \in DOMAIN Tokens(rows)
                 /\ Tokens(rows)[Place(rows, r, t)] = TokenOf(rows[r], t)
                 /\ ScatterIndices(Lens(rows))[Place(rows, r, t)] = <<r, t>>
           /\ \A i \in DOMAIN Tokens(rows) :
                 \E r \in 1..Len(rows) : \E t \in 1..rows[r].n : i = Place(rows, r, t)
<1> DEFINE lens == Lens(rows)
           n == Len(rows)
           x == ScatterIndices(lens)
<1>1. /\ lens \in Seq(Nat) /\ Len(lens) = n /\ n \in Nat
      /\ \A r \in 1..n : rows[r] \in R /\ lens[r] = rows[r].n
  BY LensFact
<1>2. DOMAIN Tokens(rows) = DOMAIN x
  BY DEF Tokens
<1>3. \A i \in DOMAIN x : Tokens(rows)[i] = TokenOf(rows[x[i][1]], x[i][2])
  BY Zenon DEF Tokens, TokenOf
<1> HIDE DEF lens, n, x
<1>4. /\ DOMAIN x = 1..Before(lens)[n]
      /\ \A r \in 1..n : \A t \in 1..lens[r] :
            Flat(lens, r, t) \in DOMAIN x /\ x[Flat(lens, r, t)] = <<r, t>>
      /\ \A i \in DOMAIN x : \E r \in 1..n : \E t \in 1..lens[r] : i = Flat(lens, r, t)
  BY <1>1, ScatterFact DEF x
<1>5. Before(lens)[n] \in Nat
  <2>1. Sums(n, lens, Before(lens)) /\ n \in 0..n
    BY <1>1, BeforeFact
  <2> QED
    BY <2>1 DEF Sums
<1>6. ASSUME NEW r \in 1..n, NEW t \in 1..rows[r].n
      PROVE  /\ Place(rows, r, t) \in DOMAIN Tokens(rows)
             /\ Tokens(rows)[Place(rows, r, t)] = TokenOf(rows[r], t)
             /\ x[Place(rows, r, t)] = <<r, t>>
  <2>1. t \in 1..lens[r]
    BY <1>1
  <2>2. Flat(lens, r, t) \in DOMAIN x /\ x[Flat(lens, r, t)] = <<r, t>>
    BY <1>4, <2>1
  <2>3. x[Flat(lens, r, t)][1] = r /\ x[Flat(lens, r, t)][2] = t
    BY <2>2
  <2> QED
    BY <1>2, <1>3, <2>2, <2>3, Zenon DEF Place, lens
<1>7. ASSUME NEW i \in DOMAIN Tokens(rows)
      PROVE  \E r \in 1..n : \E t \in 1..rows[r].n : i = Place(rows, r, t)
  BY <1>1, <1>2, <1>4, Zenon DEF Place, lens
<1> QED
  BY <1>2, <1>4, <1>5, <1>6, <1>7 DEF lens, n, x

(* The longest row.                                                        *)
LEMMA LongestFact ==
    ASSUME NEW lens \in Seq(Nat), lens # << >>, NEW top \in Nat, \A r \in 1..Len(lens) : lens[r] <= top
    PROVE  /\ Longest(lens) \in Nat
           /\ \A r \in 1..Len(lens) : lens[r] <= Longest(lens)
           /\ \E r \in 1..Len(lens) : lens[r] = Longest(lens)
<1> DEFINE T == {top - lens[r] : r \in 1..Len(lens)}
<1>1. /\ Len(lens) \in Nat /\ DOMAIN lens = 1..Len(lens) /\ 1 \in 1..Len(lens)
      /\ \A r \in 1..Len(lens) : lens[r] \in Nat
  OBVIOUS
<1>2. T \subseteq Nat /\ T # {}
  <2>1. \A r \in 1..Len(lens) : top - lens[r] \in Nat
    BY <1>1
  <2>2. top - lens[1] \in T
    BY <1>1
  <2> QED
    BY <2>1, <2>2
<1>3. PICK m \in T : \A k \in T : m <= k
  <2> HIDE DEF T
  <2> QED
    BY <1>2, Least
<1>4. PICK r \in 1..Len(lens) : m = top - lens[r]
  BY <1>3
<1>5. \A q \in 1..Len(lens) : lens[q] <= lens[r]
  <2>1. \A q \in 1..Len(lens) : m <= top - lens[q]
    BY <1>3
  <2> QED
    BY <1>1, <1>4, <2>1
<1>6. Longest(lens) \in {lens[q] : q \in DOMAIN lens} /\ \A q \in DOMAIN lens : lens[q] <= Longest(lens)
  BY <1>1, <1>5 DEF Longest
<1> QED
  BY <1>1, <1>6

(* Rows of one length m start at multiples of m.                           *)
Times(a, b) == a * b

LEMMA SumsEven ==
    ASSUME NEW n \in Nat, NEW lens, NEW f, Sums(n, lens, f), NEW m \in Nat,
           \A r \in 1..n : lens[r] = m, NEW q \in 0..n
    PROVE  f[q] = Times(q, m)
<1> DEFINE T == {r \in 0..n : f[r] # r * m}
<1>1. ASSUME T # {} PROVE FALSE
  <2>1. T \subseteq Nat
    OBVIOUS
  <2>2. PICK r \in T : \A k \in T : r <= k
    <3> HIDE DEF T
    <3> QED
      BY <1>1, <2>1, Least
  <2>3. r \in 0..n /\ f[r] # r * m
    BY <2>2
  <2>4. r # 0
    BY <2>3 DEF Sums
  <2>5. r - 1 \in 0..n /\ r \in 1..n /\ ~(r <= r - 1)
    BY <2>3, <2>4
  <2>6. f[r - 1] = (r - 1) * m
    BY <2>2, <2>5
  <2>7. f[r] = f[r - 1] + m
    BY <2>5 DEF Sums
  <2>8. (r - 1) * m + m = r * m
    BY <2>5
  <2> QED
    BY <2>3, <2>6, <2>7, <2>8
<1>2. f[q] = q * m
  BY <1>1
<1> QED
  BY <1>2, Zenon DEF Times

(* A cell of the padded grid.                                              *)
LEMMA GridFact ==
    ASSUME NEW lens \in Seq(Nat), NEW r \in 1..Len(lens), NEW lmax \in Nat, NEW t \in 1..lmax,
           NEW tokens, NEW pad
    PROVE  Scatter(tokens, pad, lens, lmax)[r][t] =
              IF t <= lens[r] THEN tokens[Flat(lens, r, t)] ELSE pad
<1> DEFINE x == ScatterIndices(lens)
           At(i) == i \in DOMAIN x /\ x[i] = <<r, t>>
<1>0. Len(lens) \in Nat /\ DOMAIN lens = 1..Len(lens) /\ lens[r] \in Nat
  OBVIOUS
<1>1. Scatter(tokens, pad, lens, lmax)[r][t] =
         IF \E i \in DOMAIN x : x[i] = <<r, t>>
         THEN tokens[CHOOSE i \in DOMAIN x : x[i] = <<r, t>>] ELSE pad
  BY <1>0, Zenon DEF Scatter
<1>2. /\ \A q \in 1..Len(lens) : \A u \in 1..lens[q] :
            Flat(lens, q, u) \in DOMAIN x /\ x[Flat(lens, q, u)] = <<q, u>>
      /\ \A i \in DOMAIN x : \E q \in 1..Len(lens) : \E u \in 1..lens[q] : i = Flat(lens, q, u)
  BY ScatterFact
<1> HIDE DEF x
<1>3. ASSUME NEW i \in DOMAIN x, x[i] = <<r, t>> PROVE t \in 1..lens[r] /\ i = Flat(lens, r, t)
  <2>1. PICK q \in 1..Len(lens), u \in Nat : u \in 1..lens[q] /\ i = Flat(lens, q, u)
    <3>1. \A q \in 1..Len(lens) : \A u \in 1..lens[q] : u \in Nat
      BY <1>0
    <3> QED
      BY <1>2, <3>1
  <2>2. x[i] = <<q, u>>
    BY <1>2, <2>1
  <2>3. q = r /\ u = t
    BY <1>3, <2>2
  <2> QED
    BY <2>1, <2>3
<1>4. CASE t <= lens[r]
  <2>1. t \in 1..lens[r]
    BY <1>0, <1>4
  <2>2. Flat(lens, r, t) \in DOMAIN x /\ x[Flat(lens, r, t)] = <<r, t>>
    BY <1>2, <2>1
  <2>3. (CHOOSE i \in DOMAIN x : x[i] = <<r, t>>) = Flat(lens, r, t)
    BY <1>3, <2>2
  <2> QED
    BY <1>1, <1>4, <2>2, <2>3
<1>5. CASE ~(t <= lens[r])
  <2>1. ~\E i \in DOMAIN x : x[i] = <<r, t>>
    BY <1>0, <1>3, <1>5
  <2> QED
    BY <1>1, <1>5, <2>1
<1> QED
  BY <1>4, <1>5

(***************************************************************************)
(* _decode_topk_seq_lens gives the row of the logits of a token the length *)
(* up to this token, in both layouts.                                      *)
(***************************************************************************)
THEOREM TopkSeqLens ==
    ASSUME NEW lens \in Seq(Nat), NEW top \in Nat, \A r \in 1..Len(lens) : lens[r] <= top,
           NEW positions, NEW i \in 1..Before(lens)[Len(lens)], positions[i] \in Int
    PROVE  LET m == Longest(lens)
               x == ScatterIndices(lens)[i]
           IN  DecodeTopkSeqLens(positions, lens, Len(lens), m, ~Uniform(lens))[((x[1] - 1) * m) + x[2]]
                  = positions[i] + 1
<1> DEFINE n == Len(lens)
           m == Longest(lens)
           b == Before(lens)
           pad == ~Uniform(lens)
<1>1. n \in Nat /\ DOMAIN lens = 1..n /\ \A r \in 1..n : lens[r] \in Nat
  OBVIOUS
<1>2. Sums(n, lens, b)
  BY BeforeFact
<1>3. PICK r \in 1..n : \E t \in 1..lens[r] : i = Flat(lens, r, t)
  BY ScatterFact
<1>4. PICK t \in 1..lens[r] : i = Flat(lens, r, t)
  BY <1>3
<1>5. ScatterIndices(lens)[i] = <<r, t>> /\ i = b[r - 1] + t
  BY <1>4, ScatterFact DEF Flat
<1>6. /\ m \in Nat /\ \A q \in 1..n : lens[q] <= m
      /\ \E q \in 1..n : lens[q] = m
  <2>1. lens # << >>
    BY <1>1, <1>3
  <2> QED
    BY <2>1, LongestFact
<1> DEFINE k == ((r - 1) * m) + t
<1> HIDE DEF n, m, b
<1>7. r \in Nat \ {0} /\ r <= n /\ lens[r] \in Nat /\ lens[r] <= m /\ t \in 1..m /\ m # 0
  BY <1>1, <1>4, <1>6
<1>8. k \in 1..n * m
  <2>1. k \in Nat /\ 1 <= k
    <3>1. (r - 1) * m \in Nat
      BY <1>6, <1>7
    <3> QED
      BY <1>7, <3>1
  <2>2. r * m <= n * m
    BY <1>1, <1>6, <1>7
  <2>3. k <= r * m
    <3>1. (r - 1) * m + m = r * m
      BY <1>6, <1>7
    <3>2. (r - 1) * m \in Int /\ r * m \in Int
      BY <1>6, <1>7
    <3> QED
      BY <1>6, <1>7, <3>1, <3>2
  <2>4. n * m \in Int /\ r * m \in Int
    BY <1>1, <1>6, <1>7
  <2> HIDE DEF k
  <2> QED
    BY <2>1, <2>2, <2>3, <2>4
<1>9. CASE Uniform(lens)
  <2>1. \A q \in 1..n : lens[q] = m
    BY <1>1, <1>6, <1>9 DEF Uniform
  <2>2. b[r - 1] = (r - 1) * m
    <3>1. r - 1 \in 0..n
      BY <1>1, <1>7
    <3>2. b[r - 1] = Times(r - 1, m)
      BY <1>1, <1>2, <1>6, <2>1, <3>1, SumsEven
    <3> QED
      BY <3>2, Zenon DEF Times
  <2>3. k = i
    BY <1>5, <2>2
  <2>4. DecodeTopkSeqLens(positions, lens, n, m, ~Uniform(lens))[k] = positions[k] + 1
    BY <1>8, <1>9 DEF DecodeTopkSeqLens
  <2> QED
    BY <1>5, <2>3, <2>4 DEF n, m, k
<1>10. CASE ~Uniform(lens)
  <2> DEFINE grid == Scatter(positions, PadPos, lens, m)
  <2>1. (k - 1) \div m = r - 1 /\ (k - 1) % m = t - 1
    <3> DEFINE a == r - 1
               c == t - 1
    <3>1. a \in Int /\ c \in Int /\ 0 <= c /\ c < m /\ m \in Nat \ {0}
      BY <1>6, <1>7
    <3>2. k - 1 = a * m + c
      <4>1. (r - 1) * m \in Int
        BY <1>6, <1>7
      <4> QED
        BY <1>7, <4>1
    <3> HIDE DEF a, c
    <3>3. (a * m + c) \div m = a /\ (a * m + c) % m = c
      BY <3>1, DivIs
    <3> QED
      BY <3>2, <3>3 DEF a, c
  <2>2. DecodeTopkSeqLens(positions, lens, n, m, ~Uniform(lens))[k] =
           grid[((k - 1) \div m) + 1][((k - 1) % m) + 1] + 1
    <3> HIDE DEF grid, k
    <3> QED
      BY <1>8, <1>10 DEF DecodeTopkSeqLens, grid
  <2>3. grid[r][t] = positions[i]
    <3>1. grid[r][t] = IF t <= lens[r] THEN positions[Flat(lens, r, t)] ELSE PadPos
      BY <1>6, <1>7, GridFact DEF n
    <3> QED
      BY <1>4, <3>1
  <2>4. (r - 1) + 1 = r /\ (t - 1) + 1 = t
    BY <1>7
  <2> HIDE DEF grid, k
  <2>5. DecodeTopkSeqLens(positions, lens, n, m, ~Uniform(lens))[k] = positions[i] + 1
    BY <2>1, <2>2, <2>3, <2>4
  <2> QED
    BY <1>5, <2>5 DEF n, m, k
<1> QED
  BY <1>9, <1>10

(* Both layouts, the batch by request and the batch flattened.             *)
LEMMA SeqLenFact ==
    ASSUME NEW R, NEW rows \in Seq(R), NEW top \in Nat \ {0},
           \A row \in R : row.n \in 0..top /\ row.start \in Int,
           NEW i \in DOMAIN Tokens(rows), NEW flatten \in BOOLEAN
    PROVE  Tokens(rows)[i].pos \in Int /\ SeqLenUsed(rows, i, flatten) = Tokens(rows)[i].pos + 1
<1> DEFINE T == Tokens(rows)
           N == Before(Lens(rows))[Len(rows)]
           positions == [k \in DOMAIN T |-> T[k].pos]
           ones == [k \in DOMAIN positions |-> 1]
<1>0. \A row \in R : row.n \in Nat /\ row.n <= top
  OBVIOUS
<1>1. /\ DOMAIN T = 1..N /\ N \in Nat
      /\ \A r \in 1..Len(rows) : \A t \in 1..rows[r].n : T[Place(rows, r, t)] = TokenOf(rows[r], t)
      /\ \A k \in DOMAIN T : \E r \in 1..Len(rows) : \E t \in 1..rows[r].n : k = Place(rows, r, t)
  BY <1>0, TokensFact
<1>2. /\ Lens(rows) \in Seq(Nat) /\ Len(Lens(rows)) = Len(rows)
      /\ \A r \in 1..Len(rows) : rows[r] \in R /\ Lens(rows)[r] = rows[r].n
  BY <1>0, LensFact
<1> HIDE DEF T, N
<1>3. \A k \in DOMAIN T : T[k].pos \in Int
  <2> SUFFICES ASSUME NEW k \in DOMAIN T PROVE T[k].pos \in Int
    OBVIOUS
  <2>1. PICK r \in 1..Len(rows) : \E t \in 1..rows[r].n : k = Place(rows, r, t)
    BY <1>1
  <2>2. PICK t \in 1..rows[r].n : k = Place(rows, r, t)
    BY <2>1
  <2>3. rows[r].start \in Int /\ t \in Int
    BY <1>0, <1>2
  <2>4. T[k] = TokenOf(rows[r], t)
    BY <1>1, <2>2
  <2> QED
    BY <2>3, <2>4 DEF TokenOf
<1>4. i \in 1..N /\ positions[i] = T[i].pos /\ T[i].pos \in Int
  BY <1>1, <1>3 DEF T
<1>5. CASE flatten
  <2>1. ones = [k \in 1..N |-> 1]
    BY <1>1
  <2>2. ones \in Seq(Nat) /\ Len(ones) = N /\ \A r \in 1..N : ones[r] = 1
    <3>1. ones \in [1..N -> Nat] /\ \A r \in 1..N : ones[r] = 1
      BY <2>1
    <3> HIDE DEF ones
    <3> QED
      BY <1>1, <3>1, IsASeq
  <2> HIDE DEF ones, positions
  <2>3. Before(ones)[N] = N
    <3>1. Sums(N, ones, Before(ones))
      BY <2>2, BeforeFact
    <3>2. Before(ones)[N] = Times(N, 1)
      BY <1>1, <2>2, <3>1, SumsEven
    <3> QED
      BY <1>1, <3>2 DEF Times
  <2>4. \A r \in 1..Len(ones) : ones[r] <= 1
    BY <2>2
  <2>5. i \in 1..Before(ones)[Len(ones)]
    BY <1>4, <2>2, <2>3
  <2>6. LET m == Longest(ones)
            x == ScatterIndices(ones)[i]
        IN  DecodeTopkSeqLens(positions, ones, Len(ones), m, ~Uniform(ones))[((x[1] - 1) * m) + x[2]]
                  = positions[i] + 1
    BY <1>4, <2>2, <2>4, <2>5, TopkSeqLens
  <2>7. SeqLenUsed(rows, i, flatten) = positions[i] + 1
    BY <1>5, <2>6, Zenon DEF SeqLenUsed, positions, ones, T
  <2> QED
    BY <1>4, <2>7 DEF T
<1>6. CASE ~flatten
  <2> DEFINE lens == Lens(rows)
  <2>1. \A r \in 1..Len(lens) : lens[r] <= top
    BY <1>0, <1>2
  <2>2. i \in 1..Before(lens)[Len(lens)]
    BY <1>2, <1>4 DEF N
  <2> HIDE DEF positions, lens
  <2>3. LET m == Longest(lens)
            x == ScatterIndices(lens)[i]
        IN  DecodeTopkSeqLens(positions, lens, Len(lens), m, ~Uniform(lens))[((x[1] - 1) * m) + x[2]]
                  = positions[i] + 1
    BY <1>2, <1>4, <2>1, <2>2, TopkSeqLens DEF lens
  <2>4. SeqLenUsed(rows, i, flatten) = positions[i] + 1
    BY <1>6, <2>3, Zenon DEF SeqLenUsed, positions, lens, T
  <2> QED
    BY <1>4, <2>4 DEF T
<1> QED
  BY <1>5, <1>6

(***************************************************************************)
(* What a query at position p should attend to.                            *)
(***************************************************************************)
OwnContext(A, p) ==
    /\ A \subseteq 0..p
    /\ ((p + 1) \div Kpool) * Kpool..p \subseteq A
    /\ p + 1 <= TopK => A = 0..p

(* The complete pools cover what comes before the tail.                    *)
LEMMA PoolsFact ==
    ASSUME NEW p \in Nat
    PROVE  /\ (p + 1) \div Kpool \in Nat
           /\ ((p + 1) \div Kpool) * Kpool \in Nat
           /\ ((p + 1) \div Kpool) * Kpool <= p + 1
           /\ \A j \in 0..((p + 1) \div Kpool) - 1 : j * Kpool + Kpool - 1 <= p /\ j * Kpool \in Nat
           /\ \A q \in 0..(((p + 1) \div Kpool) * Kpool) - 1 :
                 \E j \in 0..((p + 1) \div Kpool) - 1 : q \in j * Kpool..j * Kpool + Kpool - 1
<1> DEFINE d == (p + 1) \div Kpool
<1>0. Kpool \in Nat /\ Kpool \in Nat \ {0} /\ Kpool > 0
  BY KpoolAssumption
<1>1. d \in Int /\ (p + 1) % Kpool \in 0..Kpool - 1 /\ p + 1 = Kpool * d + ((p + 1) % Kpool)
  BY <1>0, DivFact
<1> HIDE DEF d
<1>2. d * Kpool \in Int /\ Kpool * d = d * Kpool
  BY <1>0, <1>1
<1>3. d \in Nat
  <2>1. CASE d < 0
    <3>1. d * Kpool <= (-1) * Kpool
      BY <1>0, <1>1, <2>1
    <3> QED
      BY <1>0, <1>1, <1>2, <3>1
  <2> QED
    BY <1>1, <2>1
<1>4. d * Kpool \in Nat /\ d * Kpool <= p + 1
  <2>1. d * Kpool >= 0
    BY <1>0, <1>3
  <2> QED
    BY <1>1, <1>2, <2>1
<1>5. ASSUME NEW j \in 0..d - 1 PROVE j * Kpool + Kpool - 1 <= p /\ j * Kpool \in Nat
  <2>1. (j + 1) * Kpool <= d * Kpool
    BY <1>0, <1>3
  <2>2. (j + 1) * Kpool = j * Kpool + Kpool /\ j * Kpool \in Nat
    BY <1>0, <1>3
  <2> QED
    BY <1>0, <1>4, <2>1, <2>2
<1>6. ASSUME NEW q \in 0..(d * Kpool) - 1
      PROVE  \E j \in 0..d - 1 : q \in j * Kpool..j * Kpool + Kpool - 1
  <2> DEFINE j == q \div Kpool
  <2>0. q \in Nat /\ q < d * Kpool
    BY <1>4
  <2>a. q \in Int /\ Kpool \in Nat \ {0}
    BY <1>0, <2>0
  <2>1. j \in Int /\ q % Kpool \in 0..Kpool - 1 /\ q = Kpool * j + (q % Kpool)
    BY ONLY <2>a, DivFact
  <2> HIDE DEF j
  <2>2. Kpool * j = j * Kpool /\ j * Kpool \in Int
    BY <1>0, <2>1
  <2>3. q \in j * Kpool..j * Kpool + Kpool - 1
    BY <1>0, <2>0, <2>1, <2>2
  <2>4. j >= 0
    <3>1. CASE j < 0
      <4>1. j * Kpool <= (-1) * Kpool
        BY <1>0, <2>1, <3>1
      <4> QED
        BY <1>0, <2>0, <2>1, <2>2, <4>1
    <3> QED
      BY <2>1, <3>1
  <2>5. j < d
    <3>1. CASE j >= d
      <4>1. d * Kpool <= j * Kpool
        BY <1>0, <1>3, <2>1, <3>1
      <4> QED
        BY <1>0, <1>4, <2>0, <2>1, <2>2, <4>1
    <3> QED
      BY <1>3, <2>1, <3>1
  <2> QED
    BY <1>3, <2>1, <2>3, <2>4, <2>5
<1> QED
  BY <1>3, <1>4, <1>5, <1>6 DEF d

(* When all pools fit the choice is all of them.                           *)
LEMMA SelectionFact ==
    ASSUME NEW d \in Nat, NEW S \in Selections(d)
    PROVE  S \subseteq 0..d - 1 /\ (d <= TopK \div Kpool => S = 0..d - 1)
<1>1. S \subseteq 0..d - 1 /\ (d <= TopK \div Kpool => Cardinality(S) = d)
  BY DEF Selections
<1>2. IsFiniteSet(0..d - 1) /\ Cardinality(0..d - 1) = d
  BY FS_Interval
<1> QED
  BY <1>1, <1>2, FS_Subset

LEMMA DivGrows ==
    ASSUME NEW a \in Nat, NEW b \in Nat, a <= b, NEW k \in Nat \ {0}
    PROVE  a \div k <= b \div k
<1> DEFINE x == a \div k
           y == b \div k
<1>1. x \in Int /\ a % k \in 0..k - 1 /\ a = k * x + (a % k)
  BY DivFact
<1>2. y \in Int /\ b % k \in 0..k - 1 /\ b = k * y + (b % k)
  BY DivFact
<1> HIDE DEF x, y
<1>3. CASE y < x
  <2>1. k * (y + 1) <= k * x
    BY <1>1, <1>2, <1>3
  <2>2. k * (y + 1) = k * y + k
    BY <1>2
  <2>3. k * x \in Int /\ k * y \in Int
    BY <1>1, <1>2
  <2> QED
    BY <1>1, <1>2, <2>1, <2>2, <2>3
<1> QED
  BY <1>1, <1>2, <1>3 DEF x, y

(***************************************************************************)
(* expand_pools_and_append_tail: whichever complete pools were chosen for  *)
(* the query at position p, their tokens and the tail are part of its own  *)
(* context, hold the whole pool in progress, and are all of the context    *)
(* while that has at most TopK tokens.                                     *)
(***************************************************************************)
THEOREM ExpandFact ==
    ASSUME NEW p \in Nat, NEW S \in Selections((p + 1) \div Kpool)
    PROVE  OwnContext(Expand(S, p + 1), p)
<1> DEFINE d == (p + 1) \div Kpool
           A == Expand(S, p + 1)
<1>0. Kpool \in Nat /\ Kpool \in Nat \ {0}
  BY KpoolAssumption
<1>1. /\ d \in Nat /\ d * Kpool \in Nat /\ d * Kpool <= p + 1
      /\ \A j \in 0..d - 1 : j * Kpool + Kpool - 1 <= p /\ j * Kpool \in Nat
      /\ \A q \in 0..(d * Kpool) - 1 : \E j \in 0..d - 1 : q \in j * Kpool..j * Kpool + Kpool - 1
  BY PoolsFact
<1>2. S \subseteq 0..d - 1 /\ (d <= TopK \div Kpool => S = 0..d - 1)
  BY <1>1, SelectionFact
<1> HIDE DEF d
<1>3. \A q : q \in A <=> \/ \E j \in S : q \in j * Kpool..j * Kpool + Kpool - 1
                         \/ q \in d * Kpool..(p + 1) - 1
  <2> DEFINE P == {j * Kpool..j * Kpool + Kpool - 1 : j \in S}
  <2>1. A = (UNION P) \union (d * Kpool..(p + 1) - 1)
    BY Zenon DEF Expand, d
  <2>2. \A q : q \in UNION P <=> \E j \in S : q \in j * Kpool..j * Kpool + Kpool - 1
    OBVIOUS
  <2> DEFINE X == d * Kpool..(p + 1) - 1
  <2>3. A = (UNION P) \union X
    BY <2>1
  <2> HIDE DEF P, A, X
  <2>4. \A q : q \in A <=> (q \in UNION P \/ q \in X)
    BY <2>3
  <2> QED
    BY <2>2, <2>4, Zenon DEF X
<1>4. (p + 1) - 1 = p
  OBVIOUS
<1> HIDE DEF A
<1>5. A \subseteq 0..p
  <2> SUFFICES ASSUME NEW q \in A PROVE q \in 0..p
    OBVIOUS
  <2>1. CASE \E j \in S : q \in j * Kpool..j * Kpool + Kpool - 1
    <3>1. PICK j \in 0..d - 1 : q \in j * Kpool..j * Kpool + Kpool - 1
      BY <1>2, <2>1
    <3>2. j * Kpool + Kpool - 1 <= p /\ j * Kpool \in Nat
      BY <1>1
    <3> QED
      BY <1>0, <3>1, <3>2
  <2>2. CASE q \in d * Kpool..p
    BY <1>1, <2>2
  <2> QED
    BY <1>3, <1>4, <2>1, <2>2
<1>6. d * Kpool..p \subseteq A
  BY <1>3, <1>4
<1>7. ASSUME p + 1 <= TopK PROVE A = 0..p
  <2>1. d <= TopK \div Kpool
    BY <1>0, <1>7, TopKAssumption, DivGrows DEF d
  <2>2. S = 0..d - 1
    BY <1>2, <2>1
  <2>3. ASSUME NEW q \in 0..p PROVE q \in A
    <3>1. CASE q < d * Kpool
      <4>1. q \in 0..(d * Kpool) - 1
        BY <1>1, <3>1
      <4>2. \E j \in S : q \in j * Kpool..j * Kpool + Kpool - 1
        BY <1>1, <2>2, <4>1
      <4> QED
        BY <1>3, <4>2
    <3>2. CASE ~(q < d * Kpool)
      <4>1. q \in d * Kpool..p
        BY <1>1, <3>2
      <4> QED
        BY <1>6, <4>1
    <3> QED
      BY <3>1, <3>2
  <2> QED
    BY <1>5, <2>3
<1> QED
  BY <1>5, <1>6, <1>7 DEF OwnContext, d, A

USE NoneAssumption, MaxLenAssumption, DepthAssumption, KpoolAssumption

--------------------------------------------------------------------------------
(* The decode rows are the longest prefix of rows that are decodes, and    *)
(* the other rows follow it.                                               *)
LEMMA PrefixFact ==
  ASSUME NEW R, NEW rows \in Seq(R)
  PROVE  /\ NumDecodes(rows) \in 0..Len(rows)
         /\ \A i \in 1..Len(rows) :
               i <= NumDecodes(rows) <=> \A k \in 1..i : IsDecode(rows[k])
<1> DEFINE n == Len(rows)
           D == {i \in DOMAIN rows : \A k \in 1..i : IsDecode(rows[k])}
           T == (1..n + 1) \ D
<1>1. n \in Nat /\ DOMAIN rows = 1..n
  OBVIOUS
<1> HIDE DEF n
<1>2. T \subseteq Nat /\ n + 1 \in T
  BY <1>1
<1>3. PICK m \in T : \A k \in T : m <= k
  <2> HIDE DEF T
  <2> QED
    BY <1>2, Least
<1>4. m \in 1..n + 1 /\ m \notin D
  BY <1>3
<1>5. D = 1..m - 1
  <2>1. ASSUME NEW i \in 1..m - 1 PROVE i \in D
    BY <1>1, <1>3, <1>4, <2>1
  <2>2. ASSUME NEW i \in D, ~(i <= m - 1) PROVE FALSE
    <3>1. i \in 1..n /\ m \in 1..i
      BY <1>1, <1>4, <2>2
    <3>2. m \in 1..n /\ \A k \in 1..m : k \in 1..i
      BY <3>1
    <3>3. m \in D
      BY <1>1, <2>2, <3>2
    <3> QED
      BY <1>4, <3>3
  <2>3. \A i \in D : i \in 1..m - 1
    BY <1>1, <1>4, <2>2
  <2> QED
    BY <2>1, <2>3
<1>6. Cardinality(D) = m - 1
  <2> HIDE DEF D
  <2>1. Cardinality(1..m - 1) = IF 1 > m - 1 THEN 0 ELSE (m - 1) - 1 + 1
    BY <1>1, <1>4, FS_Interval
  <2> QED
    BY <1>1, <1>4, <1>5, <2>1
<1>7. NumDecodes(rows) = m - 1
  BY <1>6 DEF NumDecodes
<1>8. \A i \in 1..n : i <= m - 1 <=> \A k \in 1..i : IsDecode(rows[k])
  <2>1. \A i \in 1..n : i \in D <=> \A k \in 1..i : IsDecode(rows[k])
    BY <1>1
  <2> HIDE DEF D
  <2>2. \A i \in 1..n : i \in D <=> i <= m - 1
    BY <1>1, <1>4, <1>5
  <2> QED
    BY <2>1, <2>2, Zenon
<1> QED
  BY <1>1, <1>4, <1>7, <1>8 DEF n

(* Both parts of a batch are sequences of its rows.                        *)
LEMMA PartsFact ==
  ASSUME NEW R, NEW rows \in Seq(R)
  PROVE  /\ Decodes(rows) \in Seq(R) /\ Len(Decodes(rows)) = NumDecodes(rows)
         /\ \A i \in 1..NumDecodes(rows) : Decodes(rows)[i] = rows[i] /\ i \in DOMAIN rows
         /\ Prefills(rows) \in Seq(R) /\ Len(Prefills(rows)) = Len(rows) - NumDecodes(rows)
         /\ \A i \in 1..Len(rows) - NumDecodes(rows) :
               Prefills(rows)[i] = rows[NumDecodes(rows) + i] /\ NumDecodes(rows) + i \in DOMAIN rows
<1> DEFINE m == NumDecodes(rows)
           n == Len(rows)
<1>1. m \in 0..n /\ n \in Nat /\ DOMAIN rows = 1..n
  BY PrefixFact
<1> HIDE DEF m, n
<1>2. Decodes(rows) = SubSeq(rows, 1, m) /\ Prefills(rows) = SubSeq(rows, m + 1, n)
  BY DEF Decodes, Prefills, m, n
<1>3. /\ SubSeq(rows, 1, m) \in Seq(R) /\ Len(SubSeq(rows, 1, m)) = m
      /\ \A i \in 1..m : SubSeq(rows, 1, m)[i] = rows[i]
  BY <1>1 DEF n
<1>4. /\ SubSeq(rows, m + 1, n) \in Seq(R) /\ Len(SubSeq(rows, m + 1, n)) = n - m
      /\ \A i \in 1..n - m : SubSeq(rows, m + 1, n)[i] = rows[m + i]
  <2>1. \A i \in m + 1..n : rows[i] \in R
    BY <1>1 DEF n
  <2>2. m + 1 \in Int /\ n \in Int
    BY <1>1
  <2>3. /\ SubSeq(rows, m + 1, n) \in Seq(R)
        /\ Len(SubSeq(rows, m + 1, n)) = IF m + 1 <= n THEN n - (m + 1) + 1 ELSE 0
        /\ \A i \in 1..n - (m + 1) + 1 : SubSeq(rows, m + 1, n)[i] = rows[(m + 1) + i - 1]
    BY <2>1, <2>2, SubSeqProperties
  <2> QED
    BY <1>1, <2>3
<1>5. (\A i \in 1..m : i \in 1..n) /\ \A i \in 1..n - m : m + i \in 1..n
  BY <1>1
<1> QED
  BY <1>1, <1>2, <1>3, <1>4, <1>5 DEF m, n

--------------------------------------------------------------------------------
(* The largest element of 1..m, and of a set whose last element is m.      *)
LEMMA LargestFact ==
  ASSUME NEW m \in Nat, NEW s, s \subseteq 1..m, m \in s
  PROVE  Max(s) = m
<1>1. m \in s /\ \A y \in s : m >= y
  OBVIOUS
<1>2. \A x \in s : (\A y \in s : x >= y) => x = m
  BY <1>1
<1> QED
  BY <1>1, <1>2 DEF Max

LEMMA LargestExists ==
  ASSUME NEW n \in Nat, NEW s \in SUBSET (1..n), s # {}
  PROVE  Max(s) \in s
<1> DEFINE T == {k \in 0..n : s \subseteq 1..k}
<1>1. PICK m \in T : \A k \in T : m <= k
  <2>1. T \subseteq Nat /\ n \in T
    OBVIOUS
  <2> HIDE DEF T
  <2> QED
    BY <2>1, Least
<1>2. m # 0
  <2>1. 1..0 = {}
    OBVIOUS
  <2> QED
    BY <1>1, <2>1
<1>3. m \in 1..n /\ m - 1 \in 0..n /\ m - 1 \notin T /\ s \subseteq 1..m
  BY <1>1, <1>2
<1>4. m \in s
  <2>1. PICK y \in s : y \notin 1..m - 1
    BY <1>3
  <2> QED
    BY <1>3, <2>1
<1>5. Max(s) = m
  <2>1. m \in Nat /\ s \subseteq 1..m
    BY <1>3
  <2> QED
    BY <1>4, <2>1, LargestFact
<1> QED
  BY <1>4, <1>5

(* A fold over 1..n as a function of the sets it passes through.           *)
Folding(n, F, base, seq, g) ==
    \A s \in SUBSET (1..n) :
        g[s] = IF s = {} THEN base ELSE F[<<g[s \ {Max(s)}], seq[Max(s)]>>]

LEMMA FoldingExists ==
  ASSUME NEW n \in Nat, NEW D, NEW X, NEW F \in [D \X X -> D], NEW base \in D, NEW seq,
         \A k \in 1..n : seq[k] \in X
  PROVE  \E g \in [SUBSET (1..n) -> D] : Folding(n, F, base, seq, g)
<1> DEFINE P(m) == m <= n => \E g \in [SUBSET (1..m) -> D] : Folding(m, F, base, seq, g)
           T == {m \in Nat : ~P(m)}
<1>1. P(0)
  <2> DEFINE g == [s \in SUBSET (1..0) |-> base]
  <2>1. \A s \in SUBSET (1..0) : s = {} /\ g[s] = base
    OBVIOUS
  <2>2. g \in [SUBSET (1..0) -> D]
    OBVIOUS
  <2> HIDE DEF g
  <2>3. Folding(0, F, base, seq, g)
    BY <2>1 DEF Folding
  <2> QED
    BY <2>2, <2>3
<1>2. ASSUME NEW m \in Nat, P(m) PROVE P(m + 1)
  <2> SUFFICES ASSUME m + 1 <= n
               PROVE  \E g \in [SUBSET (1..m + 1) -> D] : Folding(m + 1, F, base, seq, g)
    OBVIOUS
  <2>0. m <= n
    OBVIOUS
  <2>1. PICK g \in [SUBSET (1..m) -> D] : Folding(m, F, base, seq, g)
    BY <1>2, <2>0, Zenon
  <2> DEFINE k == m + 1
             h == [s \in SUBSET (1..k) |-> IF k \in s THEN F[<<g[s \ {k}], seq[k]>>] ELSE g[s]]
  <2>2. \A s \in SUBSET (1..m) : h[s] = g[s] /\ s \in SUBSET (1..k) /\ k \notin s
    OBVIOUS
  <2>3. ASSUME NEW s \in SUBSET (1..k)
        PROVE  h[s] = IF s = {} THEN base ELSE F[<<h[s \ {Max(s)}], seq[Max(s)]>>]
    <3>1. CASE k \in s
      <4>0. k \in Nat /\ s \subseteq 1..k
        OBVIOUS
      <4>1. Max(s) = k
        <5> HIDE DEF k, h
        <5> QED
          BY <3>1, <4>0, LargestFact
      <4>2. s \ {k} \in SUBSET (1..m)
        OBVIOUS
      <4>3. h[s \ {k}] = g[s \ {k}]
        BY <2>2, <4>2
      <4>4. h[s] = F[<<g[s \ {k}], seq[k]>>]
        BY <3>1
      <4> HIDE DEF h
      <4> QED
        BY <3>1, <4>1, <4>3, <4>4
    <3>2. CASE k \notin s
      <4>1. s \in SUBSET (1..m)
        BY <3>2
      <4>2. h[s] = g[s]
        BY <2>2, <4>1
      <4> HIDE DEF h
      <4>3. CASE s = {}
        <5>1. g[s] = base
          BY <2>1, <4>1, <4>3 DEF Folding
        <5> QED
          BY <4>2, <4>3, <5>1
      <4>4. CASE s # {}
        <5>1. h[s \ {Max(s)}] = g[s \ {Max(s)}]
          BY <2>2, <4>1
        <5> QED
          BY <2>1, <4>1, <4>2, <4>4, <5>1 DEF Folding
      <4> QED
        BY <4>3, <4>4
    <3> QED
      BY <3>1, <3>2
  <2>4. h \in [SUBSET (1..k) -> D]
    <3>1. seq[k] \in X
      <4>1. k \in 1..n
        OBVIOUS
      <4> HIDE DEF k, h
      <4> QED
        BY <4>1
    <3>2. ASSUME NEW s \in SUBSET (1..k), k \in s PROVE F[<<g[s \ {k}], seq[k]>>] \in D
      <4>1. s \ {k} \in SUBSET (1..m)
        OBVIOUS
      <4> QED
        BY <3>1, <4>1
    <3>3. ASSUME NEW s \in SUBSET (1..k), k \notin s PROVE g[s] \in D
      <4>1. s \in SUBSET (1..m)
        BY <3>3
      <4> QED
        BY <4>1
    <3> QED
      BY <3>2, <3>3
  <2> HIDE DEF h
  <2>5. Folding(k, F, base, seq, h)
    BY <2>3 DEF Folding
  <2> QED
    BY <2>4, <2>5
<1> HIDE DEF P
<1>3. SUFFICES ASSUME ~P(n) PROVE FALSE
  <2>1. n <= n
    OBVIOUS
  <2> QED
    BY <1>3, <2>1, Zenon DEF P
<1>4. PICK m \in T : \A k \in T : m <= k
  <2>1. T \subseteq Nat /\ n \in T
    BY <1>3
  <2> HIDE DEF T
  <2> QED
    BY <2>1, Least
<1>5. m # 0
  BY <1>1, <1>4
<1>6. m - 1 \in Nat /\ P(m - 1)
  BY <1>4, <1>5
<1>7. P((m - 1) + 1)
  BY <1>2, <1>6
<1>8. (m - 1) + 1 = m
  BY <1>4
<1> QED
  BY <1>4, <1>7, <1>8

LEMMA SetsFact ==
  ASSUME NEW n \in Nat, NEW k \in 1..n
  PROVE  /\ 1..k \in SUBSET (1..n) /\ 1..k # {} /\ Max(1..k) = k /\ (1..k) \ {k} = 1..k - 1
<1>1. 1..k \in SUBSET (1..n) /\ 1..k # {} /\ k \in 1..k /\ k \in Nat
  OBVIOUS
<1>2. Max(1..k) = k
  BY <1>1, LargestFact
<1>3. (1..k) \ {k} = 1..k - 1
  OBVIOUS
<1> QED
  BY <1>1, <1>2, <1>3

(* The values that a fold passes through.                                  *)
Chained(n, D, F, seq, f) ==
    f[0] \in D /\ \A k \in 1..n : f[k - 1] \in D => f[k] = F[<<f[k - 1], seq[k]>>]

LEMMA ChainType ==
  ASSUME NEW n \in Nat, NEW D, NEW X, NEW F \in [D \X X -> D], NEW seq,
         \A k \in 1..n : seq[k] \in X, NEW f, Chained(n, D, F, seq, f)
  PROVE  \A k \in 0..n : f[k] \in D
<1> DEFINE T == {i \in 0..n : f[i] \notin D}
<1> SUFFICES ASSUME NEW k \in T PROVE FALSE
    OBVIOUS
<1>1. PICK m \in T : \A i \in T : m <= i
  <2>1. T \subseteq Nat /\ k \in T
    OBVIOUS
  <2> HIDE DEF T
  <2> QED
    BY <2>1, Least
<1>2. m # 0
  BY <1>1 DEF Chained
<1>3. m \in 1..n /\ m - 1 \in 0..n /\ f[m - 1] \in D
  BY <1>1, <1>2
<1>4. f[m] = F[<<f[m - 1], seq[m]>>]
  BY <1>3 DEF Chained
<1>5. f[m] \in D
  BY <1>3, <1>4
<1> QED
  BY <1>1, <1>5

--------------------------------------------------------------------------------
(* The decode write, token by token.                                       *)

BlockType == [ring : [Ring -> KeyType], pools : [PoolId -> [Ring -> KeyType]]]
CacheType == [Block -> BlockType]
TokenType == [block : Block, pos : {PadPos} \union 0..MaxLen, key : KeyType]

LEMMA PoolOf ==
  ASSUME NEW p \in 0..MaxLen
  PROVE  p \div Kpool \in PoolId /\ p % Kpool \in Ring
<1>1. p \in Nat /\ MaxLen \in Nat /\ p <= MaxLen /\ Kpool \in Nat \ {0}
  OBVIOUS
<1>2. p \div Kpool <= MaxLen \div Kpool
  BY <1>1, DivGrows
<1>3. p \div Kpool \in Nat /\ MaxLen \div Kpool \in Nat /\ p % Kpool \in 0..Kpool - 1
  BY <1>1
<1> QED
  BY <1>2, <1>3 DEF PoolId, Ring

(* One token.                                                              *)
LEMMA StashFact ==
  ASSUME NEW c \in CacheType, NEW token \in TokenType, token.pos # PadPos
  PROVE  LET b    == token.block
             ring == [c[b].ring EXCEPT ![token.pos % Kpool] = token.key]
             new  == Stash(c, token)
         IN  /\ new \in CacheType
             /\ \A d \in Block : d # b => new[d] = c[d]
             /\ new[b].ring = ring
             /\ new[b].pools = IF token.pos % Kpool = Kpool - 1
                               THEN [c[b].pools EXCEPT ![token.pos \div Kpool] = ring] ELSE c[b].pools
<1> DEFINE b == token.block
           ring == [c[b].ring EXCEPT ![token.pos % Kpool] = token.key]
           pools == IF token.pos % Kpool = Kpool - 1
                    THEN [c[b].pools EXCEPT ![token.pos \div Kpool] = ring] ELSE c[b].pools
           new == Stash(c, token)
<1>1. b \in Block /\ token.pos \in 0..MaxLen /\ token.key \in KeyType
  BY DEF TokenType
<1>2. c[b] \in BlockType /\ c[b].ring \in [Ring -> KeyType] /\ c[b].pools \in [PoolId -> [Ring -> KeyType]]
  BY <1>1 DEF CacheType, BlockType
<1>3. token.pos \div Kpool \in PoolId /\ token.pos % Kpool \in Ring
  BY <1>1, PoolOf
<1>4. ring \in [Ring -> KeyType]
  BY <1>1, <1>2
<1> HIDE DEF ring
<1>5. pools \in [PoolId -> [Ring -> KeyType]]
  BY <1>2, <1>4
<1>6. new = [c EXCEPT ![b].ring = ring,
                      ![b].pools = IF token.pos % Kpool = Kpool - 1
                                   THEN [@ EXCEPT ![token.pos \div Kpool] = ring] ELSE @]
  BY Zenon DEF Stash, ring
<1> HIDE DEF b, new
<1>7. new = [c EXCEPT ![b] = [ring |-> ring, pools |-> pools]]
  <2>1. DOMAIN new = Block /\ \A d \in Block : d # b => new[d] = c[d]
    BY <1>6 DEF CacheType
  <2>2. new[b] = [ring |-> ring, pools |-> pools]
    BY <1>1, <1>2, <1>6 DEF CacheType, BlockType
  <2> QED
    BY <1>1, <1>6, <2>1, <2>2 DEF CacheType
<1> HIDE DEF pools
<1>8. [ring |-> ring, pools |-> pools] \in BlockType
  BY <1>4, <1>5 DEF BlockType
<1>9. new \in CacheType /\ new[b] = [ring |-> ring, pools |-> pools] /\ \A d \in Block : d # b => new[d] = c[d]
  BY <1>1, <1>7, <1>8 DEF CacheType
<1> QED
  BY <1>9 DEF b, new, ring, pools

LEMMA StashType ==
  ASSUME NEW c \in CacheType, NEW token \in TokenType
  PROVE  Stash(c, token) \in CacheType
<1>1. CASE token.pos = PadPos
  BY <1>1 DEF Stash
<1>2. CASE token.pos # PadPos
  BY <1>2, StashFact
<1> QED
  BY <1>1, <1>2

(* The tokens of a request pass through a chain of caches.                 *)
LEMMA StashRowFact ==
  ASSUME NEW c \in CacheType, NEW n \in Nat, NEW seq \in [1..n -> TokenType]
  PROVE  \E f : /\ f[0] = c /\ f[n] = StashRow(c, seq)
                /\ \A k \in 1..n : f[k] = Stash(f[k - 1], seq[k])
                /\ \A k \in 0..n : f[k] \in CacheType
<1> DEFINE F == [x \in CacheType \X TokenType |-> Stash(x[1], x[2])]
           Is(g) == g = [s \in SUBSET (DOMAIN seq) |->
                            IF s = {} THEN c ELSE Stash(g[s \ {Max(s)}], seq[Max(s)])]
<1>1. F \in [CacheType \X TokenType -> CacheType]
  BY StashType
<1>1a. \A d \in CacheType, t \in TokenType : F[<<d, t>>] = Stash(d, t)
  OBVIOUS
<1> HIDE DEF F
<1>2. PICK g \in [SUBSET (1..n) -> CacheType] : Folding(n, F, c, seq, g)
  <2>1. \A k \in 1..n : seq[k] \in TokenType
    OBVIOUS
  <2> QED
    BY <1>1, <2>1, FoldingExists
<1>3. Is(g)
  <2>1. ASSUME NEW s \in SUBSET (1..n)
        PROVE  g[s] = IF s = {} THEN c ELSE Stash(g[s \ {Max(s)}], seq[Max(s)])
    <3>1. CASE s = {}
      BY <1>2, <3>1 DEF Folding
    <3>2. CASE s # {}
      <4>1. g[s] = F[<<g[s \ {Max(s)}], seq[Max(s)]>>]
        BY <1>2, <3>2 DEF Folding
      <4>2. g[s \ {Max(s)}] \in CacheType
        BY <1>2
      <4>3. Max(s) \in s
        BY <3>2, LargestExists
      <4>4. seq[Max(s)] \in TokenType
        BY <4>3
      <4> QED
        BY <1>1a, <3>2, <4>1, <4>2, <4>4
    <3> QED
      BY <3>1, <3>2
  <2>2. g = [s \in SUBSET (1..n) |-> g[s]] /\ DOMAIN seq = 1..n
    BY <1>2
  <2> QED
    BY <2>1, <2>2, Zenon
<1>4. PICK iter : Is(iter) /\ StashRow(c, seq) = iter[DOMAIN seq]
  <2> DEFINE iter == CHOOSE h : Is(h)
  <2>1. Is(iter)
    <3> HIDE DEF Is
    <3> QED
      BY <1>3, Zenon
  <2>2. StashRow(c, seq) = iter[DOMAIN seq]
    BY Zenon DEF StashRow, FoldLeft, MapThenFoldSet
  <2> QED
    BY <2>1, <2>2, Zenon
<1>5. \A s \in SUBSET (1..n) :
        iter[s] = IF s = {} THEN c ELSE Stash(iter[s \ {Max(s)}], seq[Max(s)])
  <2>1. DOMAIN seq = 1..n
    OBVIOUS
  <2> QED
    BY <1>4, <2>1
<1> HIDE DEF Is
<1> DEFINE f == [k \in 0..n |-> iter[1..k]]
<1>6. f[0] = c
  <2>1. 1..0 = {} /\ {} \in SUBSET (1..n) /\ 0 \in 0..n
    OBVIOUS
  <2>2. iter[{}] = c
    BY <1>5, <2>1
  <2> QED
    BY <2>1, <2>2
<1>7. ASSUME NEW k \in 1..n PROVE f[k] = Stash(f[k - 1], seq[k])
  <2>1. /\ 1..k \in SUBSET (1..n) /\ 1..k # {} /\ Max(1..k) = k /\ (1..k) \ {k} = 1..k - 1
    BY SetsFact
  <2>2. iter[1..k] = Stash(iter[1..k - 1], seq[k])
    BY <1>5, <2>1
  <2>3. k \in 0..n /\ k - 1 \in 0..n
    OBVIOUS
  <2>4. f[k] = iter[1..k] /\ f[k - 1] = iter[1..k - 1]
    BY <2>3
  <2> QED
    BY <2>2, <2>4
<1>8. f[n] = StashRow(c, seq)
  <2>1. DOMAIN seq = 1..n /\ n \in 0..n
    OBVIOUS
  <2> QED
    BY <1>4, <2>1
<1> HIDE DEF f
<1>9. \A k \in 0..n : f[k] \in CacheType
  <2>1. \A j \in 1..n : seq[j] \in TokenType
    OBVIOUS
  <2>2. \A j \in 1..n : f[j - 1] \in CacheType => f[j] = F[<<f[j - 1], seq[j]>>]
    BY <1>1a, <1>7, <2>1
  <2>3. f[0] \in CacheType
    BY <1>6
  <2> QED
    <3>1. Chained(n, CacheType, F, seq, f)
      BY <2>2, <2>3 DEF Chained
    <3> QED
      BY <1>1, <2>1, <3>1, ChainType
<1> QED
  BY <1>6, <1>7, <1>8, <1>9
LEMMA StashRowType ==
  ASSUME NEW c \in CacheType, NEW n \in Nat, NEW seq \in [1..n -> TokenType]
  PROVE  StashRow(c, seq) \in CacheType
<1>1. PICK f : f[n] = StashRow(c, seq) /\ \A k \in 0..n : f[k] \in CacheType
  BY StashRowFact
<1> QED
  BY <1>1

(* The requests pass through a chain of caches.                            *)
StashRows(c, seq) == FoldLeft(StashRow, c, seq)
RowByRow(f, n, seq) == \A k \in 1..n : f[k] = StashRow(f[k - 1], seq[k])

LEMMA StashRowsFact ==
  ASSUME NEW c \in CacheType, NEW n \in Nat, NEW l \in Nat, NEW seq \in [1..n -> [1..l -> TokenType]]
  PROVE  \E f : /\ f[0] = c /\ f[n] = StashRows(c, seq)
                /\ RowByRow(f, n, seq)
                /\ \A k \in 0..n : f[k] \in CacheType
<1> DEFINE Toks == [1..l -> TokenType]
<1> DEFINE F == [x \in CacheType \X Toks |-> StashRow(x[1], x[2])]
           Is(g) == g = [s \in SUBSET (DOMAIN seq) |->
                            IF s = {} THEN c ELSE StashRow(g[s \ {Max(s)}], seq[Max(s)])]
<1>1. F \in [CacheType \X Toks -> CacheType]
  BY StashRowType
<1>1a. \A d \in CacheType, t \in Toks : F[<<d, t>>] = StashRow(d, t)
  OBVIOUS
<1> HIDE DEF F, Toks
<1>0. seq \in [1..n -> Toks]
  BY DEF Toks
<1>2. PICK g \in [SUBSET (1..n) -> CacheType] : Folding(n, F, c, seq, g)
  <2>1. \A k \in 1..n : seq[k] \in Toks
    BY <1>0
  <2> QED
    BY <1>1, <2>1, FoldingExists
<1>3. Is(g)
  <2>1. ASSUME NEW s \in SUBSET (1..n)
        PROVE  g[s] = IF s = {} THEN c ELSE StashRow(g[s \ {Max(s)}], seq[Max(s)])
    <3>1. CASE s = {}
      BY <1>2, <3>1 DEF Folding
    <3>2. CASE s # {}
      <4>1. g[s] = F[<<g[s \ {Max(s)}], seq[Max(s)]>>]
        BY <1>2, <3>2 DEF Folding
      <4>2. g[s \ {Max(s)}] \in CacheType
        BY <1>2
      <4>3. Max(s) \in s
        BY <3>2, LargestExists
      <4>4. seq[Max(s)] \in Toks
        BY <1>0, <4>3
      <4> QED
        BY <1>1a, <3>2, <4>1, <4>2, <4>4
    <3> QED
      BY <3>1, <3>2
  <2>2. g = [s \in SUBSET (1..n) |-> g[s]] /\ DOMAIN seq = 1..n
    BY <1>2
  <2> QED
    BY <2>1, <2>2, Zenon
<1>4. PICK iter : Is(iter) /\ StashRows(c, seq) = iter[DOMAIN seq]
  <2> DEFINE iter == CHOOSE h : Is(h)
  <2>1. Is(iter)
    <3> HIDE DEF Is
    <3> QED
      BY <1>3, Zenon
  <2>2. StashRows(c, seq) = iter[DOMAIN seq]
    BY Zenon DEF StashRows, FoldLeft, MapThenFoldSet
  <2> QED
    BY <2>1, <2>2, Zenon
<1>5. \A s \in SUBSET (1..n) :
        iter[s] = IF s = {} THEN c ELSE StashRow(iter[s \ {Max(s)}], seq[Max(s)])
  <2>1. DOMAIN seq = 1..n
    OBVIOUS
  <2> QED
    BY <1>4, <2>1
<1> HIDE DEF Is
<1> DEFINE f == [k \in 0..n |-> iter[1..k]]
<1>6. f[0] = c
  <2>1. 1..0 = {} /\ {} \in SUBSET (1..n) /\ 0 \in 0..n
    OBVIOUS
  <2>2. iter[{}] = c
    BY <1>5, <2>1
  <2> QED
    BY <2>1, <2>2
<1>7. ASSUME NEW k \in 1..n PROVE f[k] = StashRow(f[k - 1], seq[k])
  <2>1. /\ 1..k \in SUBSET (1..n) /\ 1..k # {} /\ Max(1..k) = k /\ (1..k) \ {k} = 1..k - 1
    BY SetsFact
  <2>2. iter[1..k] = StashRow(iter[1..k - 1], seq[k])
    BY <1>5, <2>1
  <2>3. k \in 0..n /\ k - 1 \in 0..n
    OBVIOUS
  <2>4. f[k] = iter[1..k] /\ f[k - 1] = iter[1..k - 1]
    BY <2>3
  <2> QED
    BY <2>2, <2>4
<1>8. f[n] = StashRows(c, seq)
  <2>1. DOMAIN seq = 1..n /\ n \in 0..n
    OBVIOUS
  <2> QED
    BY <1>4, <2>1
<1> HIDE DEF f
<1>9. \A k \in 0..n : f[k] \in CacheType
  <2>1. \A j \in 1..n : seq[j] \in Toks
    BY <1>0
  <2>2. \A j \in 1..n : f[j - 1] \in CacheType => f[j] = F[<<f[j - 1], seq[j]>>]
    BY <1>1a, <1>7, <2>1
  <2>3. f[0] \in CacheType
    BY <1>6
  <2> QED
    <3>1. Chained(n, CacheType, F, seq, f)
      BY <2>2, <2>3 DEF Chained
    <3> QED
      BY <1>1, <2>1, <3>1, ChainType
<1>10. RowByRow(f, n, seq)
  BY <1>7, Zenon DEF RowByRow
<1> QED
  BY <1>6, <1>8, <1>9, <1>10, Zenon

LEMMA EvenPlaces ==
  ASSUME NEW lens \in Seq(Nat), NEW l \in Nat, \A r \in 1..Len(lens) : lens[r] = l,
         NEW r \in 1..Len(lens), NEW t
  PROVE  Flat(lens, r, t) = Times(r - 1, l) + t
<1> DEFINE b == Before(lens)
<1>1. r - 1 \in 0..Len(lens) /\ Len(lens) \in Nat
  OBVIOUS
<1>2. Sums(Len(lens), lens, b)
  BY BeforeFact
<1> DEFINE n == Len(lens)
<1> HIDE DEF b, n
<1>2a. n \in Nat /\ r - 1 \in 0..n /\ Sums(n, lens, b) /\ \A k \in 1..n : lens[k] = l
  BY <1>1, <1>2 DEF n
<1>3. b[r - 1] = Times(r - 1, l)
  <2> DEFINE q == r - 1
  <2> HIDE DEF q
  <2>1. q \in 0..n
    BY <1>2a DEF q
  <2>2. b[q] = Times(q, l)
    BY <1>2a, <2>1, SumsEven
  <2> QED
    BY <2>2, Zenon DEF q
<1> QED
  BY <1>3 DEF Flat, b

(* The tokens by request, in either layout.                                *)
LEMMA GroupedFact ==
  ASSUME NEW R, NEW rows \in Seq(R), rows # << >>, NEW top \in Nat, \A row \in R : row.n \in 0..top,
         NEW pad
  PROVE  LET l == Longest(Lens(rows))
             g == Grouped(Tokens(rows), pad, Lens(rows))
         IN  /\ l \in Nat /\ DOMAIN g = 1..Len(rows)
             /\ \A r \in 1..Len(rows) :
                   /\ rows[r].n \in 0..l
                   /\ g[r] = [t \in 1..l |-> IF t <= rows[r].n THEN TokenOf(rows[r], t) ELSE pad]
<1> DEFINE lens == Lens(rows)
           l == Longest(lens)
           n == Len(rows)
           T == Tokens(rows)
           g == Grouped(T, pad, lens)
<1>0. \A row \in R : row.n \in Nat
  OBVIOUS
<1>1. /\ lens \in Seq(Nat) /\ Len(lens) = n /\ n \in Nat /\ DOMAIN lens = 1..n
      /\ \A r \in 1..n : rows[r] \in R /\ lens[r] = rows[r].n /\ lens[r] \in 0..top
  BY <1>0, LensFact
<1>1a. n \in Nat \ {0} /\ lens # << >>
  BY <1>1
<1>2. l \in Nat /\ \A r \in 1..n : lens[r] <= l
  <2> HIDE DEF lens, l, n
  <2>1. \A r \in 1..Len(lens) : lens[r] <= top
    BY <1>1
  <2> QED
    BY <1>1, <1>1a, <2>1, LongestFact DEF l
<1>2a. \E r \in 1..n : lens[r] = l
  <2> HIDE DEF lens, l, n
  <2>1. \A r \in 1..Len(lens) : lens[r] <= top
    BY <1>1
  <2> QED
    BY <1>1, <1>1a, <2>1, LongestFact DEF l
<1>3. \A r \in 1..n : \A t \in 1..rows[r].n : T[Place(rows, r, t)] = TokenOf(rows[r], t)
  BY <1>0, TokensFact
<1>4. \A r \in 1..n : \A t \in 1..rows[r].n : Place(rows, r, t) = Flat(lens, r, t)
  BY DEF Place
<1>4a. \A r \in 1..n : rows[r].n \in 0..l
  BY <1>1, <1>2
<1> HIDE DEF lens, l, n, T
<1>5. CASE Uniform(lens) /\ Len(T) = Len(lens) * l
  <2>1. g = [r \in 1..n |-> [t \in 1..l |-> T[((r - 1) * l) + t]]]
    <3>1. g = [r \in DOMAIN lens |-> [t \in 1..l |-> T[((r - 1) * l) + t]]]
      BY <1>5, Zenon DEF Grouped, l
    <3> HIDE DEF g
    <3> QED
      BY <1>1, <3>1
  <2>2. \A r \in 1..n : lens[r] = l
    BY <1>1, <1>2a, <1>5 DEF Uniform
  <2>3. Sums(n, lens, Before(lens))
    BY <1>1, BeforeFact
  <2>4. \A r \in 1..n : \A t \in 1..l : Flat(lens, r, t) = ((r - 1) * l) + t
    <3>1. /\ lens \in Seq(Nat) /\ l \in Nat
          /\ \A r \in 1..Len(lens) : lens[r] = l
          /\ 1..n = 1..Len(lens)
      BY <1>1, <1>2, <2>2
    <3>2. \A r \in 1..Len(lens) : \A t \in 1..l : Flat(lens, r, t) = Times(r - 1, l) + t
      <4> SUFFICES ASSUME NEW r \in 1..Len(lens), NEW t \in 1..l
                   PROVE  Flat(lens, r, t) = Times(r - 1, l) + t
        OBVIOUS
      <4> QED
        BY <3>1, EvenPlaces
    <3> QED
      BY <3>1, <3>2, Zenon DEF Times
  <2>5. ASSUME NEW r \in 1..n
        PROVE  [t \in 1..l |-> T[((r - 1) * l) + t]] =
                  [t \in 1..l |-> IF t <= rows[r].n THEN TokenOf(rows[r], t) ELSE pad]
    <3>1. rows[r].n = l
      BY <1>1, <2>2
    <3>2. ASSUME NEW t \in 1..l PROVE T[((r - 1) * l) + t] = TokenOf(rows[r], t) /\ t <= rows[r].n
      <4>1. t \in 1..rows[r].n
        BY <3>1
      <4>2. Place(rows, r, t) = ((r - 1) * l) + t
        BY <1>4, <2>4, <4>1
      <4> QED
        BY <1>3, <4>1, <4>2
    <3> QED
      BY <3>2
  <2>6. DOMAIN g = 1..n /\ \A r \in 1..n : g[r] = [t \in 1..l |-> T[((r - 1) * l) + t]]
    <3> HIDE DEF g
    <3> QED
      BY <2>1
  <2>7. \A r \in 1..n : g[r] = [t \in 1..l |-> IF t <= rows[r].n THEN TokenOf(rows[r], t) ELSE pad]
    <3> HIDE DEF g
    <3> QED
      BY <2>5, <2>6
  <2> QED
    BY <1>2, <1>4a, <2>6, <2>7 DEF lens, l, n, T
<1>6. CASE ~(Uniform(lens) /\ Len(T) = Len(lens) * l)
  <2>1. g = Scatter(T, pad, lens, l)
    BY <1>6, Zenon DEF Grouped, l
  <2>2. DOMAIN g = 1..n /\ \A r \in 1..n : DOMAIN g[r] = 1..l /\ g[r] = [t \in 1..l |-> g[r][t]]
    BY <1>1, <2>1 DEF Scatter
  <2>3. ASSUME NEW r \in 1..n, NEW t \in 1..l
        PROVE  g[r][t] = IF t <= rows[r].n THEN TokenOf(rows[r], t) ELSE pad
    <3>1. g[r][t] = IF t <= lens[r] THEN T[Flat(lens, r, t)] ELSE pad
      <4>1. r \in 1..Len(lens)
        BY <1>1
      <4> HIDE DEF g
      <4>2. Scatter(T, pad, lens, l)[r][t] = IF t <= lens[r] THEN T[Flat(lens, r, t)] ELSE pad
        BY <1>1, <1>2, <4>1, GridFact
      <4> QED
        BY <2>1, <4>2
    <3>2. ASSUME t <= lens[r] PROVE T[Flat(lens, r, t)] = TokenOf(rows[r], t)
      <4>1. t \in 1..rows[r].n
        BY <1>1, <3>2
      <4> QED
        BY <1>3, <1>4, <4>1
    <3> QED
      BY <1>1, <3>1, <3>2
  <2> HIDE DEF g
  <2>4. \A r \in 1..n : g[r] = [t \in 1..l |-> IF t <= rows[r].n THEN TokenOf(rows[r], t) ELSE pad]
    BY <2>2, <2>3
  <2> QED
    BY <1>2, <1>4a, <2>2, <2>4 DEF lens, l, n, T, g
<1> QED
  BY <1>5, <1>6

--------------------------------------------------------------------------------
(* Two positions less than a pool apart have different places in the ring. *)
LEMMA ModApart ==
  ASSUME NEW a \in Nat, NEW b \in Nat, a < b, b < a + Kpool
  PROVE  a % Kpool # b % Kpool
<1> DEFINE x == a \div Kpool
           y == b \div Kpool
           r == a % Kpool
           k == Kpool
<1>0. k \in Nat \ {0}
  OBVIOUS
<1>1. SUFFICES ASSUME b % Kpool = r PROVE FALSE
  OBVIOUS
<1>2. x \in Int /\ y \in Int /\ r \in Int /\ a = (k * x) + r /\ b = (k * y) + r
  BY <1>0, <1>1, DivFact
<1> HIDE DEF x, y, r, k
<1>3. (k * y) - (k * x) > 0 /\ (k * y) - (k * x) < k
  <2>1. k * y \in Int /\ k * x \in Int
    BY <1>0, <1>2
  <2> QED
    BY <1>2, <2>1 DEF k
<1>4. CASE y <= x
  <2>1. k * y <= k * x
    BY <1>0, <1>2, <1>4
  <2>2. k * y \in Int /\ k * x \in Int
    BY <1>0, <1>2
  <2> QED
    BY <1>3, <2>1, <2>2
<1>5. CASE y >= x + 1
  <2>1. k * y >= k * (x + 1)
    BY <1>0, <1>2, <1>5
  <2>2. k * (x + 1) = (k * x) + k
    BY <1>0, <1>2
  <2>3. k * y \in Int /\ k * x \in Int
    BY <1>0, <1>2
  <2> QED
    BY <1>0, <1>3, <2>1, <2>2, <2>3
<1> QED
  BY <1>2, <1>4, <1>5

(* A position by its pool and its place in it.                             *)
LEMMA PoolPlace ==
  ASSUME NEW p \in Nat
  PROVE  /\ p \div Kpool \in Nat /\ p % Kpool \in Ring /\ p = ((p \div Kpool) * Kpool) + (p % Kpool)
<1>1. /\ p \div Kpool \in Nat /\ p % Kpool \in 0..Kpool - 1
      /\ p = (Kpool * (p \div Kpool)) + (p % Kpool)
  BY DivFact
<1>2. Kpool * (p \div Kpool) = (p \div Kpool) * Kpool
  BY <1>1
<1> QED
  BY <1>1, <1>2 DEF Ring

LEMMA PlacePool ==
  ASSUME NEW j \in Nat, NEW o \in Ring
  PROVE  /\ ((j * Kpool) + o) \div Kpool = j /\ ((j * Kpool) + o) % Kpool = o
         /\ j * Kpool \in Nat /\ (j * Kpool) + o \in Nat
<1>1. o \in Nat /\ o < Kpool /\ j * Kpool \in Nat
  BY DEF Ring
<1>2. ((j * Kpool) + o) \div Kpool = j /\ ((j * Kpool) + o) % Kpool = o
  BY <1>1, DivIs
<1>3. (j * Kpool) + o \in Nat
  <2> DEFINE m == j * Kpool
  <2> HIDE DEF m
  <2>1. m \in Nat
    BY <1>1 DEF m
  <2>2. m + o \in Nat
    BY <1>1, <2>1
  <2> QED
    BY <2>2 DEF m
<1> QED
  BY <1>1, <1>2, <1>3

(* The rows of a batch as the cache sees them.                             *)
GoodRow(row) ==
    /\ row.req \in Req /\ row.block \in Block
    /\ row.start \in Nat /\ row.n \in Nat /\ row.start + row.n <= MaxLen
    /\ row.drafts \in 0..row.n /\ row.right \in 0..row.drafts

KeyAt(row, p) == Key(row.req, p, p < row.start + Advance(row))
TokenAt(row, p) == [block |-> row.block, pos |-> p, key |-> KeyAt(row, p)]

(* The tokens of a row are those of its positions.                         *)
LEMMA TokenFact ==
  ASSUME NEW row, GoodRow(row), NEW t \in 1..row.n
  PROVE  TokenOf(row, t) = TokenAt(row, row.start + t - 1)
<1>1. t <= row.n - row.drafts + row.right <=> row.start + t - 1 < row.start + Advance(row)
  BY DEF GoodRow, Advance, Rejected
<1>2. (t <= row.n - row.drafts + row.right) = (row.start + t - 1 < row.start + Advance(row))
  BY <1>1
<1> QED
  BY <1>2, Zenon DEF TokenOf, TokenAt, KeyAt

LEMMA TokenAtType ==
  ASSUME NEW row, GoodRow(row), NEW p \in row.start..row.start + row.n - 1
  PROVE  TokenAt(row, p) \in TokenType /\ p \in 0..MaxLen /\ p # PadPos /\ KeyAt(row, p) \in KeyType
<1>1. p \in 0..MaxLen /\ p # PadPos
  BY DEF GoodRow, PadPos
<1>2. (p < row.start + Advance(row)) \in BOOLEAN
  OBVIOUS
<1>3. KeyAt(row, p) \in KeyType
  BY <1>1, <1>2 DEF KeyAt, Key, KeyType, GoodRow
<1> QED
  BY <1>1, <1>3 DEF TokenAt, TokenType, GoodRow

(***************************************************************************)
(* What the write of the tokens of a row before position e makes of a      *)
(* block: the ring holds the last of them, and a pool whose last token is  *)
(* among them is made of them and of what the ring held before.            *)
(***************************************************************************)
PoolEnd(j) == (j * Kpool) + Kpool - 1

RingMade(new, row, e) ==
    \A p \in row.start..e - 1 : p + Kpool >= e => new.ring[p % Kpool] = KeyAt(row, p)
RingKept(old, new, row, e) ==
    \A o \in Ring : (\A p \in row.start..e - 1 : p % Kpool # o) => new.ring[o] = old.ring[o]
EndsIn(j, row, e) == row.start <= PoolEnd(j) /\ PoolEnd(j) < e
PoolMade(old, new, row, j) ==
    \A o \in Ring : new.pools[j][o] = IF (j * Kpool) + o >= row.start
                                     THEN KeyAt(row, (j * Kpool) + o) ELSE old.ring[o]
PoolsMade(old, new, row, e, miss) ==
    \A j \in PoolId \ miss : EndsIn(j, row, e) => PoolMade(old, new, row, j)
PoolsKept(old, new, row, e, miss) ==
    \A j \in PoolId \ miss : ~EndsIn(j, row, e) => new.pools[j] = old.pools[j]
After(old, new, row, e, miss) ==
    /\ RingMade(new, row, e) /\ RingKept(old, new, row, e)
    /\ PoolsMade(old, new, row, e, miss) /\ PoolsKept(old, new, row, e, miss)

LEMMA AfterNothing ==
  ASSUME NEW old, NEW row, row.start \in Nat
  PROVE  After(old, old, row, row.start, {})
<1>1. row.start..row.start - 1 = {}
  OBVIOUS
<1>2. \A j \in PoolId : ~(row.start <= PoolEnd(j) /\ PoolEnd(j) < row.start)
  BY DEF PoolId, PoolEnd
<1> QED
  BY <1>1, <1>2 DEF After, RingMade, RingKept, PoolsMade, PoolsKept, EndsIn

LEMMA LastFact ==
  ASSUME NEW p \in Nat, NEW j \in Nat
  PROVE  /\ PoolEnd(j) \in Nat
         /\ PoolEnd(j) = p <=> p % Kpool = Kpool - 1 /\ p \div Kpool = j
<1>1. /\ p \div Kpool \in Nat /\ p % Kpool \in Ring /\ p = ((p \div Kpool) * Kpool) + (p % Kpool)
  BY PoolPlace
<1>2. Kpool - 1 \in Ring
  BY DEF Ring
<1>3. /\ ((j * Kpool) + (Kpool - 1)) \div Kpool = j /\ ((j * Kpool) + (Kpool - 1)) % Kpool = Kpool - 1
      /\ j * Kpool \in Nat /\ (j * Kpool) + (Kpool - 1) \in Nat
  BY <1>2, PlacePool
<1>4. PoolEnd(j) = (j * Kpool) + (Kpool - 1)
  BY <1>3 DEF PoolEnd
<1>5. p % Kpool = Kpool - 1 /\ p \div Kpool = j => p = (j * Kpool) + (Kpool - 1)
  BY <1>1
<1> QED
  BY <1>3, <1>4, <1>5

(* One more token of the row.                                              *)
LEMMA StashStep ==
  ASSUME NEW row, GoodRow(row), NEW p \in row.start..row.start + row.n - 1,
         NEW old, NEW c \in CacheType, After(old, c[row.block], row, p, {})
  PROVE  After(old, Stash(c, TokenAt(row, p))[row.block], row, p + 1, {})
<1> DEFINE blk == c[row.block]
           new == Stash(c, TokenAt(row, p))[row.block]
           ring == [blk.ring EXCEPT ![p % Kpool] = KeyAt(row, p)]
           s == row.start
<1>0. /\ p \in Nat /\ s \in Nat /\ s <= p /\ (p + 1) - 1 = p /\ row.block \in Block
      /\ blk.ring \in [Ring -> KeyType] /\ blk.pools \in [PoolId -> [Ring -> KeyType]]
      /\ p % Kpool \in Ring /\ p \div Kpool \in PoolId
  <2>1. p \in 0..MaxLen
    BY TokenAtType
  <2>2. p \div Kpool \in PoolId /\ p % Kpool \in Ring
    BY <2>1, PoolOf
  <2> QED
    BY <2>2 DEF GoodRow, CacheType, BlockType
<1>1. /\ new.ring = ring
      /\ new.pools = IF p % Kpool = Kpool - 1 THEN [blk.pools EXCEPT ![p \div Kpool] = ring] ELSE blk.pools
  <2>1. TokenAt(row, p) \in TokenType /\ TokenAt(row, p).pos # PadPos
    BY TokenAtType DEF TokenAt
  <2>2. TokenAt(row, p).block = row.block /\ TokenAt(row, p).pos = p /\ TokenAt(row, p).key = KeyAt(row, p)
    BY DEF TokenAt
  <2> QED
    BY <2>1, <2>2, StashFact
<1>2. ring[p % Kpool] = KeyAt(row, p) /\ \A o \in Ring : o # p % Kpool => ring[o] = blk.ring[o]
  BY <1>0
<1>1a. /\ RingMade(blk, row, p) /\ RingKept(old, blk, row, p)
       /\ PoolsMade(old, blk, row, p, {}) /\ PoolsKept(old, blk, row, p, {})
  BY Zenon DEF After
<1> HIDE DEF ring, new, blk, s
<1>3. ASSUME NEW q \in s..p, q + Kpool >= p + 1
      PROVE  ring[q % Kpool] = KeyAt(row, q)
  <2>1. CASE q = p
    BY <1>2, <2>1
  <2>2. CASE q # p
    <3>1. q \in Nat /\ q \in s..p - 1 /\ q < p /\ p < q + Kpool /\ q + Kpool >= p
      BY <1>0, <1>3, <2>2
    <3>2. q % Kpool # p % Kpool
      BY <1>0, <3>1, ModApart
    <3>3. q % Kpool \in Ring
      BY <3>1, PoolPlace
    <3>4. blk.ring[q % Kpool] = KeyAt(row, q)
      BY <1>1a, <3>1 DEF RingMade, s
    <3> QED
      BY <1>2, <3>2, <3>3, <3>4
  <2> QED
    BY <2>1, <2>2
<1>4. ASSUME NEW o \in Ring, \A q \in s..p : q % Kpool # o
      PROVE  ring[o] = old.ring[o]
  <2>1. p \in s..p /\ \A q \in s..p - 1 : q \in s..p
    BY <1>0
  <2>2. o # p % Kpool /\ \A q \in s..p - 1 : q % Kpool # o
    BY <1>4, <2>1
  <2>3. blk.ring[o] = old.ring[o]
    BY <1>1a, <2>2 DEF RingKept, s
  <2> QED
    BY <1>2, <2>2, <2>3
<1>5. ASSUME NEW j \in PoolId, s <= PoolEnd(j), PoolEnd(j) < p + 1, NEW o \in Ring
      PROVE  new.pools[j][o] = IF (j * Kpool) + o >= s THEN KeyAt(row, (j * Kpool) + o) ELSE old.ring[o]
  <2> DEFINE q == (j * Kpool) + o
  <2>0. j \in Nat /\ o \in Nat /\ o < Kpool /\ Kpool \in Nat
    BY DEF PoolId, Ring
  <2>1. PoolEnd(j) \in Nat /\ (PoolEnd(j) = p <=> p % Kpool = Kpool - 1 /\ p \div Kpool = j)
    BY <1>0, <2>0, LastFact
  <2>2. q \in Nat /\ q % Kpool = o /\ j * Kpool \in Nat
    BY <2>0, PlacePool
  <2>3. CASE PoolEnd(j) = p
    <3>1. new.pools[j] = ring
      BY <1>0, <1>1, <2>1, <2>3
    <3>2. q <= p /\ q + Kpool >= p + 1
      <4> DEFINE m == j * Kpool
      <4>1. m \in Nat /\ p = m + Kpool - 1 /\ q = m + o
        BY <2>2, <2>3 DEF PoolEnd
      <4> HIDE DEF m, q
      <4> QED
        BY <2>0, <4>1
    <3> HIDE DEF q
    <3>3. CASE q >= s
      <4>1. q \in s..p
        BY <1>0, <2>2, <3>2, <3>3
      <4> QED
        BY <1>3, <2>2, <3>1, <3>2, <3>3, <4>1 DEF q
    <3>4. CASE ~(q >= s)
      <4>1. ASSUME NEW i \in s..p PROVE i % Kpool # o
        <5>1. i \in Nat /\ q < i /\ i < q + Kpool
          BY <1>0, <2>2, <3>2, <3>4
        <5> QED
          BY <2>2, <5>1, ModApart
      <4>2. ring[o] = old.ring[o]
        BY <1>4, <4>1
      <4> QED
        BY <3>1, <3>4, <4>2 DEF q
    <3> QED
      BY <3>3, <3>4
  <2>4. CASE PoolEnd(j) # p
    <3>0. p \in Nat /\ PoolEnd(j) \in Nat /\ PoolEnd(j) < p + 1 /\ PoolEnd(j) # p
      BY <1>0, <1>5, <2>1, <2>4, Zenon
    <3>1. PoolEnd(j) < p
      BY <3>0
    <3>2. new.pools[j] = blk.pools[j]
      BY <1>0, <1>1, <2>1, <2>4
    <3>3. PoolMade(old, blk, row, j)
      BY <1>5, <3>1, <1>1a DEF s, EndsIn, PoolsMade
    <3> QED
      BY <3>2, <3>3 DEF PoolMade, s
  <2> QED
    BY <2>3, <2>4
<1>6. ASSUME NEW j \in PoolId, ~(s <= PoolEnd(j) /\ PoolEnd(j) < p + 1)
      PROVE  new.pools[j] = old.pools[j]
  <2>0. j \in Nat
    BY DEF PoolId
  <2>1. PoolEnd(j) \in Nat /\ (PoolEnd(j) = p <=> p % Kpool = Kpool - 1 /\ p \div Kpool = j)
    BY <1>0, <2>0, LastFact
  <2>2. PoolEnd(j) # p /\ ~(s <= PoolEnd(j) /\ PoolEnd(j) < p)
    BY <1>0, <1>6, <2>1
  <2>3. new.pools[j] = blk.pools[j]
    BY <1>0, <1>1, <2>1, <2>2
  <2>4. blk.pools[j] = old.pools[j]
    BY <1>1a, <2>2 DEF PoolsKept, EndsIn, s
  <2> QED
    BY <2>3, <2>4
<1>7. row.start..(p + 1) - 1 = s..p
  BY <1>0 DEF s
<1>8. RingMade(new, row, p + 1)
  <2>1. ASSUME NEW q \in row.start..(p + 1) - 1, q + Kpool >= p + 1
        PROVE  new.ring[q % Kpool] = KeyAt(row, q)
    <3>1. q \in s..p
      BY <1>7, <2>1, Zenon
    <3>2. ring[q % Kpool] = KeyAt(row, q)
      BY <1>3, <2>1, <3>1
    <3> QED
      BY <1>1, <3>2, Zenon
  <2> QED
    BY <2>1, Zenon DEF RingMade
<1>9. RingKept(old, new, row, p + 1)
  <2>1. ASSUME NEW o \in Ring, \A q \in row.start..(p + 1) - 1 : q % Kpool # o
        PROVE  new.ring[o] = old.ring[o]
    <3>1. \A q \in s..p : q % Kpool # o
      BY <1>7, <2>1, Zenon
    <3>2. ring[o] = old.ring[o]
      BY <1>4, <3>1
    <3> QED
      BY <1>1, <3>2, Zenon
  <2> QED
    BY <2>1, Zenon DEF RingKept
<1>10. PoolsMade(old, new, row, p + 1, {})
  BY <1>5 DEF PoolsMade, PoolMade, EndsIn, s
<1>11. PoolsKept(old, new, row, p + 1, {})
  BY <1>6 DEF PoolsKept, EndsIn, s
<1>12. After(old, new, row, p + 1, {})
  BY <1>8, <1>9, <1>10, <1>11, Zenon DEF After
<1> QED
  BY <1>12, Zenon DEF new

--------------------------------------------------------------------------------
(* Induction up to a bound, over a set of numbers.                         *)
LEMMA UpTo ==
  ASSUME NEW l \in Nat, NEW S, 0 \in S, \A k \in 0..l - 1 : k \in S => k + 1 \in S
  PROVE  \A k \in 0..l : k \in S
<1> DEFINE T == {i \in 0..l : i \notin S}
<1> SUFFICES ASSUME NEW k \in T PROVE FALSE
    OBVIOUS
<1>1. PICK m \in T : \A i \in T : m <= i
  <2>1. T \subseteq Nat /\ k \in T
    OBVIOUS
  <2> HIDE DEF T
  <2> QED
    BY <2>1, Least
<1>2. m # 0 /\ m \in 0..l /\ m \notin S
  BY <1>1
<1>3. m - 1 \in 0..l - 1 /\ m - 1 \in 0..l /\ ~(m <= m - 1) /\ (m - 1) + 1 = m
  BY <1>2
<1>4. m - 1 \in S
  BY <1>1, <1>3
<1> QED
  BY <1>2, <1>3, <1>4

(* A row as it is written: its tokens, and the padding after them.         *)
RowTokens(row, l, pad) == [t \in 1..l |-> IF t <= row.n THEN TokenOf(row, t) ELSE pad]

LEMMA RowTokensType ==
  ASSUME NEW row, GoodRow(row), NEW l \in Nat, NEW pad \in TokenType
  PROVE  RowTokens(row, l, pad) \in [1..l -> TokenType]
<1>1. ASSUME NEW t \in 1..l PROVE (IF t <= row.n THEN TokenOf(row, t) ELSE pad) \in TokenType
  <2>1. CASE t <= row.n
    <3>1. t \in 1..row.n /\ row.start + t - 1 \in row.start..row.start + row.n - 1
      BY <2>1 DEF GoodRow
    <3>2. TokenOf(row, t) = TokenAt(row, row.start + t - 1) /\ TokenAt(row, row.start + t - 1) \in TokenType
      BY <3>1, TokenFact, TokenAtType
    <3> QED
      BY <2>1, <3>2
  <2>2. CASE ~(t <= row.n)
    BY <2>2
  <2> QED
    BY <2>1, <2>2
<1> QED
  BY <1>1 DEF RowTokens

(* The decode write of one request: its block is as After says, and no     *)
(* other block changes.                                                    *)
LEMMA RowWritten ==
  ASSUME NEW c \in CacheType, NEW row, GoodRow(row), NEW l \in Nat, row.n <= l,
         NEW pad \in TokenType, pad.pos = PadPos
  PROVE  LET new == StashRow(c, RowTokens(row, l, pad))
         IN  /\ new \in CacheType
             /\ \A d \in Block : d # row.block => new[d] = c[d]
             /\ After(c[row.block], new[row.block], row, row.start + row.n, {})
<1> DEFINE seq == RowTokens(row, l, pad)
           b == row.block
           end(k) == row.start + (IF k <= row.n THEN k ELSE row.n)
<1>0. row.start \in Nat /\ row.n \in Nat /\ b \in Block
  BY DEF GoodRow
<1>1. seq \in [1..l -> TokenType]
  BY RowTokensType
<1>2. \A t \in 1..l : seq[t] = IF t <= row.n THEN TokenOf(row, t) ELSE pad
  BY DEF RowTokens
<1> HIDE DEF seq
<1>3. PICK f : /\ f[0] = c /\ f[l] = StashRow(c, seq)
               /\ \A k \in 1..l : f[k] = Stash(f[k - 1], seq[k])
               /\ \A k \in 0..l : f[k] \in CacheType
  BY <1>1, StashRowFact
<1> DEFINE P(k) == (\A d \in Block : d # b => f[k][d] = c[d]) /\ After(c[b], f[k][b], row, end(k), {})
           S == {k \in 0..l : P(k)}
<1>4. 0 \in S
  <2>1. end(0) = row.start
    BY <1>0
  <2>2. After(c[b], c[b], row, row.start, {})
    BY <1>0, AfterNothing
  <2>3. P(0)
    BY <1>3, <2>1, <2>2, Zenon
  <2> HIDE DEF P
  <2> QED
    BY <2>3
<1>5. ASSUME NEW k \in 0..l - 1, k \in S PROVE k + 1 \in S
  <2>0. k + 1 \in 1..l /\ k + 1 \in 0..l /\ k \in 0..l /\ (k + 1) - 1 = k
    OBVIOUS
  <2>1. P(k)
    BY <1>5
  <2>2. f[k + 1] = Stash(f[k], seq[k + 1]) /\ f[k] \in CacheType
    BY <1>3, <2>0
  <2>3. CASE k < row.n
    <3> DEFINE p == row.start + k
    <3>1. /\ p \in row.start..row.start + row.n - 1 /\ end(k) = p /\ end(k + 1) = p + 1
          /\ k + 1 \in 1..row.n /\ k + 1 <= row.n /\ row.start + (k + 1) - 1 = p
      BY <1>0, <2>3
    <3>2. seq[k + 1] = TokenAt(row, p)
      <4>1. seq[k + 1] = TokenOf(row, k + 1)
        BY <1>2, <2>0, <3>1
      <4>2. TokenOf(row, k + 1) = TokenAt(row, row.start + (k + 1) - 1)
        BY <3>1, TokenFact
      <4> QED
        BY <3>1, <4>1, <4>2, Zenon
    <3>3. After(c[b], f[k][b], row, p, {})
      BY <2>1, <3>1, Zenon
    <3>4. After(c[b], Stash(f[k], TokenAt(row, p))[b], row, p + 1, {})
      <4> HIDE DEF p
      <4>1. p \in row.start..row.start + row.n - 1
        BY <3>1
      <4> QED
        BY <2>2, <3>3, <4>1, StashStep
    <3>5. \A d \in Block : d # b => f[k + 1][d] = c[d]
      <4>1. TokenAt(row, p) \in TokenType /\ TokenAt(row, p).pos # PadPos /\ TokenAt(row, p).block = b
        <5>1. TokenAt(row, p) \in TokenType /\ p # PadPos
          BY <3>1, TokenAtType
        <5> QED
          BY <5>1 DEF TokenAt
      <4>2. \A d \in Block : d # b => Stash(f[k], TokenAt(row, p))[d] = f[k][d]
        BY <2>2, <4>1, StashFact
      <4> QED
        BY <2>1, <2>2, <3>2, <4>2, Zenon
    <3>6. P(k + 1)
      BY <2>2, <3>1, <3>2, <3>4, <3>5, Zenon
    <3> HIDE DEF P
    <3> QED
      BY <2>0, <3>6
  <2>4. CASE ~(k < row.n)
    <3>1. end(k) = end(k + 1) /\ ~(k + 1 <= row.n)
      BY <1>0, <2>4
    <3>2. seq[k + 1] = pad
      BY <1>2, <2>0, <3>1
    <3>3. f[k + 1] = f[k]
      BY <2>2, <3>2, Zenon DEF Stash
    <3>4. P(k + 1)
      BY <2>1, <3>1, <3>3, Zenon
    <3> HIDE DEF P
    <3> QED
      BY <2>0, <3>4
  <2> QED
    BY <2>3, <2>4
<1>6. l \in S
  <2> HIDE DEF S
  <2>1. \A k \in 0..l : k \in S
    BY <1>4, <1>5, UpTo
  <2> QED
    BY <2>1
<1>7. P(l)
  BY <1>6
<1>8. end(l) = row.start + row.n
  BY <1>0
<1>9. f[l] \in CacheType
  BY <1>3
<1> QED
  BY <1>3, <1>7, <1>8, <1>9, Zenon DEF seq

--------------------------------------------------------------------------------
(* A batch: every row is good and no two share a block.                    *)
GoodRows(rows) ==
    /\ rows \in Seq(ToSet(rows))
    /\ \A i \in 1..Len(rows) : GoodRow(rows[i])
    /\ \A i, k \in 1..Len(rows) : rows[i].block = rows[k].block => i = k

EndOf(row) == row.start + row.n

(* Blocks without a row stay as they are.                                  *)
OthersKept(old, new, rows, n) ==
    \A d \in Block : (\A i \in 1..n : rows[i].block # d) => new[d] = old[d]
LEMMA GoodRowsFact ==
  ASSUME NEW rows, GoodRows(rows)
  PROVE  /\ Len(rows) \in Nat /\ DOMAIN rows = 1..Len(rows)
         /\ \A row \in ToSet(rows) : GoodRow(row) /\ row.n \in 0..MaxLen /\ row.n \in Nat
         /\ \A i \in 1..Len(rows) : rows[i] \in ToSet(rows)
<1>1. Len(rows) \in Nat /\ DOMAIN rows = 1..Len(rows)
  BY DEF GoodRows
<1>2. ToSet(rows) = {rows[i] : i \in 1..Len(rows)}
  BY <1>1 DEF ToSet
<1>3. \A row \in ToSet(rows) : GoodRow(row)
  BY <1>2 DEF GoodRows
<1>4. \A row \in ToSet(rows) : row.n \in 0..MaxLen /\ row.n \in Nat
  BY <1>3 DEF GoodRow
<1> QED
  BY <1>1, <1>2, <1>3, <1>4

(* What the decode kernel gets, request by request.                        *)
LEMMA GroupedIs ==
  ASSUME NEW rows, GoodRows(rows), rows # << >>
  PROVE  LET l   == Longest(Lens(rows))
             pad == PadToken(rows)
             g   == Grouped(Tokens(rows), pad, Lens(rows))
         IN  /\ l \in Nat /\ pad \in TokenType /\ pad.pos = PadPos
             /\ g \in [1..Len(rows) -> [1..l -> TokenType]]
             /\ \A i \in 1..Len(rows) : rows[i].n <= l /\ g[i] = RowTokens(rows[i], l, pad)
<1> DEFINE R == ToSet(rows)
           l == Longest(Lens(rows))
           pad == PadToken(rows)
           g == Grouped(Tokens(rows), pad, Lens(rows))
           n == Len(rows)
<1>1. /\ n \in Nat /\ \A row \in R : GoodRow(row) /\ row.n \in 0..MaxLen /\ row.n \in Nat
      /\ \A i \in 1..n : rows[i] \in R
  BY GoodRowsFact
<1>2. rows \in Seq(R)
  BY DEF GoodRows
<1>3. /\ l \in Nat /\ DOMAIN g = 1..n
      /\ \A r \in 1..n :
            /\ rows[r].n \in 0..l
            /\ g[r] = [t \in 1..l |-> IF t <= rows[r].n THEN TokenOf(rows[r], t) ELSE pad]
  <2> HIDE DEF R, pad
  <2>1. \A row \in R : row.n \in 0..MaxLen
    BY <1>1
  <2> QED
    BY <1>2, <2>1, GroupedFact
<1>4. pad \in TokenType /\ pad.pos = PadPos
  <2>1. GoodRow(rows[1])
    BY <1>1, <1>2
  <2>2. Key(rows[1].req, 0, FALSE) \in KeyType
    BY <2>1 DEF Key, KeyType, GoodRow
  <2> QED
    BY <2>1, <2>2 DEF PadToken, TokenType, GoodRow
<1>5. DOMAIN Lens(rows) = 1..n
  BY <1>1, <1>2, LensFact
<1>6. g = [r \in 1..n |-> g[r]]
  <2>1. CASE Uniform(Lens(rows)) /\ Len(Tokens(rows)) = Len(Lens(rows)) * l
    <3> DEFINE G(r) == [t \in 1..l |-> Tokens(rows)[((r - 1) * l) + t]]
    <3>1. g = [r \in DOMAIN Lens(rows) |-> G(r)]
      BY <2>1, Zenon DEF Grouped
    <3> HIDE DEF G, g
    <3> QED
      BY <1>5, <3>1
  <2>2. CASE ~(Uniform(Lens(rows)) /\ Len(Tokens(rows)) = Len(Lens(rows)) * l)
    <3> DEFINE idx == ScatterIndices(Lens(rows))
               G(r) == [t \in 1..l |->
                          IF \E i \in DOMAIN idx : idx[i] = <<r, t>>
                          THEN Tokens(rows)[CHOOSE i \in DOMAIN idx : idx[i] = <<r, t>>]
                          ELSE pad]
    <3>1. g = [r \in DOMAIN Lens(rows) |-> G(r)]
      BY <2>2, Zenon DEF Grouped, Scatter
    <3> HIDE DEF G, g
    <3> QED
      BY <1>5, <3>1
  <2> HIDE DEF g, l
  <2> QED
    BY <2>1, <2>2
<1> HIDE DEF g, l, pad, n
<1>7. ASSUME NEW i \in 1..n
      PROVE  rows[i].n <= l /\ g[i] = RowTokens(rows[i], l, pad) /\ g[i] \in [1..l -> TokenType]
  <2>1. g[i] = RowTokens(rows[i], l, pad)
    BY <1>3 DEF RowTokens
  <2>2. GoodRow(rows[i])
    BY <1>1
  <2>3. RowTokens(rows[i], l, pad) \in [1..l -> TokenType]
    BY <1>3, <1>4, <2>2, RowTokensType
  <2>4. rows[i].n <= l
    BY <1>3
  <2> QED
    BY <2>1, <2>3, <2>4
<1>8. g \in [1..n -> [1..l -> TokenType]]
  BY <1>6, <1>7
<1> QED
  BY <1>3, <1>4, <1>7, <1>8 DEF g, l, pad, n

(* The decode write of a batch.                                            *)
LEMMA DecodeWritten ==
  ASSUME NEW c \in CacheType, NEW rows, GoodRows(rows)
  PROVE  LET new == DecodeWrite(c, rows)
         IN  /\ new \in CacheType /\ OthersKept(c, new, rows, Len(rows))
             /\ \A i \in 1..Len(rows) :
                   After(c[rows[i].block], new[rows[i].block], rows[i], EndOf(rows[i]), {})
<1> DEFINE n == Len(rows)
           new == DecodeWrite(c, rows)
           Written(k, d) == \A i \in 1..k :
                   After(c[rows[i].block], d[rows[i].block], rows[i], EndOf(rows[i]), {})
<1>1. n \in Nat /\ \A i \in 1..n : GoodRow(rows[i]) /\ rows[i].block \in Block
  BY GoodRowsFact DEF GoodRows, GoodRow
<1>2. CASE rows = << >>
  <2>1. new = c /\ 1..n = {}
    BY <1>2 DEF DecodeWrite
  <2> HIDE DEF new, n
  <2>2. OthersKept(c, new, rows, n) /\ Written(n, new)
    BY <2>1 DEF OthersKept
  <2> QED
    BY <2>1, <2>2 DEF new, n
<1>3. CASE rows # << >>
  <2> DEFINE l == Longest(Lens(rows))
             pad == PadToken(rows)
             seq == Grouped(Tokens(rows), pad, Lens(rows))
  <2>1. /\ l \in Nat /\ pad \in TokenType /\ pad.pos = PadPos
        /\ seq \in [1..n -> [1..l -> TokenType]]
        /\ \A i \in 1..n : rows[i].n <= l /\ seq[i] = RowTokens(rows[i], l, pad)
    BY <1>3, GroupedIs
  <2>2. new = StashRows(c, seq)
    BY <1>3, Zenon DEF DecodeWrite, StashRows
  <2> HIDE DEF l, pad, seq, new, n
  <2>3. PICK f : /\ f[0] = c /\ f[n] = StashRows(c, seq)
                 /\ RowByRow(f, n, seq)
                 /\ \A k \in 0..n : f[k] \in CacheType
    <3>1. n \in Nat /\ l \in Nat /\ seq \in [1..n -> [1..l -> TokenType]]
      BY <1>1, <2>1
    <3>2. \E f : /\ f[0] = c /\ f[n] = StashRows(c, seq)
                 /\ RowByRow(f, n, seq)
                 /\ \A k \in 0..n : f[k] \in CacheType
      BY <3>1, StashRowsFact
    <3> QED
      BY <3>2, Zenon
  <2> DEFINE P(k) == OthersKept(c, f[k], rows, k) /\ Written(k, f[k])
             S == {k \in 0..n : P(k)}
  <2>4. 0 \in S
    <3>1. 1..0 = {}
      OBVIOUS
    <3>2. P(0)
      BY <2>3, <3>1 DEF OthersKept
    <3> HIDE DEF P
    <3> QED
      BY <1>1, <3>2
  <2>5. ASSUME NEW k \in 0..n - 1, k \in S PROVE k + 1 \in S
    <3> DEFINE row == rows[k + 1]
               b == row.block
    <3>0. k + 1 \in 1..n /\ k + 1 \in 0..n /\ k \in 0..n /\ (k + 1) - 1 = k /\ \A i \in 1..k : i \in 1..n /\ i \in 1..k + 1 /\ i # k + 1
      BY <1>1
    <3>0a. \A i \in 1..k + 1 : i \in 1..k \/ i = k + 1
      BY <1>1
    <3>1. P(k)
      BY <2>5
    <3>2. /\ GoodRow(row) /\ b \in Block /\ row.n <= l /\ f[k] \in CacheType
          /\ f[k + 1] = StashRow(f[k], RowTokens(row, l, pad))
      <4>1. /\ row.n <= l /\ seq[k + 1] = RowTokens(row, l, pad) /\ f[k] \in CacheType
            /\ GoodRow(row) /\ b \in Block
        BY <1>1, <2>1, <2>3, <3>0
      <4>2. f[k + 1] = StashRow(f[k], seq[k + 1])
        BY <2>3, <3>0 DEF RowByRow
      <4> QED
        BY <4>1, <4>2, Zenon
    <3>3. /\ \A d \in Block : d # b => f[k + 1][d] = f[k][d]
          /\ After(f[k][b], f[k + 1][b], row, row.start + row.n, {})
      <4> HIDE DEF b, row, P
      <4>1. LET x == StashRow(f[k], RowTokens(row, l, pad))
            IN  /\ x \in CacheType
                /\ \A d \in Block : d # row.block => x[d] = f[k][d]
                /\ After(f[k][row.block], x[row.block], row, row.start + row.n, {})
        BY <2>1, <3>2, RowWritten
      <4> QED
        BY <3>2, <4>1, Zenon DEF b
    <3>4. \A i \in 1..k : rows[i].block # b
      BY <3>0 DEF GoodRows, n
    <3>5. f[k][b] = c[b]
      BY <3>1, <3>2, <3>4 DEF OthersKept
    <3>6. OthersKept(c, f[k + 1], rows, k + 1)
      <4>1. ASSUME NEW d \in Block, \A i \in 1..k + 1 : rows[i].block # d
            PROVE  f[k + 1][d] = c[d]
        <5>1. d # b /\ \A i \in 1..k : rows[i].block # d
          BY <3>0, <4>1
        <5>2. f[k + 1][d] = f[k][d]
          BY <3>3, <5>1
        <5>3. f[k][d] = c[d]
          BY <3>1, <5>1 DEF OthersKept
        <5> QED
          BY <5>2, <5>3
      <4> QED
        BY <4>1, Zenon DEF OthersKept
    <3>7. Written(k + 1, f[k + 1])
      <4>1. ASSUME NEW i \in 1..k + 1
            PROVE  After(c[rows[i].block], f[k + 1][rows[i].block], rows[i], EndOf(rows[i]), {})
        <5>1. CASE i = k + 1
          BY <3>3, <3>5, <5>1, Zenon DEF EndOf
        <5>2. CASE i \in 1..k
          <6>1. rows[i].block \in Block /\ rows[i].block # b
            BY <1>1, <3>0, <3>4, <5>2
          <6>2. f[k + 1][rows[i].block] = f[k][rows[i].block]
            BY <3>3, <6>1
          <6>3. After(c[rows[i].block], f[k][rows[i].block], rows[i], EndOf(rows[i]), {})
            BY <3>1, <5>2, Zenon
          <6> QED
            BY <6>2, <6>3, Zenon
        <5> QED
          BY <3>0a, <5>1, <5>2
      <4> QED
        BY <4>1, Zenon
    <3>8. P(k + 1)
      BY <3>6, <3>7, Zenon
    <3> HIDE DEF P
    <3> QED
      BY <3>0, <3>8
  <2>6. n \in S
    <3> HIDE DEF S
    <3>1. \A k \in 0..n : k \in S
      BY <1>1, <2>4, <2>5, UpTo
    <3> QED
      BY <1>1, <3>1
  <2>7. P(n)
    BY <2>6
  <2>8. f[n] = new /\ f[n] \in CacheType
    BY <1>1, <2>2, <2>3
  <2>9. new \in CacheType /\ OthersKept(c, new, rows, n) /\ Written(n, new)
    BY <2>7, <2>8, Zenon
  <2> QED
    BY <2>9, Zenon DEF n, new
<1> QED
  BY <1>2, <1>3

--------------------------------------------------------------------------------
(* The tokens of a row stand together in the batch, after `base` others.   *)
InBatch(T, row, base) ==
    /\ Len(T) \in Nat /\ DOMAIN T = 1..Len(T) /\ base \in Nat /\ base + row.n <= Len(T)
    /\ \A i \in base + 1..base + row.n : T[i] = TokenAt(row, row.start + ((i - base) - 1))
    /\ \A i \in 1..Len(T) : T[i].block = row.block <=> i \in base + 1..base + row.n

LEMMA TokensLen ==
  ASSUME NEW rows, GoodRows(rows)
  PROVE  /\ Len(Tokens(rows)) \in Nat /\ DOMAIN Tokens(rows) = 1..Len(Tokens(rows))
         /\ Len(Tokens(rows)) = Before(Lens(rows))[Len(rows)]
<1> DEFINE T == Tokens(rows)
           N == Before(Lens(rows))[Len(rows)]
<1>1. N \in Nat /\ DOMAIN T = 1..N
  <2> DEFINE R == ToSet(rows)
  <2>1. rows \in Seq(R) /\ \A row \in R : row.n \in Nat
    BY GoodRowsFact DEF GoodRows
  <2> HIDE DEF R
  <2> QED
    BY <2>1, TokensFact
<1>2. \E G : T = [i \in DOMAIN T |-> G[i]]
  <2> DEFINE idx == ScatterIndices(Lens(rows))
             G == [i \in DOMAIN idx |->
                     LET x   == idx[i]
                         row == rows[x[1]]
                         p   == row.start + x[2] - 1
                     IN  [block |-> row.block, pos |-> p,
                          key |-> Key(row.req, p, x[2] <= row.n - row.drafts + row.right)]]
  <2>1. T = G
    BY Zenon DEF Tokens
  <2>2. G = [i \in DOMAIN G |-> G[i]]
    OBVIOUS
  <2> HIDE DEF G, T
  <2> QED
    BY <2>1, <2>2
<1> HIDE DEF T, N
<1>3. PICK G : T = [i \in 1..N |-> G[i]]
  BY <1>1, <1>2
<1>4. Len(T) = N
  BY <1>1, <1>3
<1> QED
  BY <1>1, <1>4 DEF T, N

LEMMA RowPlaces ==
  ASSUME NEW rows, GoodRows(rows), NEW r \in 1..Len(rows)
  PROVE  \E base \in Nat : InBatch(Tokens(rows), rows[r], base)
<1> DEFINE T == Tokens(rows)
           R == ToSet(rows)
           n == Len(rows)
           f == Before(Lens(rows))
           base == f[r - 1]
           row == rows[r]
<1>1. /\ n \in Nat /\ \A i \in 1..n : GoodRow(rows[i]) /\ rows[i].n \in Nat /\ rows[i] \in R
      /\ rows \in Seq(R) /\ \A x \in R : x.n \in Nat
  BY GoodRowsFact DEF GoodRows
<1>2. /\ Len(T) \in Nat /\ DOMAIN T = 1..Len(T) /\ Len(T) = f[n]
  BY TokensLen
<1>3. /\ \A q \in 1..n : \A t \in 1..rows[q].n : T[Place(rows, q, t)] = TokenOf(rows[q], t) /\ Place(rows, q, t) \in DOMAIN T
      /\ \A i \in DOMAIN T : \E q \in 1..n : \E t \in 1..rows[q].n : i = Place(rows, q, t)
  <2> HIDE DEF R
  <2> QED
    BY <1>1, TokensFact
<1>4. /\ Lens(rows) \in Seq(Nat) /\ Len(Lens(rows)) = n /\ \A q \in 1..n : Lens(rows)[q] = rows[q].n
  <2> HIDE DEF R
  <2> QED
    BY <1>1, LensFact
<1>5. Sums(n, Lens(rows), f)
  BY <1>4, BeforeFact
<1> DEFINE lens == Lens(rows)
<1> HIDE DEF f, lens, T, n
<1>6. base \in Nat /\ f[r] = base + row.n /\ f[r] <= f[n] /\ \A q \in 1..n : f[q - 1] \in Nat /\ f[q] = f[q - 1] + lens[q]
  <2>1. \A q \in 0..n : f[q] \in Nat
    <3>1. \A q \in 1..n : lens[q] \in Nat
      BY <1>1, <1>4 DEF lens
    <3>2. \A q \in 0..n : f[0] <= f[q] /\ f[q] \in Int
      BY <1>1, <1>5, <3>1, SumsGrow DEF Sums, lens
    <3> QED
      BY <3>2, <1>5, <1>1 DEF Sums
  <2>2. r \in 1..n /\ r \in 0..n /\ n \in 0..n /\ r - 1 \in 0..n
    BY <1>1 DEF n
  <2>3. \A q \in 1..n : f[q] = f[q - 1] + lens[q] /\ q - 1 \in 0..n
    BY <1>1, <1>5 DEF Sums, lens
  <2>4. f[r] <= f[n]
    <3>1. \A q \in 1..n : lens[q] \in Nat
      BY <1>1, <1>4 DEF lens
    <3>2. Sums(n, lens, f) /\ n \in Nat /\ r <= n
      BY <1>1, <1>5, <2>2 DEF lens
    <3> QED
      BY <2>2, <3>1, <3>2, SumsGrow
  <2> QED
    BY <1>4, <2>1, <2>2, <2>3, <2>4 DEF lens
<1>7. \A q \in 1..n : \A t \in 1..rows[q].n : Place(rows, q, t) = f[q - 1] + t
  BY DEF Place, Flat, f
<1>8. ASSUME NEW i \in base + 1..base + row.n
      PROVE  T[i] = TokenAt(row, row.start + ((i - base) - 1))
  <2> DEFINE t == i - base
  <2>1. t \in 1..row.n /\ base + t = i /\ r \in 1..n
    BY <1>1, <1>6 DEF n
  <2> HIDE DEF t
  <2>2. Place(rows, r, t) = i
    BY <1>7, <2>1
  <2>3. T[i] = TokenOf(row, t)
    BY <1>3, <2>1, <2>2
  <2>4. GoodRow(row)
    BY <1>1, <2>1
  <2>5. TokenOf(row, t) = TokenAt(row, row.start + t - 1)
    BY <2>1, <2>4, TokenFact
  <2> QED
    BY <2>3, <2>5 DEF t
<1>9. ASSUME NEW i \in 1..Len(T)
      PROVE  T[i].block = row.block <=> i \in base + 1..base + row.n
  <2>1. PICK q \in 1..n : \E t \in 1..rows[q].n : i = Place(rows, q, t)
    BY <1>2, <1>3
  <2>2. PICK t \in 1..rows[q].n : i = Place(rows, q, t)
    BY <2>1
  <2>3. T[i].block = rows[q].block /\ i = f[q - 1] + t
    <3>1. T[i] = TokenOf(rows[q], t) /\ Place(rows, q, t) = f[q - 1] + t
      BY <1>3, <1>7, <2>2
    <3> QED
      BY <2>2, <3>1 DEF TokenOf
  <2>4. r \in 1..n
    BY DEF n
  <2>5. T[i].block = row.block <=> q = r
    BY <2>3, <2>4 DEF GoodRows, n
  <2>6. CASE q = r
    BY <1>1, <1>6, <2>2, <2>3, <2>5, <2>6
  <2>7. CASE q # r
    <3>1. ASSUME i \in base + 1..base + row.n PROVE FALSE
      <4>1. /\ f[q - 1] < i /\ i <= f[q] /\ f[r - 1] < i /\ i <= f[r] /\ i \in Nat
        <5>1. f[q - 1] \in Nat /\ f[q] = f[q - 1] + lens[q] /\ lens[q] = rows[q].n /\ rows[q].n \in Nat
          BY <1>1, <1>4, <1>6, <2>1 DEF lens
        <5>2. i = f[q - 1] + t /\ 1 <= t /\ t <= rows[q].n /\ t \in Nat
          BY <2>2, <2>3, <5>1
        <5>3. f[r - 1] \in Nat /\ f[r] = f[r - 1] + row.n /\ row.n \in Nat
          BY <1>1, <1>6, <2>4
        <5>4. f[q - 1] < i /\ i <= f[q] /\ i \in Nat
          BY <5>1, <5>2
        <5>5. f[r - 1] < i /\ i <= f[r]
          BY <3>1, <5>3, <5>4
        <5> QED
          BY <5>4, <5>5
      <4>2. Sums(n, lens, f) /\ n \in Nat /\ \A x \in 1..n : lens[x] \in Nat
        BY <1>1, <1>4, <1>5 DEF lens
      <4>3. q = r
        BY <2>4, <4>1, <4>2, PlacesApart
      <4> QED
        BY <2>7, <4>3
    <3> QED
      BY <2>5, <2>7, <3>1
  <2> QED
    BY <2>6, <2>7
<1> QED
  BY <1>2, <1>6, <1>8, <1>9 DEF InBatch, T

--------------------------------------------------------------------------------
(* The prefill write, block by block.                                      *)
Ends(tokens, i, b, j) == tokens[i].block = b /\ tokens[i].pos = PoolEnd(j) /\ i >= Kpool
Seeds(tokens, i, b, o) == tokens[i].block = b /\ tokens[i].pos % Kpool = o /\ InTail(tokens, i)
Seeded(tokens, b, o, old) ==
    IF \E i \in DOMAIN tokens : Seeds(tokens, i, b, o)
    THEN tokens[CHOOSE i \in DOMAIN tokens : Seeds(tokens, i, b, o)].key ELSE old
Pooled(tokens, b, j, old) ==
    IF \E i \in DOMAIN tokens : Ends(tokens, i, b, j)
    THEN [o \in 0..Kpool - 1 |->
             tokens[(CHOOSE i \in DOMAIN tokens : Ends(tokens, i, b, j)) - Kpool + 1 + o].key]
    ELSE old

LEMMA PrefillIs ==
  ASSUME NEW c, NEW rows
  PROVE  PrefillWrite(c, rows) =
            [b \in DOMAIN c |->
               [ring |-> [o \in 0..Kpool - 1 |-> Seeded(Tokens(rows), b, o, c[b].ring[o])],
                pools |-> [j \in DOMAIN c[b].pools |-> Pooled(Tokens(rows), b, j, c[b].pools[j])]]]
  BY Zenon DEF PrefillWrite, Seeded, Pooled, Seeds, Ends, PoolEnd
(* The position of token i of a batch that has the row after `base` tokens. *)
PosOf(row, base, i) == row.start + ((i - base) - 1)

(* Which tokens of a batch a place of the ring of a block gets.            *)
LEMMA SeedsFact ==
  ASSUME NEW row, GoodRow(row), NEW T, NEW base, InBatch(T, row, base), NEW i \in DOMAIN T, NEW o
  PROVE  LET p == PosOf(row, base, i)
         IN  /\ i \in Nat /\ base \in Nat
             /\ Seeds(T, i, row.block, o) <=>
                   i \in base + 1..base + row.n /\ p % Kpool = o /\ p + Kpool >= EndOf(row)
             /\ Ends(T, i, row.block, o) <=>
                   i \in base + 1..base + row.n /\ p = PoolEnd(o) /\ i >= Kpool
             /\ i \in base + 1..base + row.n => T[i].key = KeyAt(row, p) /\ p \in row.start..EndOf(row) - 1
<1> DEFINE p == PosOf(row, base, i)
           N == Len(T)
           e == EndOf(row)
<1>1. /\ N \in Nat /\ DOMAIN T = 1..N /\ base \in Nat /\ base + row.n <= N /\ i \in Nat
      /\ row.start \in Nat /\ row.n \in Nat /\ i \in 1..N
  BY DEF InBatch, GoodRow
<1>2. \A k \in base + 1..base + row.n : T[k] = TokenAt(row, PosOf(row, base, k))
  BY Zenon DEF InBatch, PosOf
<1>3. \A k \in 1..N : T[k].block = row.block <=> k \in base + 1..base + row.n
  BY DEF InBatch
<1>4. i \in base + 1..base + row.n => T[i].pos = p /\ T[i].key = KeyAt(row, p)
  <2> HIDE DEF p
  <2>1. SUFFICES ASSUME i \in base + 1..base + row.n PROVE T[i].pos = p /\ T[i].key = KeyAt(row, p)
    OBVIOUS
  <2>2. T[i] = TokenAt(row, p)
    BY <1>2, <2>1, Zenon DEF p
  <2> QED
    BY <2>2 DEF TokenAt
<1>5. p = row.start + ((i - base) - 1) /\ e = row.start + row.n
  BY DEF PosOf, EndOf
<1>6. i \in base + 1..base + row.n => p \in row.start..e - 1
  BY <1>1, <1>5
<1> HIDE DEF p, N, e
<1>7. ASSUME i \in base + 1..base + row.n
      PROVE  InTail(T, i) <=> p + Kpool >= e
  <2>1. p + Kpool >= e <=> i + Kpool > base + row.n
    BY <1>1, <1>5
  <2>2. CASE i + Kpool > N
    BY <1>1, <2>1, <2>2 DEF InTail, N
  <2>3. CASE ~(i + Kpool > N)
    <3>1. i + Kpool \in 1..N
      BY <1>1, <2>3
    <3>2. T[i].block = row.block
      BY <1>1, <1>3, <1>7
    <3>3. T[i + Kpool].block = row.block <=> i + Kpool \in base + 1..base + row.n
      BY <1>3, <3>1
    <3>4. i + Kpool \in base + 1..base + row.n <=> ~(i + Kpool > base + row.n)
      BY <1>1, <1>7
    <3>5. InTail(T, i) <=> T[i + Kpool].block # T[i].block
      BY <2>3 DEF InTail, N
    <3> QED
      BY <2>1, <3>2, <3>3, <3>4, <3>5
  <2> QED
    BY <2>2, <2>3
<1>8. T[i].block = row.block <=> i \in base + 1..base + row.n
  BY <1>1, <1>3
<1>9. Seeds(T, i, row.block, o) <=> i \in base + 1..base + row.n /\ p % Kpool = o /\ p + Kpool >= e
  BY <1>4, <1>7, <1>8, Zenon DEF Seeds
<1>10. Ends(T, i, row.block, o) <=> i \in base + 1..base + row.n /\ p = PoolEnd(o) /\ i >= Kpool
  BY <1>4, <1>8, Zenon DEF Ends
<1> QED
  BY <1>1, <1>4, <1>6, <1>9, <1>10, Zenon DEF p, e

LEMMA SeededFact ==
  ASSUME NEW row, GoodRow(row), NEW T, NEW base, InBatch(T, row, base), NEW old, NEW o \in Ring
  PROVE  /\ \A p \in row.start..EndOf(row) - 1 : p % Kpool = o /\ p + Kpool >= EndOf(row) =>
               Seeded(T, row.block, o, old) = KeyAt(row, p)
         /\ (\A p \in row.start..EndOf(row) - 1 : p % Kpool # o) => Seeded(T, row.block, o, old) = old
<1> DEFINE b == row.block
           e == EndOf(row)
<1>1. /\ Len(T) \in Nat /\ DOMAIN T = 1..Len(T) /\ base \in Nat /\ base + row.n <= Len(T)
      /\ row.start \in Nat /\ row.n \in Nat /\ e \in Nat /\ e = row.start + row.n
  BY DEF InBatch, GoodRow, EndOf
<1> HIDE DEF e, b
<1>2. \A i \in DOMAIN T : Seeds(T, i, b, o) <=>
         /\ i \in base + 1..base + row.n /\ PosOf(row, base, i) % Kpool = o
         /\ PosOf(row, base, i) + Kpool >= e
  BY SeedsFact DEF e, b
<1>3. \A i \in base + 1..base + row.n :
         T[i].key = KeyAt(row, PosOf(row, base, i)) /\ PosOf(row, base, i) \in row.start..e - 1 /\ i \in DOMAIN T
  <2>1. ASSUME NEW i \in base + 1..base + row.n PROVE i \in DOMAIN T
    BY <1>1
  <2> QED
    BY <2>1, SeedsFact DEF e, b
<1>4. ASSUME NEW p \in row.start..e - 1, p % Kpool = o, p + Kpool >= e
      PROVE  Seeded(T, b, o, old) = KeyAt(row, p)
  <2> DEFINE i == (p - row.start) + (base + 1)
             k == CHOOSE x \in DOMAIN T : Seeds(T, x, b, o)
  <2>1. i \in base + 1..base + row.n /\ PosOf(row, base, i) = p
    <3> DEFINE s == row.start
    <3>1. s \in Nat /\ p \in Nat /\ s <= p /\ p < s + row.n /\ i = (p - s) + (base + 1)
      BY <1>1
    <3>2. PosOf(row, base, i) = s + ((i - base) - 1)
      BY Zenon DEF PosOf
    <3> HIDE DEF i, s
    <3>3. i >= base + 1 /\ i <= base + row.n /\ i \in Int /\ s + ((i - base) - 1) = p
      BY <1>1, <3>1
    <3> QED
      BY <1>1, <3>2, <3>3
  <2> HIDE DEF i
  <2>2. i \in DOMAIN T /\ Seeds(T, i, b, o)
    BY <1>2, <1>3, <1>4, <2>1
  <2>3. k \in DOMAIN T /\ Seeds(T, k, b, o)
    BY <2>2
  <2> HIDE DEF k
  <2>4. /\ k \in base + 1..base + row.n /\ PosOf(row, base, k) % Kpool = o
        /\ PosOf(row, base, k) + Kpool >= e
    BY <1>2, <2>3
  <2>5. T[k].key = KeyAt(row, PosOf(row, base, k)) /\ PosOf(row, base, k) \in row.start..e - 1
    BY <1>3, <2>4
  <2>6. PosOf(row, base, k) = p
    <3> DEFINE q == PosOf(row, base, k)
    <3>1. q \in row.start..e - 1 /\ q % Kpool = p % Kpool /\ q + Kpool >= e
      BY <1>4, <2>4, <2>5
    <3> HIDE DEF q
    <3>2. q \in Nat /\ p \in Nat /\ q < p + Kpool /\ p < q + Kpool
      BY <1>1, <1>4, <3>1
    <3>3. ~(q < p) /\ ~(p < q)
      BY <3>1, <3>2, ModApart
    <3>4. q = p
      BY <3>2, <3>3
    <3> QED
      BY <3>4 DEF q
  <2>7. Seeded(T, b, o, old) = T[k].key
    BY <2>2, Zenon DEF Seeded, k
  <2> QED
    BY <2>5, <2>6, <2>7, Zenon
<1>5. ASSUME \A p \in row.start..e - 1 : p % Kpool # o
      PROVE  Seeded(T, b, o, old) = old
  <2>1. \A i \in DOMAIN T : ~Seeds(T, i, b, o)
    BY <1>2, <1>3, <1>5
  <2> QED
    BY <2>1, Zenon DEF Seeded
<1> QED
  BY <1>4, <1>5, Zenon DEF e, b

(* Which tokens of a batch a pool of a block is made of.                   *)
LEMMA PooledFact ==
  ASSUME NEW row, GoodRow(row), NEW T, NEW base, InBatch(T, row, base), NEW old, NEW j \in PoolId
  PROVE  /\ EndsIn(j, row, EndOf(row)) /\ j \notin Splits(row) =>
               /\ \A o \in Ring : (j * Kpool) + o >= row.start
               /\ \A o \in Ring : Pooled(T, row.block, j, old)[o] = KeyAt(row, (j * Kpool) + o)
         /\ ~EndsIn(j, row, EndOf(row)) => Pooled(T, row.block, j, old) = old
<1> DEFINE b == row.block
           e == EndOf(row)
           m == j * Kpool
<1>1. /\ Len(T) \in Nat /\ DOMAIN T = 1..Len(T) /\ base \in Nat /\ base + row.n <= Len(T)
      /\ row.start \in Nat /\ row.n \in Nat /\ e \in Nat /\ e = row.start + row.n
  BY DEF InBatch, GoodRow, EndOf
<1>1a. m \in Nat /\ j \in Nat /\ PoolEnd(j) = m + (Kpool - 1) /\ PoolEnd(j) \in Nat
  <2>1. j \in Nat
    BY DEF PoolId
  <2>2. m \in Nat
    BY <2>1
  <2>3. PoolEnd(j) = m + (Kpool - 1)
    BY DEF PoolEnd
  <2> HIDE DEF m
  <2> QED
    BY <2>1, <2>2, <2>3
<1> HIDE DEF e, b
<1>2. \A i \in DOMAIN T : Ends(T, i, b, j) <=>
         /\ i \in base + 1..base + row.n /\ PosOf(row, base, i) = PoolEnd(j) /\ i >= Kpool
  BY SeedsFact DEF e, b
<1>3. \A i \in base + 1..base + row.n :
         T[i].key = KeyAt(row, PosOf(row, base, i)) /\ PosOf(row, base, i) \in row.start..e - 1 /\ i \in DOMAIN T
  <2>1. ASSUME NEW i \in base + 1..base + row.n PROVE i \in DOMAIN T
    BY <1>1
  <2> QED
    BY <2>1, SeedsFact DEF e, b
<1>4. ASSUME EndsIn(j, row, e), j \notin Splits(row)
      PROVE  /\ \A o \in Ring : m + o >= row.start
             /\ \A o \in Ring : Pooled(T, b, j, old)[o] = KeyAt(row, m + o)
  <2>1. row.start <= PoolEnd(j) /\ PoolEnd(j) < e
    BY <1>4, Zenon DEF EndsIn
  <2>2. row.start <= m
    <3>1. SUFFICES ASSUME m < row.start PROVE FALSE
      BY <1>1, <1>1a
    <3> DEFINE o == row.start - m
    <3>2. o \in Ring /\ o # 0 /\ row.start = m + o
      BY <1>1, <1>1a, <2>1, <3>1 DEF Ring
    <3> HIDE DEF o
    <3>3. row.start \div Kpool = j /\ row.start % Kpool = o
      BY <1>1a, <3>2, PlacePool DEF m
    <3>4. (j + 1) * Kpool = m + Kpool
      BY <1>1a DEF m
    <3>5. (j + 1) * Kpool <= row.start + row.n
      <4> HIDE DEF m
      <4> QED
        BY <1>1, <1>1a, <2>1, <3>4
    <3>6. j \in Splits(row)
      BY <3>2, <3>3, <3>5, Zenon DEF Splits
    <3> QED
      BY <1>4, <3>6
  <2> HIDE DEF m
  <2> DEFINE i == (PoolEnd(j) - row.start) + (base + 1)
             k == CHOOSE x \in DOMAIN T : Ends(T, x, b, j)
  <2>3. i \in base + 1..base + row.n /\ PosOf(row, base, i) = PoolEnd(j) /\ i >= Kpool
    <3> DEFINE s == row.start
               p == PoolEnd(j)
    <3>1. /\ s \in Nat /\ p \in Nat /\ s <= m /\ p = m + (Kpool - 1) /\ p < s + row.n
          /\ i = (p - s) + (base + 1) /\ s <= p
      BY <1>1, <1>1a, <2>1, <2>2
    <3>2. PosOf(row, base, i) = s + ((i - base) - 1)
      BY Zenon DEF PosOf
    <3> HIDE DEF i, s, p
    <3>3. i >= base + 1 /\ i <= base + row.n /\ i \in Int /\ s + ((i - base) - 1) = p /\ i >= Kpool
      BY <1>1, <1>1a, <3>1
    <3> QED
      BY <1>1, <3>2, <3>3 DEF p
  <2>4. i \in DOMAIN T /\ Ends(T, i, b, j)
    <3> HIDE DEF i
    <3> QED
      BY <1>2, <1>3, <2>3
  <2>5. k \in DOMAIN T /\ Ends(T, k, b, j)
    <3> HIDE DEF i
    <3> QED
      BY <2>4
  <2>6. k = i
    <3> HIDE DEF k
    <3>1. k \in base + 1..base + row.n /\ PosOf(row, base, k) = PoolEnd(j)
      BY <1>2, <2>5
    <3> QED
      BY <1>1, <1>1a, <3>1 DEF PosOf
  <2>7. Pooled(T, b, j, old) = [o \in 0..Kpool - 1 |-> T[k - Kpool + 1 + o].key]
    <3> HIDE DEF i
    <3> QED
      BY <2>4, Zenon DEF Pooled
  <2> HIDE DEF k
  <2>8. ASSUME NEW o \in Ring
        PROVE  m + o >= row.start /\ Pooled(T, b, j, old)[o] = KeyAt(row, m + o)
    <3>1. o \in 0..Kpool - 1 /\ o \in Nat /\ o < Kpool
      BY DEF Ring
    <3>2. Pooled(T, b, j, old)[o] = T[k - Kpool + 1 + o].key
      BY <2>7, <3>1
    <3> DEFINE x == k - Kpool + 1 + o
    <3>3. x \in base + 1..base + row.n /\ PosOf(row, base, x) = m + o
      <4> DEFINE s == row.start
                 p == PoolEnd(j)
      <4>1. /\ s \in Nat /\ p \in Nat /\ s <= m /\ p = m + (Kpool - 1) /\ p < s + row.n
            /\ k = (p - s) + (base + 1)
        BY <1>1, <1>1a, <2>1, <2>2, <2>6
      <4>2. PosOf(row, base, x) = s + ((x - base) - 1) /\ x = k - Kpool + 1 + o
        BY Zenon DEF PosOf
      <4> HIDE DEF x, s, p
      <4>3. k \in Int /\ x = (((p - s) + (base + 1)) - Kpool) + 1 + o
        BY <1>1, <3>1, <4>1, <4>2
      <4>4. x >= base + 1 /\ x <= base + row.n /\ x \in Int /\ s + ((x - base) - 1) = m + o
        BY <1>1, <1>1a, <3>1, <4>1, <4>3
      <4> QED
        BY <1>1, <4>2, <4>4
    <3> HIDE DEF x
    <3>4. T[x].key = KeyAt(row, m + o)
      BY <1>3, <3>3
    <3>5. m + o >= row.start
      BY <1>1, <1>1a, <2>2, <3>1
    <3> QED
      BY <3>2, <3>4, <3>5 DEF x
  <2> QED
    BY <2>8
<1>5. ASSUME ~EndsIn(j, row, e)
      PROVE  Pooled(T, b, j, old) = old
  <2>1. \A i \in DOMAIN T : ~Ends(T, i, b, j)
    <3>1. SUFFICES ASSUME NEW i \in DOMAIN T, Ends(T, i, b, j) PROVE FALSE
      OBVIOUS
    <3>2. i \in base + 1..base + row.n /\ PosOf(row, base, i) = PoolEnd(j)
      BY <1>2, <3>1
    <3>3. PoolEnd(j) \in row.start..e - 1
      BY <1>3, <3>2
    <3>4. EndsIn(j, row, e)
      BY <1>1, <1>1a, <3>3 DEF EndsIn
    <3> QED
      BY <1>5, <3>4
  <2> QED
    BY <2>1, Zenon DEF Pooled
<1> QED
  BY <1>4, <1>5, Zenon DEF e, b, m

--------------------------------------------------------------------------------
LEMMA TokensType ==
  ASSUME NEW rows, GoodRows(rows), NEW i \in DOMAIN Tokens(rows)
  PROVE  Tokens(rows)[i].key \in KeyType /\ \E r \in 1..Len(rows) : Tokens(rows)[i].block = rows[r].block
<1> DEFINE T == Tokens(rows)
           R == ToSet(rows)
<1>1. /\ \A r \in 1..Len(rows) : GoodRow(rows[r])
      /\ rows \in Seq(R) /\ \A x \in R : x.n \in Nat
  BY GoodRowsFact DEF GoodRows
<1>2. PICK r \in 1..Len(rows) : \E t \in 1..rows[r].n : T[i] = TokenOf(rows[r], t)
  <2> HIDE DEF R
  <2> QED
    BY <1>1, TokensFact
<1>3. PICK t \in 1..rows[r].n : T[i] = TokenOf(rows[r], t)
  BY <1>2
<1> DEFINE row == rows[r]
           p == row.start + t - 1
<1>4. GoodRow(row)
  BY <1>1
<1>5. T[i] = TokenAt(row, p)
  <2> HIDE DEF row
  <2>1. t \in 1..row.n
    BY DEF row
  <2> QED
    BY <1>3, <1>4, <2>1, TokenFact DEF row
<1>6. p \in row.start..row.start + row.n - 1
  BY <1>4 DEF GoodRow
<1>7. KeyAt(row, p) \in KeyType
  <2> HIDE DEF row, p
  <2> QED
    BY <1>4, <1>6, TokenAtType
<1> QED
  BY <1>5, <1>7 DEF TokenAt

(* The prefill write of a batch: only the pool that a chunk begins within  *)
(* may come out wrong.                                                     *)
LEMMA PrefillWritten ==
  ASSUME NEW c \in CacheType, NEW rows, GoodRows(rows)
  PROVE  LET new == PrefillWrite(c, rows)
         IN  /\ new \in CacheType /\ OthersKept(c, new, rows, Len(rows))
             /\ \A i \in 1..Len(rows) :
                   After(c[rows[i].block], new[rows[i].block], rows[i], EndOf(rows[i]), Splits(rows[i]))
<1> DEFINE T == Tokens(rows)
           new == PrefillWrite(c, rows)
           Now(b) == [ring |-> [o \in Ring |-> Seeded(T, b, o, c[b].ring[o])],
                      pools |-> [j \in PoolId |-> Pooled(T, b, j, c[b].pools[j])]]
<1>1. new = [b \in DOMAIN c |->
               [ring |-> [o \in 0..Kpool - 1 |-> Seeded(T, b, o, c[b].ring[o])],
                pools |-> [j \in DOMAIN c[b].pools |-> Pooled(T, b, j, c[b].pools[j])]]]
  BY PrefillIs
<1>2. /\ DOMAIN c = Block /\ Ring = 0..Kpool - 1
      /\ \A b \in Block : /\ c[b].ring \in [Ring -> KeyType] /\ c[b].pools \in [PoolId -> [Ring -> KeyType]]
                          /\ c[b] = [ring |-> c[b].ring, pools |-> c[b].pools]
                          /\ DOMAIN c[b].pools = PoolId
  BY DEF CacheType, BlockType, Ring
<1>3. DOMAIN new = Block /\ new = [b \in Block |-> new[b]] /\ \A b \in Block : new[b] = Now(b)
  <2>1. \A b \in Block : [ring |-> [o \in 0..Kpool - 1 |-> Seeded(T, b, o, c[b].ring[o])],
                pools |-> [j \in DOMAIN c[b].pools |-> Pooled(T, b, j, c[b].pools[j])]] = Now(b)
    BY <1>2, Zenon
  <2> HIDE DEF new, T, Now
  <2>2. new = [b \in Block |-> Now(b)]
    BY <1>1, <1>2, <2>1
  <2> QED
    BY <2>2
<1>4. /\ Len(T) \in Nat /\ DOMAIN T = 1..Len(T)
      /\ \A i \in DOMAIN T : T[i].key \in KeyType /\ \E r \in 1..Len(rows) : T[i].block = rows[r].block
  BY TokensLen, TokensType
<1> HIDE DEF new, T
<1>5. ASSUME NEW b \in Block, NEW o \in Ring
      PROVE  Seeded(T, b, o, c[b].ring[o]) \in KeyType
  <2>1. CASE \E i \in DOMAIN T : Seeds(T, i, b, o)
    <3> DEFINE k == CHOOSE i \in DOMAIN T : Seeds(T, i, b, o)
    <3>1. k \in DOMAIN T
      BY <2>1
    <3>2. Seeded(T, b, o, c[b].ring[o]) = T[k].key
      BY <2>1, Zenon DEF Seeded
    <3> HIDE DEF k
    <3> QED
      BY <1>4, <3>1, <3>2
  <2>2. CASE ~(\E i \in DOMAIN T : Seeds(T, i, b, o))
    <3>1. Seeded(T, b, o, c[b].ring[o]) = c[b].ring[o]
      BY <2>2, Zenon DEF Seeded
    <3> QED
      BY <1>2, <3>1
  <2> QED
    BY <2>1, <2>2
<1>6. ASSUME NEW b \in Block, NEW j \in PoolId
      PROVE  Pooled(T, b, j, c[b].pools[j]) \in [Ring -> KeyType]
  <2>1. CASE \E i \in DOMAIN T : Ends(T, i, b, j)
    <3> DEFINE k == CHOOSE i \in DOMAIN T : Ends(T, i, b, j)
    <3>1. k \in DOMAIN T /\ Ends(T, k, b, j)
      BY <2>1
    <3>2. Pooled(T, b, j, c[b].pools[j]) = [o \in 0..Kpool - 1 |-> T[k - Kpool + 1 + o].key]
      BY <2>1, Zenon DEF Pooled
    <3> HIDE DEF k
    <3>3. k \in 1..Len(T) /\ k >= Kpool
      BY <1>4, <3>1 DEF Ends
    <3>4. \A o \in 0..Kpool - 1 : k - Kpool + 1 + o \in DOMAIN T
      BY <1>4, <3>3
    <3>5. \A o \in 0..Kpool - 1 : T[k - Kpool + 1 + o].key \in KeyType
      BY <1>4, <3>4
    <3> QED
      BY <1>2, <3>2, <3>5
  <2>2. CASE ~(\E i \in DOMAIN T : Ends(T, i, b, j))
    <3>1. Pooled(T, b, j, c[b].pools[j]) = c[b].pools[j]
      BY <2>2, Zenon DEF Pooled
    <3> QED
      BY <1>2, <3>1
  <2> QED
    BY <2>1, <2>2
<1>7. new \in CacheType
  <2>1. ASSUME NEW b \in Block PROVE new[b] \in BlockType
    <3>1. [o \in Ring |-> Seeded(T, b, o, c[b].ring[o])] \in [Ring -> KeyType]
      BY <1>5
    <3>2. [j \in PoolId |-> Pooled(T, b, j, c[b].pools[j])] \in [PoolId -> [Ring -> KeyType]]
      BY <1>6
    <3>3. Now(b) \in BlockType
      BY <3>1, <3>2 DEF BlockType
    <3> QED
      BY <1>3, <3>3
  <2> QED
    BY <1>3, <2>1 DEF CacheType
<1>8. OthersKept(c, new, rows, Len(rows))
  <2>1. ASSUME NEW d \in Block, \A i \in 1..Len(rows) : rows[i].block # d
        PROVE  new[d] = c[d]
    <3>1. \A i \in DOMAIN T : T[i].block # d
      BY <1>4, <2>1
    <3>2. \A o \in Ring : Seeded(T, d, o, c[d].ring[o]) = c[d].ring[o]
      BY <3>1 DEF Seeded, Seeds
    <3>3. \A j \in PoolId : Pooled(T, d, j, c[d].pools[j]) = c[d].pools[j]
      <4>1. \A j \in PoolId : \A i \in DOMAIN T : ~Ends(T, i, d, j)
        BY <3>1 DEF Ends
      <4> QED
        BY <4>1, Zenon DEF Pooled
    <3>4. /\ [o \in Ring |-> Seeded(T, d, o, c[d].ring[o])] = c[d].ring
          /\ [j \in PoolId |-> Pooled(T, d, j, c[d].pools[j])] = c[d].pools
      BY <1>2, <3>2, <3>3
    <3>5. Now(d) = c[d]
      BY <1>2, <3>4, Zenon
    <3> QED
      BY <1>3, <3>5, Zenon
  <2> QED
    BY <2>1, Zenon DEF OthersKept
<1>9. ASSUME NEW r \in 1..Len(rows)
      PROVE  After(c[rows[r].block], new[rows[r].block], rows[r], EndOf(rows[r]), Splits(rows[r]))
  <2> DEFINE row == rows[r]
             b == row.block
             e == EndOf(row)
             new1 == new[b]
             old1 == c[b]
  <2>1. GoodRow(row) /\ b \in Block
    BY GoodRowsFact DEF GoodRows, GoodRow
  <2>2. PICK base \in Nat : InBatch(T, row, base)
    BY RowPlaces DEF T
  <2>3. /\ new1.ring = [o \in Ring |-> Seeded(T, b, o, old1.ring[o])]
        /\ new1.pools = [j \in PoolId |-> Pooled(T, b, j, old1.pools[j])]
    <3> HIDE DEF row
    <3> QED
      BY <1>3, <2>1
  <2>4. /\ \A o \in Ring : new1.ring[o] = Seeded(T, b, o, old1.ring[o])
        /\ \A j \in PoolId : new1.pools[j] = Pooled(T, b, j, old1.pools[j])
    <3> HIDE DEF new1, old1, b
    <3> QED
      BY <2>3
  <2> HIDE DEF new1, old1, row
  <2>5. \A o \in Ring :
         /\ \A p \in row.start..EndOf(row) - 1 : p % Kpool = o /\ p + Kpool >= EndOf(row) =>
               new1.ring[o] = KeyAt(row, p)
         /\ (\A p \in row.start..EndOf(row) - 1 : p % Kpool # o) => new1.ring[o] = old1.ring[o]
    <3>1. \A o \in Ring :
         /\ \A p \in row.start..EndOf(row) - 1 : p % Kpool = o /\ p + Kpool >= EndOf(row) =>
               Seeded(T, row.block, o, old1.ring[o]) = KeyAt(row, p)
         /\ (\A p \in row.start..EndOf(row) - 1 : p % Kpool # o) =>
               Seeded(T, row.block, o, old1.ring[o]) = old1.ring[o]
      BY <2>1, <2>2, SeededFact
    <3> QED
      BY <2>4, <3>1, Zenon
  <2>6. \A j \in PoolId :
         /\ EndsIn(j, row, EndOf(row)) /\ j \notin Splits(row) =>
               /\ \A o \in Ring : (j * Kpool) + o >= row.start
               /\ \A o \in Ring : new1.pools[j][o] = KeyAt(row, (j * Kpool) + o)
         /\ ~EndsIn(j, row, EndOf(row)) => new1.pools[j] = old1.pools[j]
    <3>1. \A j \in PoolId :
         /\ EndsIn(j, row, EndOf(row)) /\ j \notin Splits(row) =>
               /\ \A o \in Ring : (j * Kpool) + o >= row.start
               /\ \A o \in Ring : Pooled(T, row.block, j, old1.pools[j])[o] = KeyAt(row, (j * Kpool) + o)
         /\ ~EndsIn(j, row, EndOf(row)) => Pooled(T, row.block, j, old1.pools[j]) = old1.pools[j]
      BY <2>1, <2>2, PooledFact
    <3> QED
      BY <2>4, <3>1, Zenon
  <2>7. RingMade(new1, row, e)
    <3>1. \A p \in row.start..e - 1 : p % Kpool \in Ring
      <4>1. row.start \in Nat
        BY <2>1 DEF GoodRow
      <4>2. \A p \in row.start..e - 1 : p \in Nat
        BY <4>1
      <4> QED
        BY <4>2, PoolPlace
    <3> QED
      BY <2>5, <3>1, Zenon DEF RingMade
  <2>8. RingKept(old1, new1, row, e)
    BY <2>5, Zenon DEF RingKept
  <2>9. PoolsMade(old1, new1, row, e, Splits(row))
    <3>1. ASSUME NEW j \in PoolId, j \notin Splits(row), EndsIn(j, row, e) PROVE PoolMade(old1, new1, row, j)
      BY <2>6, <3>1, Zenon DEF PoolMade
    <3> QED
      BY <3>1 DEF PoolsMade
  <2>10. PoolsKept(old1, new1, row, e, Splits(row))
    <3>1. \A j \in PoolId \ Splits(row) : j \in PoolId
      OBVIOUS
    <3> QED
      BY <2>6, <3>1, Zenon DEF PoolsKept
  <2>11. After(old1, new1, row, e, Splits(row))
    BY <2>7, <2>8, <2>9, <2>10, Zenon DEF After
  <2> QED
    BY <2>11, Zenon DEF old1, new1, row
<1> QED
  BY <1>7, <1>8, <1>9, Zenon DEF new

--------------------------------------------------------------------------------
(***************************************************************************)
(* A block is good for a request of which `done` tokens are computed, but  *)
(* for the pools of L: the complete pools are made of the request's own    *)
(* accepted tokens, and the ring holds those of the pool in progress.      *)
(***************************************************************************)
GoodPools(blk, r, done, L) ==
    \A j \in PoolId \ L : (j * Kpool) + Kpool <= done =>
        \A o \in Ring : blk.pools[j][o] = Key(r, (j * Kpool) + o, TRUE)
GoodRing(blk, r, done, L) ==
    done \div Kpool \notin L =>
        \A p \in (done \div Kpool) * Kpool..done - 1 : blk.ring[p % Kpool] = Key(r, p, TRUE)
Good(blk, r, done, L) == GoodPools(blk, r, done, L) /\ GoodRing(blk, r, done, L)

LEMMA GoodGrows ==
  ASSUME NEW blk, NEW r, NEW done, NEW L, NEW M, L \subseteq M, Good(blk, r, done, L)
  PROVE  Good(blk, r, done, M)
<1>1. GoodPools(blk, r, done, M)
  BY DEF Good, GoodPools
<1>2. GoodRing(blk, r, done, M)
  BY DEF Good, GoodRing
<1> QED
  BY <1>1, <1>2 DEF Good

LEMMA GoodAtStart ==
  ASSUME NEW blk, NEW r
  PROVE  Good(blk, r, 0, {})
<1>1. \A j \in PoolId : ~((j * Kpool) + Kpool <= 0)
  <2> SUFFICES ASSUME NEW j \in PoolId PROVE ~((j * Kpool) + Kpool <= 0)
    OBVIOUS
  <2> DEFINE m == j * Kpool
  <2>1. m \in Nat
    BY DEF PoolId
  <2> HIDE DEF m
  <2>2. ~(m + Kpool <= 0)
    BY <2>1
  <2> QED
    BY <2>2 DEF m
<1>2. (0 \div Kpool) * Kpool..0 - 1 = {}
  <2>1. 0 \div Kpool \in Nat /\ 0 = ((0 \div Kpool) * Kpool) + (0 % Kpool) /\ 0 % Kpool \in Ring
    BY PoolPlace
  <2>2. (0 \div Kpool) * Kpool \in Nat
    BY <2>1
  <2> QED
    BY <2>2
<1> QED
  BY <1>1, <1>2 DEF Good, GoodPools, GoodRing

(* Where a position lies: its pool begins at or before it and ends after.  *)
LEMMA PoolSpan ==
  ASSUME NEW a \in Nat
  PROVE  /\ a \div Kpool \in Nat /\ (a \div Kpool) * Kpool \in Nat
         /\ (a \div Kpool) * Kpool <= a /\ a < ((a \div Kpool) * Kpool) + Kpool
<1> DEFINE m == (a \div Kpool) * Kpool
           x == a % Kpool
<1>1. a \div Kpool \in Nat /\ x \in Ring /\ a = m + x
  BY PoolPlace
<1>2. m \in Nat
  BY <1>1
<1> HIDE DEF m, x
<1>3. m <= a /\ a < m + Kpool
  BY <1>1, <1>2 DEF Ring
<1> QED
  BY <1>1, <1>2, <1>3 DEF m

LEMMA SamePool ==
  ASSUME NEW j \in Nat, NEW a \in Nat, j * Kpool <= a, a < (j * Kpool) + Kpool
  PROVE  a \div Kpool = j
<1> DEFINE m == j * Kpool
           o == a - m
<1>1. m \in Nat
  OBVIOUS
<1>1a. m <= a /\ a < m + Kpool
  OBVIOUS
<1> HIDE DEF m
<1>2. o \in Ring /\ a = m + o
  BY <1>1, <1>1a DEF Ring
<1> HIDE DEF o
<1> QED
  BY <1>2, PlacePool DEF m

(* A block that was good for the tokens before a row is good for those     *)
(* accepted with it: a rejected draft spoils at most the pool it is in.    *)
LEMMA AfterGood ==
  ASSUME NEW row, GoodRow(row), NEW old, NEW new, NEW miss, NEW L0, NEW L,
         After(old, new, row, EndOf(row), miss), Good(old, row.req, row.start, L0),
         L0 \subseteq L, miss \subseteq L, Overruns(row) \subseteq L
  PROVE  Good(new, row.req, row.start + Advance(row), L)
<1> DEFINE s == row.start
           a == row.start + Advance(row)
           e == EndOf(row)
           r == row.req
<1>1. /\ s \in Nat /\ a \in Nat /\ e \in Nat /\ s <= a /\ a <= e /\ Kpool \in Nat \ {0}
      /\ e = row.start + row.n
  BY DEF GoodRow, EndOf, Advance, Rejected
<1>2. /\ RingMade(new, row, e) /\ RingKept(old, new, row, e)
      /\ PoolsMade(old, new, row, e, miss) /\ PoolsKept(old, new, row, e, miss)
      /\ GoodPools(old, r, s, L0) /\ GoodRing(old, r, s, L0)
  BY DEF After, Good
<1>3. \A p \in Nat : p < a => KeyAt(row, p) = Key(r, p, TRUE)
  <2> SUFFICES ASSUME NEW p \in Nat, p < a PROVE KeyAt(row, p) = Key(r, p, TRUE)
    OBVIOUS
  <2>1. (p < a) = TRUE
    OBVIOUS
  <2> QED
    BY <2>1, Zenon DEF KeyAt
<1>4. a \div Kpool \notin L => \A q \in (a \div Kpool) * Kpool..a - 1 : ~(q + Kpool < e)
  BY <1>1 DEF Overruns
<1> HIDE DEF s, a, e, r
<1>5. ASSUME NEW j \in PoolId \ L, (j * Kpool) + Kpool <= a, NEW o \in Ring
      PROVE  new.pools[j][o] = Key(r, (j * Kpool) + o, TRUE)
  <2> DEFINE m == j * Kpool
             q == m + o
  <2>1. j \in Nat /\ m \in Nat /\ o \in Nat /\ o < Kpool /\ PoolEnd(j) = m + (Kpool - 1)
    <3>1. j \in Nat /\ o \in Nat /\ o < Kpool
      BY DEF PoolId, Ring
    <3>2. m \in Nat
      BY <3>1
    <3>3. PoolEnd(j) = m + (Kpool - 1)
      BY DEF PoolEnd
    <3> QED
      BY <3>1, <3>2, <3>3
  <2>2. q \in Nat /\ q % Kpool = o
    BY <2>1, PlacePool
  <2>3. j \in PoolId \ miss /\ j \in PoolId \ L0
    OBVIOUS
  <2> HIDE DEF m
  <2>4. m + Kpool <= a /\ PoolEnd(j) \in Nat /\ PoolEnd(j) < e /\ q < a
    BY <1>1, <1>5, <2>1 DEF m
  <2> HIDE DEF q
  <2>5. CASE s <= PoolEnd(j)
    <3>1. PoolMade(old, new, row, j)
      <4>1. EndsIn(j, row, e)
        BY <2>4, <2>5 DEF EndsIn, s
      <4> QED
        BY <1>2, <2>3, <4>1 DEF PoolsMade
    <3>2. new.pools[j][o] = IF q >= s THEN KeyAt(row, q) ELSE old.ring[o]
      BY <3>1 DEF PoolMade, q, m, s
    <3>3. CASE q >= s
      <4>1. KeyAt(row, q) = Key(r, q, TRUE)
        BY <1>3, <2>2, <2>4
      <4> QED
        BY <3>2, <3>3, <4>1 DEF q, m
    <3>4. CASE ~(q >= s)
      <4>1. m <= s /\ s < m + Kpool /\ q \in m..s - 1
        BY <1>1, <2>1, <2>2, <2>4, <2>5, <3>4 DEF q
      <4>2. s \div Kpool = j
        BY <1>1, <2>1, <4>1, SamePool DEF m
      <4>3. q \in (s \div Kpool) * Kpool..s - 1 /\ s \div Kpool \notin L0
        BY <2>3, <4>1, <4>2 DEF m
      <4>4. old.ring[q % Kpool] = Key(r, q, TRUE)
        BY <1>2, <4>3 DEF GoodRing
      <4> QED
        BY <2>2, <3>2, <3>4, <4>4 DEF q, m
    <3> QED
      BY <3>3, <3>4
  <2>6. CASE ~(s <= PoolEnd(j))
    <3>1. m + Kpool <= s
      BY <1>1, <2>1, <2>4, <2>6
    <3>2. ~EndsIn(j, row, e)
      BY <2>6 DEF EndsIn, s
    <3>3. new.pools[j] = old.pools[j]
      BY <1>2, <2>3, <3>2 DEF PoolsKept
    <3>4. old.pools[j][o] = Key(r, q, TRUE)
      BY <1>2, <2>3, <3>1 DEF GoodPools, q, m
    <3> QED
      BY <3>3, <3>4 DEF q, m
  <2> QED
    BY <2>5, <2>6
<1>6. ASSUME a \div Kpool \notin L, NEW p \in (a \div Kpool) * Kpool..a - 1
      PROVE  new.ring[p % Kpool] = Key(r, p, TRUE)
  <2> DEFINE j == a \div Kpool
             m == j * Kpool
  <2>1. j \in Nat /\ m \in Nat /\ m <= a /\ a < m + Kpool
    BY <1>1, PoolSpan
  <2>2. p \in Nat /\ m <= p /\ p < a
    <3> HIDE DEF j
    <3>1. p \in m..a - 1
      BY <1>6 DEF j
    <3> HIDE DEF m
    <3> QED
      BY <1>1, <2>1, <3>1
  <2>3. p + Kpool >= e
    BY <1>1, <1>4, <1>6, <2>2
  <2>4. KeyAt(row, p) = Key(r, p, TRUE)
    BY <1>3, <2>2
  <2> HIDE DEF j
  <2>5. CASE p >= s
    <3>1. p \in s..e - 1
      BY <1>1, <2>2, <2>5
    <3>2. new.ring[p % Kpool] = KeyAt(row, p)
      BY <1>2, <2>3, <3>1 DEF RingMade, s
    <3> QED
      BY <2>4, <3>2
  <2>6. CASE ~(p >= s)
    <3>1. \A q \in s..e - 1 : q % Kpool # p % Kpool
      <4> SUFFICES ASSUME NEW q \in s..e - 1 PROVE q % Kpool # p % Kpool
        OBVIOUS
      <4>1. q \in Nat /\ p < q /\ q < p + Kpool
        BY <1>1, <2>2, <2>3, <2>6
      <4> QED
        BY <2>2, <4>1, ModApart
    <3>2. p % Kpool \in Ring
      BY <2>2, PoolPlace
    <3>3. new.ring[p % Kpool] = old.ring[p % Kpool]
      BY <1>2, <3>1, <3>2 DEF RingKept, s
    <3> HIDE DEF m
    <3>4. m <= s /\ s < m + Kpool /\ p \in m..s - 1
      BY <1>1, <2>1, <2>2, <2>6
    <3>5. s \div Kpool = j
      BY <1>1, <2>1, <3>4, SamePool DEF m
    <3>6. p \in (s \div Kpool) * Kpool..s - 1 /\ s \div Kpool \notin L0
      BY <1>6, <3>4, <3>5 DEF m, j
    <3>7. old.ring[p % Kpool] = Key(r, p, TRUE)
      BY <1>2, <3>6 DEF GoodRing
    <3> QED
      BY <3>3, <3>7
  <2> QED
    BY <2>5, <2>6
<1>7. GoodPools(new, r, a, L)
  BY <1>5 DEF GoodPools
<1>8. GoodRing(new, r, a, L)
  BY <1>6, Zenon DEF GoodRing
<1> QED
  BY <1>7, <1>8, Zenon DEF Good, r, a

--------------------------------------------------------------------------------
(* The two parts of a batch are batches, without a block in common.        *)
LEMMA GoodParts ==
  ASSUME NEW rows, GoodRows(rows)
  PROVE  LET m == NumDecodes(rows)
             n == Len(rows)
         IN  /\ m \in 0..n /\ n \in Nat
             /\ GoodRows(Decodes(rows)) /\ Len(Decodes(rows)) = m
             /\ \A i \in 1..m : Decodes(rows)[i] = rows[i] /\ i \in 1..n
             /\ GoodRows(Prefills(rows)) /\ Len(Prefills(rows)) = n - m
             /\ \A i \in 1..n - m : Prefills(rows)[i] = rows[m + i] /\ m + i \in 1..n
<1> DEFINE R == ToSet(rows)
           m == NumDecodes(rows)
           n == Len(rows)
           D == Decodes(rows)
           P == Prefills(rows)
<1>1. rows \in Seq(R) /\ DOMAIN rows = 1..n
  BY GoodRowsFact DEF GoodRows
<1>2. m \in 0..n /\ n \in Nat
  <2> HIDE DEF R
  <2> QED
    BY <1>1, PrefixFact
<1>3. /\ D \in Seq(R) /\ Len(D) = m
      /\ \A i \in 1..m : D[i] = rows[i] /\ i \in 1..n
      /\ P \in Seq(R) /\ Len(P) = n - m
      /\ \A i \in 1..n - m : P[i] = rows[m + i] /\ m + i \in 1..n
  <2> HIDE DEF R
  <2>1. /\ D \in Seq(R) /\ Len(D) = m
        /\ \A i \in 1..m : D[i] = rows[i] /\ i \in DOMAIN rows
        /\ P \in Seq(R) /\ Len(P) = n - m
        /\ \A i \in 1..n - m : P[i] = rows[m + i] /\ m + i \in DOMAIN rows
    BY <1>1, PartsFact
  <2> QED
    BY <1>1, <2>1
<1> HIDE DEF R, m, n, D, P
<1>4. ASSUME NEW q, q \in Seq(R) PROVE q \in Seq(ToSet(q))
  <2>1. DOMAIN q = 1..Len(q) /\ Len(q) \in Nat /\ q = [i \in 1..Len(q) |-> q[i]]
    BY <1>4
  <2>2. \A i \in 1..Len(q) : q[i] \in ToSet(q)
    BY <2>1 DEF ToSet
  <2> QED
    BY <2>1, <2>2
<1>5. /\ \A i \in 1..n : GoodRow(rows[i])
      /\ \A i, k \in 1..n : rows[i].block = rows[k].block => i = k
  BY DEF GoodRows, n
<1>6. GoodRows(D)
  <2>1. D \in Seq(ToSet(D))
    BY <1>3, <1>4
  <2>2. \A i \in 1..m : GoodRow(D[i])
    BY <1>3, <1>5
  <2>3. \A i, k \in 1..m : D[i].block = D[k].block => i = k
    BY <1>3, <1>5
  <2> QED
    BY <1>3, <2>1, <2>2, <2>3 DEF GoodRows
<1>7. GoodRows(P)
  <2>1. P \in Seq(ToSet(P))
    BY <1>3, <1>4
  <2>2. \A i \in 1..n - m : GoodRow(P[i])
    BY <1>3, <1>5
  <2>3. \A i, k \in 1..n - m : P[i].block = P[k].block => i = k
    <3> SUFFICES ASSUME NEW i \in 1..n - m, NEW k \in 1..n - m, P[i].block = P[k].block PROVE i = k
      OBVIOUS
    <3>1. m + i \in 1..n /\ m + k \in 1..n /\ rows[m + i].block = rows[m + k].block
      BY <1>3
    <3>2. m + i = m + k
      BY <1>5, <3>1
    <3> QED
      BY <1>2, <3>2
  <2> QED
    BY <1>3, <2>1, <2>2, <2>3 DEF GoodRows
<1> QED
  BY <1>2, <1>3, <1>6, <1>7 DEF m, n, D, P

(* What the write of a whole batch may leave wrong in the block of row i.  *)
Missed(rows, i) == IF i <= NumDecodes(rows) THEN {} ELSE Splits(rows[i])

(***************************************************************************)
(* sparse_attn_indexer_kpool writes the block of every request of a batch, *)
(* with its tokens only, and no other block: the ring ends with the last   *)
(* tokens, and the pools that end within the row are made of its tokens and*)
(* of what the ring held before, but for the pools of Missed.              *)
(***************************************************************************)
THEOREM IndexerWritten ==
  ASSUME NEW c \in CacheType, NEW rows, GoodRows(rows)
  PROVE  LET new == IndexerWrite(c, rows)
         IN  /\ new \in CacheType /\ OthersKept(c, new, rows, Len(rows))
             /\ \A i \in 1..Len(rows) :
                   After(c[rows[i].block], new[rows[i].block], rows[i], EndOf(rows[i]), Missed(rows, i))
<1> DEFINE m == NumDecodes(rows)
           n == Len(rows)
           D == Decodes(rows)
           P == Prefills(rows)
           mid == PrefillWrite(c, P)
           new == IndexerWrite(c, rows)
<1>1. /\ m \in 0..n /\ n \in Nat /\ GoodRows(D) /\ Len(D) = m
      /\ \A i \in 1..m : D[i] = rows[i] /\ i \in 1..n
      /\ GoodRows(P) /\ Len(P) = n - m
      /\ \A i \in 1..n - m : P[i] = rows[m + i] /\ m + i \in 1..n
  BY GoodParts
<1>2. new = DecodeWrite(mid, D)
  BY Zenon DEF IndexerWrite
<1>2a. \A i \in 1..n : rows[i].block \in Block /\ \A k \in 1..n : rows[i].block = rows[k].block => i = k
  BY DEF GoodRows, GoodRow
<1>2b. \A i \in 1..n : Missed(rows, i) = IF i <= m THEN {} ELSE Splits(rows[i])
  BY DEF Missed
<1> HIDE DEF m, n, D, P, new, mid
<1>3. /\ mid \in CacheType /\ OthersKept(c, mid, P, n - m)
      /\ \A i \in 1..n - m : After(c[P[i].block], mid[P[i].block], P[i], EndOf(P[i]), Splits(P[i]))
  <2>1. LET x == PrefillWrite(c, P)
        IN  /\ x \in CacheType /\ OthersKept(c, x, P, Len(P))
            /\ \A i \in 1..Len(P) : After(c[P[i].block], x[P[i].block], P[i], EndOf(P[i]), Splits(P[i]))
    BY <1>1, PrefillWritten
  <2> QED
    BY <1>1, <2>1 DEF mid
<1>4. /\ new \in CacheType /\ OthersKept(mid, new, D, m)
      /\ \A i \in 1..m : After(mid[D[i].block], new[D[i].block], D[i], EndOf(D[i]), {})
  <2>1. LET x == DecodeWrite(mid, D)
        IN  /\ x \in CacheType /\ OthersKept(mid, x, D, Len(D))
            /\ \A i \in 1..Len(D) : After(mid[D[i].block], x[D[i].block], D[i], EndOf(D[i]), {})
    BY <1>1, <1>3, DecodeWritten
  <2> QED
    BY <1>1, <1>2, <2>1
<1>5. OthersKept(c, new, rows, n)
  <2> SUFFICES ASSUME NEW d \in Block, \A i \in 1..n : rows[i].block # d PROVE new[d] = c[d]
    BY Zenon DEF OthersKept
  <2>1. \A i \in 1..n - m : P[i].block # d
    BY <1>1
  <2>2. \A i \in 1..m : D[i].block # d
    BY <1>1
  <2>3. mid[d] = c[d]
    BY <1>3, <2>1, Zenon DEF OthersKept
  <2>4. new[d] = mid[d]
    BY <1>4, <2>2, Zenon DEF OthersKept
  <2> QED
    BY <2>3, <2>4
<1>6. ASSUME NEW i \in 1..n
      PROVE  After(c[rows[i].block], new[rows[i].block], rows[i], EndOf(rows[i]), Missed(rows, i))
  <2> DEFINE b == rows[i].block
  <2>1. CASE i <= m
    <3>1. i \in 1..m /\ D[i] = rows[i]
      BY <1>1, <2>1
    <3>2. \A k \in 1..n - m : P[k].block # b
      <4> SUFFICES ASSUME NEW k \in 1..n - m PROVE P[k].block # b
        OBVIOUS
      <4>1. P[k] = rows[m + k] /\ m + k \in 1..n /\ m + k # i
        BY <1>1, <2>1
      <4> QED
        BY <1>2a, <4>1
    <3>3. mid[b] = c[b]
      BY <1>2a, <1>3, <3>2, Zenon DEF OthersKept
    <3>4. After(mid[b], new[b], rows[i], EndOf(rows[i]), {})
      BY <1>4, <3>1
    <3>5. Missed(rows, i) = {}
      BY <1>2b, <2>1
    <3> QED
      BY <3>3, <3>4, <3>5, Zenon
  <2>2. CASE ~(i <= m)
    <3>1. i - m \in 1..n - m /\ m + (i - m) = i
      BY <1>1, <2>2
    <3>2. P[i - m] = rows[i]
      BY <1>1, <3>1
    <3>3. After(c[b], mid[b], rows[i], EndOf(rows[i]), Splits(rows[i]))
      <4>1. After(c[P[i - m].block], mid[P[i - m].block], P[i - m], EndOf(P[i - m]), Splits(P[i - m]))
        BY <1>3, <3>1
      <4> QED
        BY <3>2, <4>1, Zenon
    <3>4. \A k \in 1..m : D[k].block # b
      <4> SUFFICES ASSUME NEW k \in 1..m PROVE D[k].block # b
        OBVIOUS
      <4>1. D[k] = rows[k] /\ k \in 1..n /\ k # i
        BY <1>1, <2>2
      <4> QED
        BY <1>2a, <4>1
    <3>5. new[b] = mid[b]
      BY <1>2a, <1>4, <3>4, Zenon DEF OthersKept
    <3>6. Missed(rows, i) = Splits(rows[i])
      BY <1>2b, <2>2
    <3> QED
      BY <3>3, <3>5, <3>6, Zenon
  <2> QED
    BY <2>1, <2>2
<1> QED
  BY <1>4, <1>5, <1>6, Zenon DEF new, n

================================================================================
