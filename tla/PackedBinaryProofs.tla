-------------------------- MODULE PackedBinaryProofs --------------------------
(***************************************************************************)
(* WithoutReplacement, EpochsBalanced and NothingLeftOut, for any shards,  *)
(* any number of ranks, workers and crashes, and any batch size.           *)
(*                                                                         *)
(* Sample numbers and windows correspond one to one (WindowOfSample,       *)
(* SampleOfWindow), and so do sample numbers and the places <<rank,        *)
(* worker, cursor>> (PlaceOfSample, SampleAtDistinct).  What the weights   *)
(* have learnt from a worker's samples is then told by its cursor (Reads): *)
(* e whole epochs, and once more the samples before the cursor.            *)
(***************************************************************************)
EXTENDS PackedBinary, FiniteSetTheorems, FunctionTheorems, WellFoundedInduction, TLAPS

(* The number of the sample that a window holds.                           *)
Index(x) == Cumulative(x[1] - 1) + x[2]

(* The samples of a worker were read in e epochs, and those before c once  *)
(* more.                                                                   *)
Epochs(r, w, c, counts) ==
  \E e \in Nat :
    /\ job.infinite \/ e = 0
    /\ \A k \in 0..(OwnSamples(r, w) - 1) :
         counts[Window(SampleAt(r, w, k))] = e + (IF k < c THEN 1 ELSE 0)

(* What was read is told by the cursors.                                   *)
Reads(cursors, counts) ==
  /\ \A r \in Ranks, w \in Workers :
       cursors[r][w] <= OwnSamples(r, w) /\ Epochs(r, w, cursors[r][w], counts)
  /\ \A x \in Windows : Index(x) >= NumSamples => counts[x] = 0

(* Every worker of a job that trains has a sample.                         *)
Supplied ==
  phase = "training" => \A r \in Ranks, w \in Workers : FirstSample(r, w) < NumSamples

(* The invariant of the running job and of its checkpoint.                 *)
IInv ==
  /\ TypeOK /\ Supplied
  /\ Reads(cursor, seen) /\ Reads(snapshot.cursor, snapshot.seen)

-----------------------------------------------------------------------------
(* Sets of numbers                                                         *)

(* Every non-empty set of naturals has a least element.                    *)
LEMMA LeastElement ==
  ASSUME NEW S \in SUBSET Nat, S # {}
  PROVE  \E m \in S : \A k \in S : m <= k
<1> DEFINE R == {p \in Nat \X Nat : p[1] < p[2]}
<1>1. IsWellFoundedOn(R, Nat)
  BY NatLessThanWellFounded DEF OpToRel
<1>2. PICK m \in S : \A k \in S : ~(<<k, m>> \in R)
  <2> HIDE DEF R
  <2> QED
    BY <1>1, WFMin
<1>3. \A k \in S : ~(k < m)
  BY <1>2
<1> QED
  BY <1>3

(* A set that has, with a number, all numbers from a on before it, is an   *)
(* interval, and its size is what it reaches (bisect_right on ordered      *)
(* sums; the range of a worker).                                           *)
LEMMA InitialSegment ==
  ASSUME NEW a \in Int, NEW n \in Nat, NEW S \in SUBSET (a..(a + n - 1)),
         \A k \in S : \A j \in a..k : j \in S
  PROVE  Cardinality(S) \in 0..n /\ S = a..(a + Cardinality(S) - 1)
<1> DEFINE Outside == {k \in Nat : a + k \notin S}
<1>1. n \in Outside
  OBVIOUS
<1>2. PICK m \in Outside : \A k \in Outside : m <= k
  <2>1. Outside \in SUBSET Nat /\ Outside # {}
    BY <1>1
  <2> HIDE DEF Outside
  <2> QED
    BY <2>1, LeastElement
<1>3. m \in 0..n
  BY <1>1, <1>2
<1>4. \A j \in a..(a + m - 1) : j \in S
  <2> SUFFICES ASSUME NEW j \in a..(a + m - 1) PROVE j \in S
    OBVIOUS
  <2>1. j - a \in Nat /\ j - a < m /\ a + (j - a) = j
    BY <1>3
  <2> QED
    BY <1>2, <1>3, <2>1
<1>5. \A k \in S : k \in a..(a + m - 1)
  <2> SUFFICES ASSUME NEW k \in S PROVE k < a + m
    BY <1>3
  <2>1. a + m \notin S
    BY <1>2
  <2>2. k \in Int /\ ~(a + m \in a..k)
    BY <2>1
  <2> QED
    BY <1>3, <2>2
<1>6. S = a..(a + m - 1)
  BY <1>4, <1>5
<1>7. Cardinality(a..(a + m - 1)) = m
  BY <1>3, FS_Interval
<1> QED
  BY <1>3, <1>6, <1>7

-----------------------------------------------------------------------------
(* Shards                                                                  *)

(* What the job's fields are.                                              *)
LEMMA JobFacts ==
  ASSUME job \in Job
  PROVE  /\ Len(job.cumulative_samples) \in Nat /\ Shards = 1..Len(job.cumulative_samples)
         /\ \A k \in 0..Len(job.cumulative_samples) : Cumulative(k) \in Nat
         /\ \A k, l \in 0..Len(job.cumulative_samples) :
              k <= l => Cumulative(k) <= Cumulative(l)
         /\ TotalSamples \in Nat /\ NumSamples \in Nat /\ NumSamples <= TotalSamples
         /\ job.dp_world_size \in Nat \ {0} /\ job.num_workers \in Nat \ {0}
         /\ job.batch_size \in Nat \ {0} /\ job.infinite \in BOOLEAN
         /\ job.steps \in Nat \ {0}
<1> DEFINE sums == job.cumulative_samples
           n == Len(sums)
<1>1. /\ sums \in Seq(Nat) /\ \A k, l \in DOMAIN sums : k <= l => sums[k] <= sums[l]
      /\ job.sample_count \in Nat
      /\ job.dp_world_size \in Nat \ {0} /\ job.num_workers \in Nat \ {0}
      /\ job.batch_size \in Nat \ {0} /\ job.infinite \in BOOLEAN
      /\ job.steps \in Nat \ {0}
  BY DEF Job
<1>2. n \in Nat /\ DOMAIN sums = 1..n /\ \A k \in 1..n : sums[k] \in Nat
  BY <1>1
<1>3. \A k \in 0..n : Cumulative(k) \in Nat
  BY <1>2 DEF Cumulative
<1>4. ASSUME NEW k \in 0..n, NEW l \in 0..n, k <= l PROVE Cumulative(k) <= Cumulative(l)
  <2>1. k # 0 => k \in DOMAIN sums /\ l \in DOMAIN sums
    BY <1>2, <1>4
  <2>2. k # 0 => sums[k] <= sums[l]
    BY <1>1, <1>4, <2>1
  <2>3. k = 0 => l = 0 \/ sums[l] \in Nat
    BY <1>2, <1>4
  <2> QED
    BY <1>4, <2>2, <2>3 DEF Cumulative
<1>5. TotalSamples \in Nat
  BY <1>2, <1>3 DEF TotalSamples
<1>6. NumSamples \in Nat /\ NumSamples <= TotalSamples
  BY <1>1, <1>5 DEF NumSamples
<1> QED
  BY <1>1, <1>2, <1>3, <1>4, <1>5, <1>6 DEF Shards

(* bisect_right returns how many shards end before a sample.               *)
LEMMA BisectFacts ==
  ASSUME job \in Job, NEW s \in Nat
  PROVE  /\ Bisect(s) \in 0..Len(job.cumulative_samples)
         /\ \A k \in 1..Len(job.cumulative_samples) : Cumulative(k) <= s <=> k <= Bisect(s)
<1> DEFINE n == Len(job.cumulative_samples)
           S == {k \in Shards : Cumulative(k) <= s}
<1>1. n \in Nat /\ Shards = 1..n
  BY JobFacts
<1>2. \A k, l \in 0..n : k <= l => Cumulative(k) <= Cumulative(l)
  BY JobFacts
<1>3. \A k \in 0..n : Cumulative(k) \in Nat
  BY JobFacts
<1>4. S \in SUBSET (1..(1 + n - 1))
  BY <1>1
<1>5. \A k \in S : \A j \in 1..k : j \in S
  BY <1>1, <1>2, <1>3
<1>6. Cardinality(S) \in 0..n /\ S = 1..(1 + Cardinality(S) - 1)
  <2> HIDE DEF S, n
  <2> QED
    BY <1>1, <1>4, <1>5, InitialSegment
<1>7. Bisect(s) = Cardinality(S)
  BY DEF Bisect
<1>8. Bisect(s) \in 0..n /\ S = 1..Bisect(s)
  <2> HIDE DEF S
  <2> QED
    BY <1>1, <1>6, <1>7
<1>9. \A k \in 1..n : Cumulative(k) <= s <=> k \in S
  BY <1>1
<1> QED
  <2> HIDE DEF S
  <2> QED
    BY <1>1, <1>8, <1>9

(* A sample's window lies in the file of its shard, and holds that sample  *)
(* (_sample_window).                                                       *)
LEMMA WindowOfSample ==
  ASSUME job \in Job, NEW s \in 0..(TotalSamples - 1)
  PROVE  Window(s) \in Windows /\ Index(Window(s)) = s
<1> DEFINE n == Len(job.cumulative_samples)
           b == Bisect(s)
<1>1. n \in Nat /\ Shards = 1..n /\ TotalSamples \in Nat
  BY JobFacts
<1>2. \A k \in 0..n : Cumulative(k) \in Nat
  BY JobFacts
<1>s. s \in Nat
  BY <1>1
<1>3. s \in Nat /\ b \in 0..n /\ \A k \in 1..n : Cumulative(k) <= s <=> k <= b
  BY <1>s, BisectFacts
<1>4. n # 0 /\ ~(Cumulative(n) <= s)
  BY <1>1, <1>2 DEF TotalSamples, Cumulative
<1>5. b + 1 \in 1..n /\ Cumulative(b) <= s /\ s < Cumulative(b + 1)
  <2> HIDE DEF n, b
  <2>1. b < n
    BY <1>1, <1>3, <1>4
  <2>2. b = 0 => Cumulative(b) = 0
    BY DEF Cumulative
  <2> QED
    BY <1>1, <1>2, <1>3, <2>1, <2>2
<1>6. Window(s) = <<b + 1, s - Cumulative(b)>>
  BY DEF Window
<1> HIDE DEF n, b
<1>7. b + 1 - 1 = b /\ Cumulative(b) \in Nat /\ Cumulative(b + 1) \in Nat
  BY <1>1, <1>2, <1>3, <1>5
<1>8. s - Cumulative(b) \in 0..(Cumulative(b + 1) - Cumulative(b + 1 - 1) - 1)
  BY <1>3, <1>5, <1>7
<1>9. Window(s) \in Windows
  <2> DEFINE File(k) == {k} \X (0..(Cumulative(k) - Cumulative(k - 1) - 1))
  <2>1. b + 1 \in Shards
    BY <1>1, <1>5
  <2>2. <<b + 1, s - Cumulative(b)>> \in File(b + 1)
    BY <1>3, <1>5, <1>7, <1>8
  <2>3. Windows = UNION {File(k) : k \in Shards}
    BY DEF Windows
  <2> HIDE DEF File
  <2> QED
    BY <1>6, <2>1, <2>2, <2>3
<1>10. Index(Window(s)) = s
  BY <1>3, <1>6, <1>7 DEF Index
<1> QED
  BY <1>9, <1>10

(* Every window of the shards' files is the window of one sample.          *)
LEMMA SampleOfWindow ==
  ASSUME job \in Job, NEW x \in Windows
  PROVE  Index(x) \in 0..(TotalSamples - 1) /\ Window(Index(x)) = x
<1> DEFINE n == Len(job.cumulative_samples)
<1>1. n \in Nat /\ Shards = 1..n /\ TotalSamples \in Nat
  BY JobFacts
<1>2. /\ \A k \in 0..n : Cumulative(k) \in Nat
      /\ \A k, l \in 0..n : k <= l => Cumulative(k) <= Cumulative(l)
  BY JobFacts
<1>3. PICK k \in 1..n : \E i \in 0..(Cumulative(k) - Cumulative(k - 1) - 1) : x = <<k, i>>
  BY <1>1 DEF Windows
<1> PICK i \in 0..(Cumulative(k) - Cumulative(k - 1) - 1) : x = <<k, i>>
  BY <1>3
<1>4. TotalSamples = Cumulative(n)
  BY DEF TotalSamples
<1> HIDE DEF n
<1> DEFINE s == Index(x)
           b == Bisect(s)
<1>5. s = Cumulative(k - 1) + i
  BY <1>3 DEF Index
<1>6. k - 1 \in 0..n /\ k \in 0..n /\ n \in 0..n
  BY <1>1
<1>7. s \in Nat /\ s < Cumulative(k) /\ Cumulative(k - 1) <= s /\ s < TotalSamples
  BY <1>1, <1>2, <1>3, <1>4, <1>5, <1>6
<1>8. b \in 0..n /\ \A j \in 1..n : Cumulative(j) <= s <=> j <= b
  BY <1>7, BisectFacts DEF n
<1>9. b = k - 1
  <2> HIDE DEF s, b
  <2>1. ~(k <= b)
    BY <1>2, <1>6, <1>7, <1>8
  <2>2. k - 1 # 0 => k - 1 <= b
    BY <1>6, <1>7, <1>8
  <2> QED
    BY <1>6, <1>8, <2>1, <2>2
<1>10. Window(s) = <<b + 1, s - Cumulative(b)>>
  BY DEF Window
<1> HIDE DEF s, b
<1>11. Window(s) = x
  BY <1>1, <1>2, <1>3, <1>5, <1>6, <1>9, <1>10
<1> QED
  BY <1>1, <1>7, <1>11 DEF s

-----------------------------------------------------------------------------
(* Strides                                                                 *)

(* Quotient and remainder.                                                 *)
LEMMA Division ==
  ASSUME NEW n \in Nat \ {0}, NEW s \in Nat
  PROVE  /\ s \div n \in Nat /\ s % n \in 0..(n - 1)
         /\ s = (s \div n) * n + (s % n)
BY SMT

(* Numbers with a remainder below n are told apart by quotient and         *)
(* remainder.                                                              *)
LEMMA Digits ==
  ASSUME NEW n \in Nat \ {0}, NEW a \in Int, NEW b \in Int,
         NEW i \in 0..(n - 1), NEW j \in 0..(n - 1),
         i + a * n = j + b * n
  PROVE  a = b /\ i = j
<1>1. a * n \in Int /\ b * n \in Int
  OBVIOUS
<1>2. \A p, q \in Int : p < q => p * n + n <= q * n
  OBVIOUS
<1>3. ~(a < b)
  BY <1>1, <1>2
<1>4. ~(b < a)
  BY <1>1, <1>2
<1> QED
  BY <1>1, <1>3, <1>4

(* The stride leaves room for the first samples of all workers.            *)
LEMMA StrideFacts ==
  ASSUME job \in Job
  PROVE  /\ Stride \in Nat \ {0}
         /\ \A r \in Ranks, w \in Workers : FirstSample(r, w) \in 0..(Stride - 1)
<1> DEFINE m == job.num_workers
           d == job.dp_world_size
<1>1. m \in Nat \ {0} /\ d \in Nat \ {0}
  BY JobFacts
<1>2. Stride = d * m
  BY DEF Stride
<1>3. ASSUME NEW r \in Ranks, NEW w \in Workers
      PROVE  FirstSample(r, w) \in 0..(d * m - 1)
  <2>1. r \in 0..(d - 1) /\ w \in 0..(m - 1)
    BY DEF Ranks, Workers
  <2>2. FirstSample(r, w) = r * m + w
    BY DEF FirstSample
  <2> HIDE DEF m, d
  <2>3. r * m \in Nat /\ d * m \in Nat /\ r * m + m <= d * m
    BY <1>1, <2>1
  <2> QED
    BY <1>1, <2>1, <2>2, <2>3
<1>4. d * m \in Nat \ {0}
  <2> HIDE DEF m, d
  <2> QED
    BY <1>1
<1> QED
  BY <1>2, <1>3, <1>4

(* A worker's samples go up with the cursor.                               *)
LEMMA SampleAtGrows ==
  ASSUME job \in Job, NEW r \in Ranks, NEW w \in Workers
  PROVE  /\ \A c \in Nat : SampleAt(r, w, c) \in Nat /\ c <= SampleAt(r, w, c)
         /\ \A b, c \in Nat : b <= c => SampleAt(r, w, b) <= SampleAt(r, w, c)
<1> DEFINE n == Stride
           f == FirstSample(r, w)
<1>1. n \in Nat \ {0} /\ f \in Nat
  BY StrideFacts
<1>2. \A c : SampleAt(r, w, c) = f + c * n
  BY DEF SampleAt
<1> HIDE DEF n, f
<1>3. \A c \in Nat : c * n \in Nat /\ c <= c * n
  BY <1>1
<1>4. \A b, c \in Nat : b <= c => b * n <= c * n
  BY <1>1
<1> QED
  BY <1>1, <1>2, <1>3, <1>4

(* No two places of the ranks and workers read the same sample.            *)
LEMMA SampleAtDistinct ==
  ASSUME job \in Job,
         NEW r \in Ranks, NEW w \in Workers, NEW c \in Nat,
         NEW q \in Ranks, NEW v \in Workers, NEW b \in Nat,
         SampleAt(r, w, c) = SampleAt(q, v, b)
  PROVE  r = q /\ w = v /\ c = b
<1> DEFINE m == job.num_workers
<1>1. /\ m \in Nat \ {0} /\ Stride \in Nat \ {0}
      /\ r \in Int /\ q \in Int /\ w \in 0..(m - 1) /\ v \in 0..(m - 1)
  BY JobFacts, StrideFacts DEF Ranks, Workers
<1>2. FirstSample(r, w) \in 0..(Stride - 1) /\ FirstSample(q, v) \in 0..(Stride - 1)
  BY StrideFacts
<1>3. FirstSample(r, w) + c * Stride = FirstSample(q, v) + b * Stride
  BY DEF SampleAt
<1>4. c = b /\ FirstSample(r, w) = FirstSample(q, v)
  BY <1>1, <1>2, <1>3, Digits
<1>5. r * m + w = q * m + v
  BY <1>4 DEF FirstSample
<1> HIDE DEF m
<1>6. w + r * m = v + q * m
  BY <1>1, <1>5
<1>7. r = q /\ w = v
  BY <1>1, <1>6, Digits
<1> QED
  BY <1>4, <1>7

(* Every sample is at a place of some worker.                              *)
LEMMA PlaceOfSample ==
  ASSUME job \in Job, NEW s \in Nat
  PROVE  \E r \in Ranks, w \in Workers, c \in Nat : s = SampleAt(r, w, c)
<1> DEFINE m == job.num_workers
           d == job.dp_world_size
           c == s \div Stride
           f == s % Stride
           r == f \div m
           w == f % m
<1>1. m \in Nat \ {0} /\ d \in Nat \ {0} /\ Stride \in Nat \ {0} /\ Stride = d * m
  BY JobFacts, StrideFacts DEF Stride
<1>2. c \in Nat /\ f \in 0..(Stride - 1) /\ s = c * Stride + f
  BY <1>1, Division
<1>3. r \in Nat /\ w \in 0..(m - 1) /\ f = r * m + w
  <2> HIDE DEF f, m
  <2>1. f \in Nat /\ m \in Nat \ {0}
    BY <1>1, <1>2
  <2> QED
    BY <2>1, Division
<1> HIDE DEF m, d, c, f, r, w
<1>4. r < d
  <2>1. ASSUME d <= r PROVE FALSE
    <3>1. d * m <= r * m /\ r * m \in Nat
      BY <1>1, <1>3, <2>1
    <3> QED
      BY <1>1, <1>2, <1>3, <3>1
  <2> QED
    BY <1>1, <1>3, <2>1
<1>5. r \in Ranks /\ w \in Workers
  BY <1>1, <1>3, <1>4 DEF Ranks, Workers, d, m
<1>6. s = SampleAt(r, w, c)
  <2>1. FirstSample(r, w) = r * m + w
    BY DEF FirstSample, m
  <2>2. f = FirstSample(r, w)
    BY <1>3, <2>1
  <2>3. f \in Int /\ c * Stride \in Int
    BY <1>1, <1>2
  <2> QED
    BY <1>2, <2>2, <2>3 DEF SampleAt
<1> QED
  BY <1>2, <1>5, <1>6

(* A worker's range is used up at the first sample that the dataset has    *)
(* not (`while sample_idx < self.num_samples`).                            *)
LEMMA OwnFacts ==
  ASSUME job \in Job, NEW r \in Ranks, NEW w \in Workers
  PROVE  /\ OwnSamples(r, w) \in 0..NumSamples
         /\ \A c \in Nat : c < OwnSamples(r, w) <=> SampleAt(r, w, c) < NumSamples
<1> DEFINE n == NumSamples
           S == {c \in 0..n : SampleAt(r, w, c) < n}
<1>1. n \in Nat
  BY JobFacts
<1>2. /\ \A c \in Nat : SampleAt(r, w, c) \in Nat /\ c <= SampleAt(r, w, c)
      /\ \A b, c \in Nat : b <= c => SampleAt(r, w, b) <= SampleAt(r, w, c)
  BY SampleAtGrows
<1>3. OwnSamples(r, w) = Cardinality(S)
  BY DEF OwnSamples
<1> HIDE DEF n
<1>4. S \in SUBSET (0..(0 + (n + 1) - 1)) /\ \A c \in S : \A b \in 0..c : b \in S
  BY <1>1, <1>2
<1>5. Cardinality(S) \in 0..(n + 1) /\ S = 0..(0 + Cardinality(S) - 1)
  <2> HIDE DEF S
  <2> QED
    BY <1>1, <1>4, InitialSegment, 0 \in Int, n + 1 \in Nat
<1>6. \A c \in Nat : c \in S <=> SampleAt(r, w, c) < n
  BY <1>1, <1>2
<1>7. n \notin S
  BY <1>1, <1>2
<1> HIDE DEF S
<1>8. Cardinality(S) \in 0..n /\ \A c \in Nat : c < Cardinality(S) <=> c \in S
  BY <1>1, <1>5, <1>7
<1> QED
  BY <1>3, <1>6, <1>8 DEF n

-----------------------------------------------------------------------------
(* Draws                                                                   *)

(* A set onto which a finite one is mapped one to one has its size.        *)
LEMMA SameSize ==
  ASSUME NEW S, IsFiniteSet(S), NEW T, NEW f \in [S -> T],
         \A i, j \in S : f[i] = f[j] => i = j,
         \A t \in T : \E i \in S : f[i] = t
  PROVE  IsFiniteSet(T) /\ Cardinality(T) = Cardinality(S)
<1>1. f \in Bijection(S, T)
  BY Fun_IsBij
<1>2. ExistsBijection(S, T)
  BY <1>1, Fun_ExistsBij
<1> QED
  BY <1>2, FS_Bijection

(* n draws from cursor a on, out of m samples: the whole rounds before the *)
(* last sample, that sample, and the draws that read sample c.             *)
Rounds(a, n, m) == (a + n - 1) \div m
LastRead(a, n, m) == (a + n - 1) % m
Residues(a, n, m, c) == {i \in 0..(n - 1) : (a + i) % m = c}

(* Whole rounds and last read are a quotient and a remainder.              *)
LEMMA RoundsFacts ==
  ASSUME NEW m \in Nat \ {0}, NEW n \in Nat \ {0}, NEW a \in 0..m
  PROVE  /\ Rounds(a, n, m) \in Nat /\ LastRead(a, n, m) \in 0..(m - 1)
         /\ a + n - 1 = Rounds(a, n, m) * m + LastRead(a, n, m)
         /\ a + n <= m => Rounds(a, n, m) = 0 /\ LastRead(a, n, m) = a + n - 1
<1> DEFINE t == a + n - 1
           q == t \div m
           p == t % m
<1>1. t \in Nat
  OBVIOUS
<1>2. q \in Nat /\ p \in 0..(m - 1) /\ t = q * m + p
  <2> HIDE DEF t
  <2> QED
    BY <1>1, Division
<1> HIDE DEF q, p
<1>3. ASSUME a + n <= m PROVE q = 0 /\ p = t
  <2>1. t \in 0..(m - 1) /\ t = 0 * m + t /\ q * m \in Nat /\ p + q * m = t + 0 * m
    BY <1>1, <1>2, <1>3
  <2> HIDE DEF t
  <2> QED
    BY <1>2, <2>1, Digits
<1> QED
  BY <1>2, <1>3 DEF Rounds, LastRead, q, p

(* A sample c is read once in each whole round, once more if the last      *)
(* round reaches it, and once less if the first began after it.            *)
LEMMA ReadsInRounds ==
  ASSUME NEW m \in Nat \ {0}, NEW n \in Nat \ {0}, NEW a \in 0..m, NEW c \in 0..(m - 1)
  PROVE  /\ IsFiniteSet(Residues(a, n, m, c))
         /\ Cardinality(Residues(a, n, m, c)) + (IF c < a THEN 1 ELSE 0)
              = Rounds(a, n, m) + (IF c <= LastRead(a, n, m) THEN 1 ELSE 0)
<1> DEFINE q == Rounds(a, n, m)
           p == LastRead(a, n, m)
           S == Residues(a, n, m, c)
           first == IF c < a THEN 1 ELSE 0
           last == IF c <= p THEN q ELSE q - 1
           f == [k \in first..last |-> c - a + k * m]
<1>0. q \in Nat /\ p \in 0..(m - 1) /\ a + n - 1 = q * m + p
  BY RoundsFacts
<1> HIDE DEF q, p
<1> USE <1>0
<1>1. first \in 0..1 /\ last \in Int
  OBVIOUS
<1>2. \A k \in Nat : k * m \in Nat
  OBVIOUS
<1>3. \A k, l \in Nat : k < l => k * m + m <= l * m
  OBVIOUS
<1>4. first <= last + 1
  <2>1. q = 0 => q * m = 0
    OBVIOUS
  <2> QED
    BY <1>2, <2>1
<1>5. ASSUME NEW k \in first..last PROVE f[k] \in S
  <2>1. k \in Nat /\ k * m \in Nat
    BY <1>1, <1>2, <1>5
  <2>2. c - a + k * m >= 0
    <3>1. k >= 1 => m <= k * m
      BY <1>3, <2>1
    <3>2. k = 0 => a <= c
      BY <1>5
    <3> QED
      BY <2>1, <3>1, <3>2
  <2>3. c + k * m <= q * m + p
    <3>1. CASE k = q
      <4>1. c <= p
        BY <1>5, <3>1
      <4> QED
        BY <1>2, <3>1, <4>1
    <3>2. CASE k < q
      BY <1>2, <1>3, <2>1, <3>2
    <3>3. k <= q
      BY <1>5
    <3> QED
      BY <2>1, <3>1, <3>2, <3>3
  <2>4. (c + k * m) % m = c
    <3> DEFINE t == c + k * m
    <3>1. t \in Nat
      BY <2>1
    <3>2. t \div m \in Nat /\ t % m \in 0..(m - 1) /\ t = (t \div m) * m + (t % m)
      BY <3>1, Division
    <3> DEFINE u == t \div m
               v == t % m
    <3>3. u * m \in Nat /\ v + u * m = c + k * m
      <4> HIDE DEF u, v
      <4> QED
        BY <1>2, <2>1, <3>2 DEF u, v
    <3>4. u \in Int /\ v \in 0..(m - 1) /\ k \in Int
      BY <2>1, <3>2
    <3> HIDE DEF t, u, v
    <3>5. v = c
      BY <3>3, <3>4, Digits
    <3> QED
      BY <3>5 DEF t, v
  <2>5. c - a + k * m \in 0..(n - 1) /\ a + (c - a + k * m) = c + k * m
    BY <1>2, <2>1, <2>2, <2>3
  <2> QED
    BY <1>5, <2>4, <2>5 DEF Residues
<1>6. \A k, l \in first..last : f[k] = f[l] => k = l
  <2> SUFFICES ASSUME NEW k \in first..last, NEW l \in first..last, f[k] = f[l]
               PROVE  k = l
    OBVIOUS
  <2>1. k \in Nat /\ l \in Nat /\ k * m \in Nat /\ l * m \in Nat
    BY <1>1, <1>2
  <2>2. k * m = l * m
    BY <2>1
  <2> QED
    BY <1>3, <2>1, <2>2
<1>7. ASSUME NEW i \in S PROVE \E k \in first..last : f[k] = i
  <2> DEFINE t == a + i
             k == t \div m
  <2>1. t \in Nat /\ t % m = c /\ a <= t /\ t <= a + n - 1 /\ i = t - a
    BY <1>7 DEF Residues
  <2>2. k \in Nat /\ t = k * m + c
    <3> HIDE DEF t
    <3> QED
      BY <2>1, Division
  <2> HIDE DEF t, k
  <2>3. k * m \in Nat /\ q * m \in Nat
    BY <1>2, <2>2
  <2>4. first <= k
    <3>1. k = 0 => k * m = 0
      OBVIOUS
    <3> QED
      BY <2>1, <2>2, <2>3, <3>1
  <2>5. k <= last
    <3>1. ~(q < k)
      BY <1>3, <2>1, <2>2, <2>3
    <3>2. k = q => c <= p
      BY <2>1, <2>2, <2>3
    <3> QED
      BY <2>2, <3>1, <3>2
  <2>6. k \in first..last
    BY <1>1, <2>2, <2>4, <2>5
  <2>7. c - a + k * m = i
    BY <2>1, <2>2, <2>3
  <2> QED
    BY <2>6, <2>7
<1>8. IsFiniteSet(first..last) /\ Cardinality(first..last) = last - first + 1
  <2> HIDE DEF first, last
  <2>1. first \in Int /\ last \in Int
    BY <1>1
  <2>2. /\ IsFiniteSet(first..last)
        /\ Cardinality(first..last) = IF first > last THEN 0 ELSE last - first + 1
    BY <2>1, FS_Interval
  <2> QED
    BY <1>4, <2>1, <2>2
<1>9. IsFiniteSet(S) /\ Cardinality(S) = last - first + 1
  <2> DEFINE D == first..last
  <2>1. f \in [D -> S]
    BY <1>5
  <2>2. IsFiniteSet(D) /\ Cardinality(D) = last - first + 1
    BY <1>8
  <2>3. \A i, j \in D : f[i] = f[j] => i = j
    BY <1>6
  <2>4. \A t \in S : \E i \in D : f[i] = t
    BY <1>7
  <2> HIDE DEF S, D, first, last, f
  <2>5. IsFiniteSet(S) /\ Cardinality(S) = Cardinality(D)
    BY <2>1, <2>2, <2>3, <2>4, SameSize
  <2> QED
    BY <2>2, <2>5
<1> HIDE DEF S
<1>10. Cardinality(S) + first = q + (IF c <= p THEN 1 ELSE 0)
  <2>1. last + 1 = q + (IF c <= p THEN 1 ELSE 0)
    OBVIOUS
  <2> HIDE DEF first, last
  <2>2. Cardinality(S) + first = last + 1
    BY <1>1, <1>9
  <2> QED
    BY <2>1, <2>2
<1> QED
  BY <1>9, <1>10 DEF q, p, S

(* A batch is never empty nor too large, and ends with a finite range.     *)
LEMMA BatchFacts ==
  ASSUME job \in Job, NEW r \in Ranks, NEW w \in Available(r),
         cursor[r][w] \in 0..OwnSamples(r, w)
  PROVE  /\ w \in Workers /\ BatchLen(r, w) \in 1..job.batch_size
         /\ job.infinite \/ cursor[r][w] + BatchLen(r, w) <= OwnSamples(r, w)
<1>1. job.batch_size \in Nat \ {0} /\ job.infinite \in BOOLEAN
  BY JobFacts
<1>2. w \in Workers /\ BatchLen(r, w) > 0
  BY DEF Available
<1>3. OwnSamples(r, w) \in Nat
  BY <1>2, JobFacts, OwnFacts
<1> QED
  BY <1>1, <1>2, <1>3 DEF BatchLen

(* The cursor stands after the last sample of the batch (`cursor += 1`     *)
(* before the yield, `cursor = 0` only when another sample is asked for).  *)
LEMMA CursorAfterLast ==
  ASSUME NEW r, NEW w, OwnSamples(r, w) \in Nat \ {0},
         NEW a \in 0..OwnSamples(r, w), NEW n \in Nat \ {0}
  PROVE  CursorAfter(r, w, a, n) = LastRead(a, n, OwnSamples(r, w)) + 1
<1> DEFINE m == OwnSamples(r, w)
<1>1. CASE a + n <= m
  <2>1. LastRead(a, n, m) = a + n - 1
    BY <1>1, RoundsFacts
  <2> QED
    BY <1>1, <2>1 DEF CursorAfter
<1>2. CASE ~(a + n <= m)
  BY <1>2 DEF CursorAfter, LastRead
<1> QED
  BY <1>1, <1>2

(* A draw reads a sample of the worker's own range.                        *)
LEMMA DrawnPlace ==
  ASSUME job \in Job, NEW r \in Ranks, NEW w \in Workers, OwnSamples(r, w) # 0,
         cursor[r][w] \in Nat, NEW i \in Nat
  PROVE  LET b == (cursor[r][w] + i) % OwnSamples(r, w)
         IN  /\ b \in Nat
             /\ Index(Drawn(r, w, i)) = SampleAt(r, w, b)
             /\ SampleAt(r, w, b) < NumSamples
<1> DEFINE m == OwnSamples(r, w)
           b == (cursor[r][w] + i) % m
<1>1. m \in Nat \ {0}
  BY JobFacts, OwnFacts
<1>2. b \in 0..(m - 1)
  <2>1. cursor[r][w] + i \in Nat
    OBVIOUS
  <2> HIDE DEF m
  <2> QED
    BY <1>1, <2>1, Division
<1>3. Drawn(r, w, i) = Window(SampleAt(r, w, b))
  BY DEF Drawn
<1> HIDE DEF m, b
<1>4. b \in Nat /\ b < OwnSamples(r, w)
  BY <1>1, <1>2 DEF m
<1>5. SampleAt(r, w, b) \in Nat /\ SampleAt(r, w, b) < NumSamples
  BY <1>4, OwnFacts, SampleAtGrows
<1>6. SampleAt(r, w, b) \in 0..(TotalSamples - 1)
  BY <1>5, JobFacts
<1>7. Index(Window(SampleAt(r, w, b))) = SampleAt(r, w, b)
  BY <1>6, WindowOfSample
<1> QED
  BY <1>3, <1>4, <1>5, <1>7 DEF b, m

(* What a step of the job can assume of the workers it turns to.           *)
Turned(turn) ==
  /\ turn \in [Ranks -> Workers]
  /\ \A r \in Ranks :
       /\ OwnSamples(r, turn[r]) # 0
       /\ cursor[r][turn[r]] \in 0..OwnSamples(r, turn[r])
       /\ BatchLen(r, turn[r]) \in 1..job.batch_size

(* The worker a rank turns to has samples, a cursor and a batch in bounds. *)
LEMMA TurnedFacts ==
  ASSUME job \in Job, NEW turn, Turned(turn), NEW r \in Ranks
  PROVE  /\ turn[r] \in Workers /\ OwnSamples(r, turn[r]) \in Nat \ {0}
         /\ cursor[r][turn[r]] \in 0..OwnSamples(r, turn[r])
         /\ BatchLen(r, turn[r]) \in 1..job.batch_size /\ job.batch_size \in Nat
<1>1. /\ turn[r] \in Workers /\ OwnSamples(r, turn[r]) # 0
      /\ cursor[r][turn[r]] \in 0..OwnSamples(r, turn[r])
      /\ BatchLen(r, turn[r]) \in 1..job.batch_size
  BY DEF Turned
<1>2. OwnSamples(r, turn[r]) \in Nat /\ job.batch_size \in Nat
  BY <1>1, OwnFacts, JobFacts
<1> QED
  BY <1>1, <1>2

(* The draws that read a window.                                           *)
DrawsOf(turn, x) == {d \in Draws(turn) : Drawn(d[1], turn[d[1]], d[2]) = x}

(* A step draws finitely often.                                            *)
LEMMA DrawsFinite ==
  ASSUME job \in Job, NEW turn, NEW x
  PROVE  IsFiniteSet(DrawsOf(turn, x)) /\ Cardinality(DrawsOf(turn, x)) \in Nat
<1>1. job.dp_world_size - 1 \in Int /\ job.batch_size - 1 \in Int
  BY JobFacts
<1>2. IsFiniteSet(Ranks) /\ IsFiniteSet(0..(job.batch_size - 1))
  BY <1>1, FS_Interval DEF Ranks
<1>3. IsFiniteSet(Ranks \X (0..(job.batch_size - 1)))
  BY <1>2, FS_Product
<1>4. DrawsOf(turn, x) \in SUBSET (Ranks \X (0..(job.batch_size - 1)))
  BY DEF DrawsOf, Draws
<1> QED
  BY <1>3, <1>4, FS_Subset, FS_CardinalityType

(* A window beyond num_samples is never drawn.                             *)
LEMMA BeyondUndrawn ==
  ASSUME job \in Job, NEW turn, Turned(turn), NEW x, Index(x) >= NumSamples
  PROVE  DrawsOf(turn, x) = {}
<1> SUFFICES ASSUME NEW d \in DrawsOf(turn, x) PROVE FALSE
  OBVIOUS
<1>1. /\ d[1] \in Ranks /\ d[2] \in 0..(job.batch_size - 1)
      /\ Drawn(d[1], turn[d[1]], d[2]) = x
  BY DEF DrawsOf, Draws
<1>2. /\ turn[d[1]] \in Workers /\ OwnSamples(d[1], turn[d[1]]) # 0
      /\ cursor[d[1]][turn[d[1]]] \in Nat /\ d[2] \in Nat
  BY <1>1, TurnedFacts
<1>3. Index(x) < NumSamples
  BY <1>1, <1>2, DrawnPlace
<1>4. NumSamples \in Nat
  BY JobFacts
<1>5. Index(x) \in Nat
  BY <1>1, <1>2, DrawnPlace, SampleAtGrows
<1> QED
  BY <1>3, <1>4, <1>5

(* Only the worker that has a sample draws its window, when its cursor     *)
(* gets there.                                                             *)
LEMMA DrawsOfSample ==
  ASSUME job \in Job, NEW turn, Turned(turn),
         NEW r \in Ranks, NEW w \in Workers, NEW c \in 0..(OwnSamples(r, w) - 1),
         NEW d \in Draws(turn)
  PROVE  Drawn(d[1], turn[d[1]], d[2]) = Window(SampleAt(r, w, c)) <=>
           d[1] = r /\ turn[r] = w /\ (cursor[r][w] + d[2]) % OwnSamples(r, w) = c
<1> DEFINE q == d[1]
           v == turn[d[1]]
           b == (cursor[q][v] + d[2]) % OwnSamples(q, v)
<1>1. q \in Ranks /\ d[2] \in 0..(job.batch_size - 1)
  BY DEF Draws
<1>2. v \in Workers /\ OwnSamples(q, v) # 0 /\ cursor[q][v] \in Nat /\ d[2] \in Nat
  BY <1>1, TurnedFacts
<1>3. /\ b \in Nat /\ Index(Drawn(q, v, d[2])) = SampleAt(q, v, b)
      /\ SampleAt(q, v, b) < NumSamples
  BY <1>1, <1>2, DrawnPlace
<1>4. Drawn(q, v, d[2]) = Window(SampleAt(q, v, b))
  BY DEF Drawn
<1>5. c \in Nat /\ c < OwnSamples(r, w)
  BY OwnFacts, JobFacts
<1>6. SampleAt(r, w, c) \in Nat /\ SampleAt(r, w, c) < NumSamples
  BY <1>5, OwnFacts, SampleAtGrows
<1>7. SampleAt(r, w, c) \in 0..(TotalSamples - 1)
  BY <1>6, JobFacts
<1>8. Index(Window(SampleAt(r, w, c))) = SampleAt(r, w, c)
  BY <1>7, WindowOfSample
<1> HIDE DEF b
<1>9. Drawn(q, v, d[2]) = Window(SampleAt(r, w, c)) => q = r /\ v = w /\ b = c
  BY <1>1, <1>2, <1>3, <1>5, <1>8, SampleAtDistinct
<1>10. q = r /\ v = w /\ b = c => Drawn(q, v, d[2]) = Window(SampleAt(r, w, c))
  BY <1>4
<1>11. q = r /\ v = w /\ b = c <=>
         q = r /\ turn[r] = w /\ (cursor[r][w] + d[2]) % OwnSamples(r, w) = c
  BY DEF b
<1> QED
  BY <1>9, <1>10, <1>11

(* How often the worker that is turned to reads one of its samples.        *)
LEMMA DrawsHere ==
  ASSUME job \in Job, NEW turn, Turned(turn),
         NEW r \in Ranks, NEW w \in Workers, NEW c \in 0..(OwnSamples(r, w) - 1), turn[r] = w
  PROVE  Cardinality(DrawsOf(turn, Window(SampleAt(r, w, c)))) =
           Cardinality(Residues(cursor[r][w], BatchLen(r, w), OwnSamples(r, w), c))
<1> DEFINE m == OwnSamples(r, w)
           a == cursor[r][w]
           n == BatchLen(r, w)
           D == DrawsOf(turn, Window(SampleAt(r, w, c)))
           S == Residues(a, n, m, c)
           f == [i \in S |-> <<r, i>>]
<1>1. m \in Nat \ {0} /\ a \in 0..m /\ n \in 1..job.batch_size /\ job.batch_size \in Nat
  BY TurnedFacts
<1>2. \A d \in Draws(turn) : d \in D <=> d[1] = r /\ (a + d[2]) % m = c
  BY DrawsOfSample DEF DrawsOf
<1>3. D \subseteq Draws(turn)
  BY DEF DrawsOf
<1>4. IsFiniteSet(S)
  <2>1. n \in Nat \ {0} /\ c \in 0..(m - 1)
    BY <1>1
  <2> HIDE DEF m, a, n
  <2> QED
    BY <1>1, <2>1, ReadsInRounds
<1> HIDE DEF m, a, D
<1>5. \A i \in S : i \in 0..(n - 1) /\ (a + i) % m = c
  BY DEF Residues
<1>6. \A i \in S : <<r, i>> \in Draws(turn)
  BY <1>1, <1>5 DEF Draws
<1>7. f \in [S -> D]
  <2> HIDE DEF S
  <2> QED
    BY <1>2, <1>5, <1>6
<1>8. \A i, j \in S : f[i] = f[j] => i = j
  OBVIOUS
<1>9. ASSUME NEW d \in D PROVE \E i \in S : f[i] = d
  <2>1. d \in Draws(turn) /\ d[1] = r /\ (a + d[2]) % m = c
    BY <1>2, <1>3
  <2>2. d = <<r, d[2]>> /\ d[2] \in 0..(job.batch_size - 1) /\ d[2] < n
    BY <2>1 DEF Draws
  <2>3. d[2] \in S
    BY <1>1, <2>1, <2>2 DEF Residues
  <2>4. f[d[2]] = d
    BY <2>2, <2>3
  <2> QED
    BY <2>3, <2>4
<1>10. Cardinality(D) = Cardinality(S)
  <2> HIDE DEF S, f
  <2> QED
    BY <1>4, <1>7, <1>8, <1>9, SameSize
<1> QED
  BY <1>10 DEF D, a, m

(* The weights' count of a worker's windows goes on with its cursor.       *)
LEMMA EpochsGoOn ==
  ASSUME job \in Job, NEW turn, Turned(turn), NEW r \in Ranks, NEW w \in Workers,
         seen \in [Windows -> Nat], Epochs(r, w, cursor[r][w], seen),
         NEW counts,
         counts = [x \in Windows |-> seen[x] + Cardinality(DrawsOf(turn, x))],
         turn[r] = w,
         job.infinite \/ cursor[r][w] + BatchLen(r, w) <= OwnSamples(r, w)
  PROVE  LET c == CursorAfter(r, w, cursor[r][w], BatchLen(r, w))
         IN  c \in 0..OwnSamples(r, w) /\ Epochs(r, w, c, counts)
<1> DEFINE m == OwnSamples(r, w)
           a == cursor[r][w]
           n == BatchLen(r, w)
           Win(c) == Window(SampleAt(r, w, c))
<1>1. m \in Nat \ {0} /\ a \in 0..m /\ n \in Nat \ {0}
  BY TurnedFacts
<1> DEFINE q == Rounds(a, n, m)
           p == LastRead(a, n, m)
<1>2. /\ q \in Nat /\ p \in 0..(m - 1) /\ CursorAfter(r, w, a, n) = p + 1
      /\ a + n <= m => q = 0
  <2>1. CursorAfter(r, w, a, n) = p + 1
    BY <1>1, CursorAfterLast
  <2> HIDE DEF m, a, n
  <2> QED
    BY <1>1, <2>1, RoundsFacts
<1> HIDE DEF a, n, Win, q, p
<1>3. PICK e \in Nat : /\ job.infinite \/ e = 0
                       /\ \A c \in 0..(m - 1) : seen[Win(c)] = e + (IF c < a THEN 1 ELSE 0)
  BY DEF Epochs, a, Win
<1>4. job.infinite \/ e + q = 0
  BY <1>2, <1>3 DEF a, n
<1>5. ASSUME NEW c \in 0..(m - 1)
      PROVE  counts[Win(c)] = (e + q) + (IF c < p + 1 THEN 1 ELSE 0)
  <2>1. Win(c) \in Windows
    <3>1. c \in Nat /\ c < m
      BY <1>1
    <3>2. SampleAt(r, w, c) \in Nat /\ SampleAt(r, w, c) < NumSamples
      BY <3>1, OwnFacts, SampleAtGrows
    <3> QED
      BY <3>2, JobFacts, WindowOfSample DEF Win
  <2>2. Cardinality(DrawsOf(turn, Win(c))) + (IF c < a THEN 1 ELSE 0)
          = q + (IF c <= p THEN 1 ELSE 0)
    <3>1. Cardinality(DrawsOf(turn, Win(c))) = Cardinality(Residues(a, n, m, c))
      BY DrawsHere DEF a, n, Win
    <3> QED
      BY <1>1, <3>1, ReadsInRounds DEF q, p
  <2>3. Cardinality(DrawsOf(turn, Win(c))) \in Nat
    BY DrawsFinite
  <2>4. counts[Win(c)] = seen[Win(c)] + Cardinality(DrawsOf(turn, Win(c)))
    BY <2>1
  <2> HIDE DEF m
  <2> QED
    BY <1>1, <1>2, <1>3, <2>2, <2>3, <2>4
<1>6. e + q \in Nat
  BY <1>2, <1>3
<1>7. Epochs(r, w, p + 1, counts)
  BY <1>4, <1>5, <1>6 DEF Epochs, Win
<1> QED
  BY <1>1, <1>2, <1>7 DEF a, n

(* No other worker's do.                                                   *)
LEMMA EpochsStay ==
  ASSUME job \in Job, NEW turn, Turned(turn), NEW r \in Ranks, NEW w \in Workers,
         seen \in [Windows -> Nat], NEW c, Epochs(r, w, c, seen),
         NEW counts,
         counts = [x \in Windows |-> seen[x] + Cardinality(DrawsOf(turn, x))],
         turn[r] # w
  PROVE  Epochs(r, w, c, counts)
<1> DEFINE Win(k) == Window(SampleAt(r, w, k))
<1>1. ASSUME NEW k \in 0..(OwnSamples(r, w) - 1) PROVE counts[Win(k)] = seen[Win(k)]
  <2>1. k \in Nat /\ k < OwnSamples(r, w)
    BY OwnFacts, JobFacts
  <2>2. SampleAt(r, w, k) \in Nat /\ SampleAt(r, w, k) < NumSamples
    BY <2>1, OwnFacts, SampleAtGrows
  <2>3. Win(k) \in Windows
    BY <2>2, JobFacts, WindowOfSample
  <2>4. DrawsOf(turn, Win(k)) = {}
    BY DrawsOfSample DEF DrawsOf
  <2>5. seen[Win(k)] \in Nat
    BY <2>3
  <2>6. Cardinality(DrawsOf(turn, Win(k))) = 0
    BY <2>4, FS_EmptySet
  <2> HIDE DEF Win
  <2> QED
    BY <2>3, <2>5, <2>6
<1> QED
  BY <1>1 DEF Epochs

-----------------------------------------------------------------------------
(* The invariant                                                           *)

(* The dataset is the job's, which no step changes.                        *)
LEMMA SameJob ==
  ASSUME job' = job
  PROVE  /\ Ranks' = Ranks /\ Workers' = Workers /\ Windows' = Windows
         /\ NumSamples' = NumSamples
         /\ \A r, w : OwnSamples(r, w)' = OwnSamples(r, w)
         /\ \A r, w : FirstSample(r, w)' = FirstSample(r, w)
         /\ \A r, w, c : Window(SampleAt(r, w, c))' = Window(SampleAt(r, w, c))
         /\ \A x : Index(x)' = Index(x)
BY DEF Ranks, Workers, Windows, NumSamples, TotalSamples, Shards, Cumulative,
       OwnSamples, FirstSample, SampleAt, Stride, Window, Bisect, Index

(* As the job stays, what was read is told by the cursors and the counts.  *)
LEMMA SameReads ==
  ASSUME job' = job
  PROVE  /\ Reads(cursor, seen)' <=> Reads(cursor', seen')
         /\ Reads(snapshot.cursor, snapshot.seen)' <=> Reads(snapshot'.cursor, snapshot'.seen)
BY SameJob DEF Reads, Epochs

(* A step that keeps the job is well typed if what it assigns is.          *)
LEMMA SameTypes ==
  ASSUME job' = job, TypeOK,
         phase' \in {"down", "training", "done", "exhausted", "refused", "error"},
         cursor' \in [Ranks -> [Workers -> 0..NumSamples]],
         \A r \in Ranks, w \in Workers : cursor'[r][w] <= OwnSamples(r, w),
         taken' \in 0..job.steps, seen' \in [Windows -> Nat],
         snapshot' \in [cursor: [Ranks -> [Workers -> 0..NumSamples]],
                        taken: 0..job.steps, seen: [Windows -> Nat]],
         crashes' \in 0..MaxCrashes
  PROVE  TypeOK'
BY SameJob DEF TypeOK

(* Nothing was read when the job is set up.                                *)
LEMMA InitIInv == Init => IInv
<1> SUFFICES ASSUME Init PROVE IInv
  OBVIOUS
<1>1. job \in Job /\ job \in Jobs
  BY PackedAssumption DEF Init
<1>2. NumSamples \in Nat /\ job.steps \in Nat
  BY <1>1, JobFacts
<1>3. \A r \in Ranks, w \in Workers : OwnSamples(r, w) \in Nat
  BY <1>1, OwnFacts, JobFacts
<1> DEFINE zero == [x \in Windows |-> 0]
<1>4. NoCursor \in [Ranks -> [Workers -> 0..NumSamples]]
  BY <1>2 DEF NoCursor
<1>5. \A r \in Ranks, w \in Workers : NoCursor[r][w] = 0
  BY DEF NoCursor
<1>6. TypeOK
  BY <1>1, <1>2, <1>3, <1>4, <1>5, PackedAssumption DEF Init, TypeOK
<1>7. Reads(NoCursor, zero)
  <2>1. ASSUME NEW r \in Ranks, NEW w \in Workers PROVE Epochs(r, w, 0, zero)
    <3>1. ASSUME NEW k \in 0..(OwnSamples(r, w) - 1)
          PROVE  zero[Window(SampleAt(r, w, k))] = 0 + (IF k < 0 THEN 1 ELSE 0)
      <4>1. k \in Nat /\ k < OwnSamples(r, w)
        BY <1>3
      <4>2. SampleAt(r, w, k) \in Nat /\ SampleAt(r, w, k) < NumSamples
        BY <1>1, <4>1, OwnFacts, SampleAtGrows
      <4>3. SampleAt(r, w, k) \in 0..(TotalSamples - 1)
        BY <1>1, <4>2, JobFacts
      <4>4. Window(SampleAt(r, w, k)) \in Windows
        BY <1>1, <4>3, WindowOfSample
      <4> QED
        BY <4>1, <4>4
    <3> HIDE DEF zero
    <3> QED
      BY <3>1 DEF Epochs
  <2>2. \A x \in Windows : zero[x] = 0
    OBVIOUS
  <2> HIDE DEF zero
  <2> QED
    BY <1>3, <1>5, <2>1, <2>2 DEF Reads
<1>8. Reads(cursor, seen) /\ Reads(snapshot.cursor, snapshot.seen)
  BY <1>7 DEF Init
<1>9. Supplied
  BY DEF Init, Supplied
<1> QED
  BY <1>6, <1>8, <1>9 DEF IInv

(* A worker that is turned to has samples, and a batch to send.            *)
LEMMA StepTurns ==
  ASSUME IInv, phase = "training",
         NEW turn \in [Ranks -> Workers], \A r \in Ranks : turn[r] \in Available(r)
  PROVE  /\ Turned(turn)
         /\ \A r \in Ranks : \/ job.infinite
                             \/ cursor[r][turn[r]] + BatchLen(r, turn[r]) <= OwnSamples(r, turn[r])
<1>1. job \in Job
  BY PackedAssumption DEF IInv, TypeOK
<1>2. ASSUME NEW r \in Ranks
      PROVE  /\ OwnSamples(r, turn[r]) # 0
             /\ cursor[r][turn[r]] \in 0..OwnSamples(r, turn[r])
             /\ BatchLen(r, turn[r]) \in 1..job.batch_size
             /\ job.infinite \/ cursor[r][turn[r]] + BatchLen(r, turn[r]) <= OwnSamples(r, turn[r])
  <2> DEFINE w == turn[r]
  <2>1. w \in Workers /\ w \in Available(r)
    OBVIOUS
  <2>2. FirstSample(r, w) < NumSamples
    BY <2>1 DEF IInv, Supplied
  <2>3. SampleAt(r, w, 0) = FirstSample(r, w)
    BY <1>1, <2>1, StrideFacts DEF SampleAt
  <2>4. OwnSamples(r, w) # 0
    BY <1>1, <2>1, <2>2, <2>3, OwnFacts
  <2>5. OwnSamples(r, w) \in Nat
    BY <1>1, <2>1, OwnFacts, JobFacts
  <2>6. cursor[r][w] \in 0..OwnSamples(r, w)
    BY <2>1, <2>5 DEF IInv, TypeOK
  <2> HIDE DEF w
  <2>7. /\ BatchLen(r, w) \in 1..job.batch_size
        /\ job.infinite \/ cursor[r][w] + BatchLen(r, w) <= OwnSamples(r, w)
    BY <1>1, <2>1, <2>6, BatchFacts
  <2> QED
    BY <2>4, <2>6, <2>7 DEF w
<1> QED
  BY <1>2 DEF Turned

(* A training step moves the cursors over what it reads.                   *)
LEMMA TrainStepKeeps == IInv /\ TrainStep => IInv'
<1> SUFFICES ASSUME IInv, TrainStep PROVE IInv'
  OBVIOUS
<1>1. job \in Job /\ job' = job /\ TypeOK
  BY PackedAssumption DEF IInv, TypeOK, TrainStep
<1>2. PICK turn \in [Ranks -> Workers] :
        /\ \A r \in Ranks : turn[r] \in Available(r)
        /\ seen' = [x \in Windows |-> seen[x] +
                      Cardinality({d \in Draws(turn) : Drawn(d[1], turn[d[1]], d[2]) = x})]
        /\ cursor' = [r \in Ranks |->
             [cursor[r] EXCEPT ![turn[r]] =
                CursorAfter(r, turn[r], @, BatchLen(r, turn[r]))]]
  BY DEF TrainStep
<1>3. seen' = [x \in Windows |-> seen[x] + Cardinality(DrawsOf(turn, x))]
  BY <1>2 DEF DrawsOf
<1>4. /\ Turned(turn)
      /\ \A r \in Ranks : \/ job.infinite
                          \/ cursor[r][turn[r]] + BatchLen(r, turn[r]) <= OwnSamples(r, turn[r])
  BY <1>2, StepTurns DEF TrainStep
<1>5. /\ seen \in [Windows -> Nat]
      /\ cursor \in [Ranks -> [Workers -> 0..NumSamples]]
  BY <1>1 DEF TypeOK
<1>6. ASSUME NEW r \in Ranks, NEW w \in Workers
      PROVE  cursor'[r][w] \in 0..OwnSamples(r, w) /\ Epochs(r, w, cursor'[r][w], seen')
  <2>1. cursor[r][w] \in 0..OwnSamples(r, w) /\ Epochs(r, w, cursor[r][w], seen)
    BY <1>1, <1>5 DEF IInv, Reads
  <2>2. CASE turn[r] = w
    <3>1. cursor'[r][w] = CursorAfter(r, w, cursor[r][w], BatchLen(r, w))
      BY <1>2, <1>5, <2>2
    <3>2. job.infinite \/ cursor[r][w] + BatchLen(r, w) <= OwnSamples(r, w)
      BY <1>4, <2>2
    <3> QED
      BY <1>1, <1>3, <1>4, <1>5, <2>1, <2>2, <3>1, <3>2, EpochsGoOn
  <2>3. CASE turn[r] # w
    <3>1. cursor'[r][w] = cursor[r][w]
      BY <1>2, <1>5, <2>3
    <3> QED
      BY <1>1, <1>3, <1>4, <1>5, <2>1, <2>3, <3>1, EpochsStay
  <2> QED
    BY <2>2, <2>3
<1>7. ASSUME NEW x \in Windows, Index(x) >= NumSamples PROVE seen'[x] = 0
  <2>1. seen[x] = 0
    BY <1>7 DEF IInv, Reads
  <2>2. Cardinality(DrawsOf(turn, x)) = 0
    BY <1>1, <1>4, <1>7, BeyondUndrawn, FS_EmptySet
  <2> QED
    BY <1>3, <2>1, <2>2
<1>8. \A r \in Ranks, w \in Workers : cursor'[r][w] <= OwnSamples(r, w)
  <2>1. ASSUME NEW r \in Ranks, NEW w \in Workers PROVE cursor'[r][w] <= OwnSamples(r, w)
    BY <1>1, <1>6, OwnFacts, JobFacts
  <2> QED
    BY <2>1
<1>9. Reads(cursor', seen')
  BY <1>6, <1>7, <1>8 DEF Reads
<1>10. TypeOK'
  <2>1. cursor' \in [Ranks -> [Workers -> 0..NumSamples]]
    <3>1. ASSUME NEW r \in Ranks, NEW w \in Workers PROVE cursor'[r][w] \in 0..NumSamples
      <4>1. OwnSamples(r, w) \in 0..NumSamples /\ NumSamples \in Nat
        BY <1>1, OwnFacts, JobFacts
      <4> QED
        BY <1>6, <4>1
    <3>2. \A r \in Ranks : cursor'[r] \in [Workers -> 0..NumSamples]
      <4>1. \A r \in Ranks : cursor'[r] = [w \in Workers |-> cursor'[r][w]]
        BY <1>2, <1>5
      <4> QED
        BY <3>1, <4>1
    <3> QED
      BY <1>2, <3>2
  <2>2. seen' \in [Windows -> Nat]
    <3>1. \A x \in Windows : seen[x] + Cardinality(DrawsOf(turn, x)) \in Nat
      BY <1>1, <1>5, DrawsFinite
    <3> QED
      BY <1>3, <3>1
  <2>3. taken' \in 0..job.steps
    BY <1>1, JobFacts DEF TypeOK, TrainStep
  <2> QED
    BY <1>1, <1>8, <2>1, <2>2, <2>3, SameTypes DEF TypeOK, TrainStep
<1>11. Reads(snapshot'.cursor, snapshot'.seen)
  BY DEF TrainStep, IInv
<1>12. Supplied'
  BY <1>1, SameJob DEF Supplied, IInv, TrainStep
<1> QED
  BY <1>1, <1>9, <1>10, <1>11, <1>12, SameReads DEF IInv

(* The other steps copy the cursors and the counts together, or neither.   *)
LEMMA NextIInv == IInv /\ [Next]_vars => IInv'
<1> SUFFICES ASSUME IInv, [Next]_vars PROVE IInv'
  OBVIOUS
<1>1. TypeOK /\ job \in Job
  BY PackedAssumption DEF IInv, TypeOK
<1>2. Reads(cursor, seen) /\ Reads(snapshot.cursor, snapshot.seen) /\ Supplied
  BY DEF IInv
<1>3. CASE TrainStep
  BY <1>3, TrainStepKeeps
<1>4. ASSUME job' = job, phase' \in {"down", "done", "exhausted", "refused", "error", phase},
             <<cursor, taken, seen, snapshot>>' = <<cursor, taken, seen, snapshot>>,
             crashes' \in 0..MaxCrashes
      PROVE  IInv'
  <2>1. TypeOK'
    BY <1>1, <1>4, SameTypes DEF TypeOK
  <2>2. Reads(cursor', seen') /\ Reads(snapshot'.cursor, snapshot'.seen)
    BY <1>2, <1>4
  <2>3. Supplied'
    BY <1>2, <1>4, SameJob DEF Supplied
  <2> QED
    BY <1>4, <2>1, <2>2, <2>3, SameReads DEF IInv
<1>5. crashes \in 0..MaxCrashes /\ MaxCrashes \in Nat
  BY <1>1, PackedAssumption DEF TypeOK
<1>6. CASE Refuse
  BY <1>4, <1>5, <1>6 DEF Refuse
<1>7. CASE IterRaises
  BY <1>4, <1>5, <1>7 DEF IterRaises
<1>8. CASE Exhausted
  BY <1>4, <1>5, <1>8 DEF Exhausted
<1>9. CASE Done
  BY <1>4, <1>5, <1>9 DEF Done
<1>10. CASE Crash
  BY <1>4, <1>5, <1>10 DEF Crash
<1>11. CASE Stopped \/ UNCHANGED vars
  BY <1>4, <1>5, <1>11 DEF Stopped, vars
<1>12. CASE Launch
  <2>1. /\ job' = job /\ phase' = "training" /\ cursor' = snapshot.cursor
        /\ taken' = snapshot.taken /\ seen' = snapshot.seen /\ snapshot' = snapshot
        /\ crashes' = crashes
    BY <1>12 DEF Launch
  <2>2. Reads(cursor', seen') /\ Reads(snapshot'.cursor, snapshot'.seen)
    BY <1>2, <2>1
  <2>3. \A r \in Ranks, w \in Workers : cursor'[r][w] <= OwnSamples(r, w)
    BY <2>2 DEF Reads
  <2>4. TypeOK'
    BY <1>1, <2>1, <2>3, SameTypes DEF TypeOK
  <2>5. Supplied'
    BY <1>12, <2>1, SameJob DEF Supplied, Launch
  <2> QED
    BY <2>1, <2>2, <2>4, <2>5, SameReads DEF IInv
<1>13. CASE Save
  <2>1. /\ job' = job /\ phase' = phase /\ cursor' = cursor /\ taken' = taken
        /\ seen' = seen /\ crashes' = crashes
        /\ snapshot' = [cursor |-> cursor, taken |-> taken, seen |-> seen]
    BY <1>13 DEF Save
  <2>2. Reads(cursor', seen') /\ Reads(snapshot'.cursor, snapshot'.seen)
    BY <1>2, <2>1
  <2>3. TypeOK'
    BY <1>1, <2>1, SameTypes DEF TypeOK
  <2>4. Supplied'
    BY <1>2, <2>1, SameJob DEF Supplied
  <2> QED
    BY <2>1, <2>2, <2>3, <2>4, SameReads DEF IInv
<1> QED
  BY <1>3, <1>6, <1>7, <1>8, <1>9, <1>10, <1>11, <1>12, <1>13 DEF Next

\* The invariant holds throughout.
LEMMA Invariance == Spec => []IInv
<1> QED
  BY InitIInv, NextIInv, PTL DEF Spec

-----------------------------------------------------------------------------
(* The properties                                                          *)

(* Every window below num_samples is some worker's, and its count is told  *)
(* by that worker's cursor.                                                *)
LEMMA ReaderOf ==
  ASSUME job \in Job, NEW x \in Windows, Index(x) < NumSamples
  PROVE  \E r \in Ranks, w \in Workers : \E c \in 0..(OwnSamples(r, w) - 1) :
           x = Window(SampleAt(r, w, c))
<1>1. Index(x) \in 0..(TotalSamples - 1) /\ Window(Index(x)) = x
  BY SampleOfWindow
<1>2. Index(x) \in Nat
  BY <1>1, JobFacts
<1>3. PICK r \in Ranks, w \in Workers, c \in Nat : Index(x) = SampleAt(r, w, c)
  BY <1>2, PlaceOfSample
<1>4. c < OwnSamples(r, w) /\ OwnSamples(r, w) \in Nat
  BY <1>3, OwnFacts, JobFacts
<1>5. c \in 0..(OwnSamples(r, w) - 1)
  BY <1>4
<1> QED
  BY <1>1, <1>3, <1>5

(* No rank, worker, shard or resume reads a sample a second time when the  *)
(* dataset is not repeated (PackedBinaryDataset.__iter__, state_dict).     *)
THEOREM ReadOnce == Spec => []WithoutReplacement
<1>1. IInv => WithoutReplacement
  <2> SUFFICES ASSUME IInv, ~job.infinite, NEW x \in Windows PROVE seen[x] <= 1
    BY DEF IInv, WithoutReplacement
  <2>1. job \in Job /\ Reads(cursor, seen)
    BY PackedAssumption DEF IInv, TypeOK
  <2>2. CASE Index(x) < NumSamples
    <3>1. PICK r \in Ranks, w \in Workers : \E c \in 0..(OwnSamples(r, w) - 1) :
            x = Window(SampleAt(r, w, c))
      BY <2>1, <2>2, ReaderOf
    <3>2. PICK c \in 0..(OwnSamples(r, w) - 1) : x = Window(SampleAt(r, w, c))
      BY <3>1
    <3>3. seen[x] = 0 + (IF c < cursor[r][w] THEN 1 ELSE 0)
      BY <2>1, <3>2 DEF Reads, Epochs
    <3> QED
      BY <3>3
  <2>3. CASE Index(x) >= NumSamples
    BY <2>1, <2>3 DEF Reads
  <2>4. Index(x) \in 0..(TotalSamples - 1) /\ TotalSamples \in Nat /\ NumSamples \in Nat
    BY <2>1, JobFacts, SampleOfWindow
  <2> QED
    BY <2>2, <2>3, <2>4
<1> QED
  BY <1>1, Invariance, PTL

(* A worker begins its samples again only when it has read them all, also  *)
(* across batches that wrap and resumes at the end of a round              *)
(* (PackedBinaryDataset.__iter__ with infinite).                           *)
THEOREM RoundsBalanced == Spec => []EpochsBalanced
<1>1. IInv => EpochsBalanced
  <2> SUFFICES ASSUME IInv, NEW r \in Ranks, NEW w \in Workers,
                      NEW s \in Own(r, w), NEW t \in Own(r, w)
               PROVE  seen[Window(s)] <= seen[Window(t)] + 1
    BY DEF EpochsBalanced
  <2>1. PICK b \in 0..(OwnSamples(r, w) - 1), c \in 0..(OwnSamples(r, w) - 1) :
          s = SampleAt(r, w, b) /\ t = SampleAt(r, w, c)
    BY DEF Own
  <2>2. PICK e \in Nat : \A k \in 0..(OwnSamples(r, w) - 1) :
          seen[Window(SampleAt(r, w, k))] = e + (IF k < cursor[r][w] THEN 1 ELSE 0)
    BY DEF IInv, Reads, Epochs
  <2>3. seen[Window(s)] \in {e, e + 1} /\ seen[Window(t)] \in {e, e + 1}
    BY <2>1, <2>2
  <2> QED
    BY <2>3
<1> QED
  BY <1>1, Invariance, PTL

(* When all ranges are used up, the weights have learnt from the first     *)
(* num_samples windows of the shards, and from no other                    *)
(* (PackedBinaryDataset._sample_window, __iter__).                         *)
THEOREM AllAreRead == Spec => []NothingLeftOut
<1>1. IInv => NothingLeftOut
  <2> SUFFICES ASSUME IInv, ~job.infinite, \A r \in Ranks : Available(r) = {},
                      NEW x \in Windows
               PROVE  seen[x] > 0 <=> Index(x) < NumSamples
    BY DEF NothingLeftOut, Index
  <2>1. job \in Job /\ Reads(cursor, seen)
    BY PackedAssumption DEF IInv, TypeOK
  <2>2. ASSUME Index(x) < NumSamples PROVE seen[x] > 0
    <3>1. PICK r \in Ranks, w \in Workers : \E c \in 0..(OwnSamples(r, w) - 1) :
            x = Window(SampleAt(r, w, c))
      BY <2>1, <2>2, ReaderOf
    <3>2. PICK c \in 0..(OwnSamples(r, w) - 1) : x = Window(SampleAt(r, w, c))
      BY <3>1
    <3>3. ~(BatchLen(r, w) > 0)
      BY DEF Available
    <3>4. /\ OwnSamples(r, w) \in Nat /\ job.batch_size \in Nat \ {0}
          /\ cursor[r][w] \in 0..OwnSamples(r, w)
      <4>1. OwnSamples(r, w) \in Nat /\ job.batch_size \in Nat \ {0} /\ NumSamples \in Nat
        BY <2>1, OwnFacts, JobFacts
      <4> QED
        BY <4>1 DEF IInv, TypeOK
    <3>5. cursor[r][w] = OwnSamples(r, w)
      BY <3>3, <3>4 DEF BatchLen
    <3>6. seen[x] = 0 + (IF c < cursor[r][w] THEN 1 ELSE 0)
      BY <2>1, <3>2 DEF Reads, Epochs
    <3> QED
      BY <3>4, <3>5, <3>6
  <2>3. Index(x) >= NumSamples => seen[x] = 0
    BY <2>1 DEF Reads
  <2>4. Index(x) \in 0..(TotalSamples - 1) /\ TotalSamples \in Nat /\ NumSamples \in Nat
    BY <2>1, JobFacts, SampleOfWindow
  <2> QED
    BY <2>2, <2>3, <2>4
<1> QED
  BY <1>1, Invariance, PTL
=============================================================================
