--------------------------- MODULE SRStreamsProofs ---------------------------
(***************************************************************************)
(* The stochastic-rounding streams for any number of ranks, producers,     *)
(* steps and microbatches, any modulus and seeds, and any sequence of      *)
(* saves, crashes, resumes and migrations: no coordinate is used twice, a  *)
(* resumed run rounds as the run it continues, and no check ever raises.   *)
(*                                                                         *)
(* Two streams differ in their seeds.  Within a stream the n-th invocation *)
(* of a phase has a coordinate that depends on nothing but n, and what a   *)
(* checkpoint restores is the number of invocations.                       *)
(***************************************************************************)
EXTENDS SRStreams, SequenceTheorems, FiniteSetTheorems, FunctionTheorems, TLAPS

(* The number of a rank's slot, before the base is added: rank-major, so   *)
(* that no slot of a rank reaches the rows of the next one.                *)
Row(k, r, slot) == r * Keys[k] + slot

\* The rows of a kind's table lie in the table.
LEMMA RowTyping ==
  ASSUME NEW k \in Kind, NEW r \in Rank, NEW slot \in 0 .. Keys[k] - 1
  PROVE  Row(k, r, slot) \in 0 .. WorldSize * Keys[k] - 1
<1> DEFINE K == Keys[k]
<1>1. K \in Nat \ {0} /\ WorldSize \in Nat \ {0} BY SRSizes
<1>2. r \in Nat /\ r + 1 <= WorldSize BY <1>1 DEF Rank
<1>3. slot \in Nat /\ slot < K BY <1>1
<1>4. \A a, b, c \in Nat : a <= b => a * c <= b * c OBVIOUS
<1>5. (r + 1) * K <= WorldSize * K BY <1>1, <1>2, <1>4
<1>6. (r + 1) * K = r * K + K BY <1>1, <1>2
<1>7. r * K \in Nat /\ WorldSize * K \in Nat BY <1>1, <1>2
<1> HIDE DEF K
<1>8. r * K + slot \in 0 .. WorldSize * K - 1 BY <1>1, <1>3, <1>5, <1>6, <1>7
<1> QED BY <1>8 DEF Row, K

\* The slots of a rank come before those of the next.
LEMMA RowOrder ==
  ASSUME NEW k \in Kind, NEW r1 \in Rank, NEW r2 \in Rank, r1 < r2,
         NEW s1 \in 0 .. Keys[k] - 1, NEW s2 \in 0 .. Keys[k] - 1
  PROVE  Row(k, r1, s1) < Row(k, r2, s2)
<1> DEFINE K == Keys[k]
<1>1. K \in Nat \ {0} /\ WorldSize \in Nat \ {0} BY SRSizes
<1>2. r1 \in Nat /\ r2 \in Nat /\ r1 + 1 <= r2 BY <1>1 DEF Rank
<1>3. s1 \in Nat /\ s2 \in Nat /\ s1 < K BY <1>1
<1>4. \A a, b, c \in Nat : a <= b => a * c <= b * c OBVIOUS
<1>5. (r1 + 1) * K <= r2 * K BY <1>1, <1>2, <1>4
<1>6. (r1 + 1) * K = r1 * K + K BY <1>1, <1>2
<1>7. r1 * K \in Nat /\ r2 * K \in Nat BY <1>1, <1>2
<1> HIDE DEF K
<1>8. r1 * K + s1 < r2 * K + s2 BY <1>1, <1>3, <1>5, <1>6, <1>7
<1> QED BY <1>8 DEF Row, K

\* A row belongs to one rank and one slot.
LEMMA RowInjective ==
  ASSUME NEW k \in Kind, NEW r1 \in Rank, NEW r2 \in Rank,
         NEW s1 \in 0 .. Keys[k] - 1, NEW s2 \in 0 .. Keys[k] - 1,
         Row(k, r1, s1) = Row(k, r2, s2)
  PROVE  r1 = r2 /\ s1 = s2
<1>1. r1 \in Int /\ r2 \in Int BY SRSizes DEF Rank
<1>2. Row(k, r1, s1) \in Int /\ Row(k, r2, s2) \in Int BY RowTyping, SRSizes
<1>3. ~ (r1 < r2) BY <1>2, RowOrder
<1>4. ~ (r2 < r1) BY <1>2, RowOrder
<1>5. r1 = r2 BY <1>1, <1>3, <1>4
<1>6. r1 * Keys[k] \in Int BY <1>1, SRSizes
<1>7. s1 \in Int /\ s2 \in Int BY SRSizes
<1>8. s1 = s2 BY <1>5, <1>6, <1>7 DEF Row
<1> QED BY <1>5, <1>8

\* Numbers less than n apart that agree modulo n are equal.
LEMMA ModEqual ==
  ASSUME NEW a \in Int, NEW b \in Int, NEW n \in Nat \ {0},
         a % n = b % n, a - b < n, b - a < n
  PROVE  a = b
<1> DEFINE p == a \div n
           q == b \div n
<1>1. p \in Int /\ a % n \in Int /\ a = n * p + (a % n) BY SMT
<1>2. q \in Int /\ b = n * q + (b % n) BY SMT
<1> HIDE DEF p, q
<1>3. n * p \in Int /\ n * q \in Int BY <1>1, <1>2
<1>4. a - b = n * p - n * q BY <1>1, <1>2, <1>3
<1>5. \A c, d \in Int, i \in Nat \ {0} : c < d => i * c + i <= i * d OBVIOUS
<1>6. ~ (p < q) BY <1>1, <1>2, <1>3, <1>4, <1>5
<1>7. ~ (q < p) BY <1>1, <1>2, <1>3, <1>4, <1>5
<1> QED BY <1>1, <1>2, <1>6, <1>7

(* Two of a kind's streams never have the same Philox seed, whatever the   *)
(* base and although the seeds wrap at Modulus: _seed_for of the three     *)
(* modules, on the world sizes the constructors accept.                    *)
THEOREM SeedsDistinct ==
  ASSUME NEW k \in Kind, NEW base \in 0 .. Modulus - 1,
         NEW r1 \in Rank, NEW r2 \in Rank,
         NEW s1 \in 0 .. Keys[k] - 1, NEW s2 \in 0 .. Keys[k] - 1,
         SeedFor(base, k, r1, s1) = SeedFor(base, k, r2, s2)
  PROVE  r1 = r2 /\ s1 = s2
<1> DEFINE x == Row(k, r1, s1)
           y == Row(k, r2, s2)
           T == WorldSize * Keys[k]
<1>1. Modulus \in Nat \ {0} /\ Keys[k] \in Nat \ {0} /\ WorldSize \in Nat \ {0}
  BY SRSizes
<1>2. T < Modulus BY SRSizes
<1>3. T \in Nat BY <1>1
<1>4. x \in 0 .. T - 1 /\ y \in 0 .. T - 1 BY RowTyping
<1>5. r1 * Keys[k] \in Int /\ r2 * Keys[k] \in Int /\ s1 \in Int /\ s2 \in Int
  BY <1>1 DEF Rank
<1>6. (base + x + 1) % Modulus = (base + y + 1) % Modulus
  BY <1>1, <1>5 DEF SeedFor, Row
<1> HIDE DEF x, y, T
<1>7. base + x + 1 \in Int /\ base + y + 1 \in Int BY <1>1, <1>3, <1>4
<1>8. base + x + 1 = base + y + 1
  BY <1>1, <1>2, <1>3, <1>4, <1>6, <1>7, ModEqual
<1>9. x = y BY <1>3, <1>4, <1>8
<1> QED BY <1>9, RowInjective DEF x, y

(* The int64 in a checkpoint names exactly one uint64: storing a seed or a *)
(* subsequence and loading it gives it back (_as_signed_int64, _as_uint64).*)
THEOREM SignedRoundTrip ==
  ASSUME NEW v \in 0 .. Modulus - 1
  PROVE  AsUint(AsSigned(v)) = v /\ AsSigned(v) \in -Half .. Half - 1
<1>1. Modulus \in Nat \ {0} /\ Half \in Nat /\ Modulus = 2 * Half
  BY SRSizes DEF Half
<1> HIDE DEF Half
<1>2. CASE v < Half
  BY <1>1, <1>2 DEF AsSigned, AsUint
<1>3. CASE ~ (v < Half)
  <2>1. AsSigned(v) = v - Modulus BY <1>3 DEF AsSigned
  <2>2. (v - Modulus) % Modulus = v BY <1>1
  <2> QED BY <1>1, <1>3, <2>1, <2>2 DEF AsUint
<1> QED BY <1>2, <1>3
(***************************************************************************)
(* The histories.  A stream gives its n-th invocation of a phase the       *)
(* coordinate of its seed and of n - 1 strides above its first one.        *)
(***************************************************************************)

(* A v1 table was saved when one rank had drawn for all, so that the other *)
(* ranks begin one step later on the common counter; m: the job's first    *)
(* checkpoint has such a table.                                            *)
Extra(m, r, st) == IF m /\ st[1] = "localcta" /\ r # 0 THEN MaxGA ELSE 0
At(m, r, st, n) == UserBase[st[1]] + (Extra(m, r, st) + n) * Stride[st[1]]
SeedOf(base, r, st) == SeedFor(base, st[1], r, st[2])

Follows(m, d, base, r, st) ==
  \A n \in 1 .. Len(d) : d[n] = <<SeedOf(base, r, st), At(m, r, st, n - 1)>>

(* What a stream may have drawn after s steps and u microbatches.          *)
Budget(st, s, u) == (s * MaxGA + u) * Draws(st)

Coordinates == Seq(Counter \X Int)

Typed ==
  /\ TypeOK
  /\ enabled \in {{"mxfp4"}, {"localcta", "head"}}
  /\ origin \in 0 .. Steps /\ ("head" \notin enabled => origin = 0)
  /\ subBase = [k \in enabled |-> UserBase[k]]
  /\ pos \in [Rank -> [Streams -> Nat]]
  /\ drawn \in [Rank -> [Streams -> Coordinates]]
  /\ phase \in [enabled -> 0 .. starts]
  /\ capture \in [Rank -> Seq(Counter)] /\ \A r \in Rank : Len(capture[r]) <= 1

(* The counter of a stream, whatever a capture has done to it.             *)
Held(r, st) == IF capture[r] # <<>> /\ st = WoStream THEN capture[r][1] ELSE next[r][st]

Position(m, r, st) ==
  /\ launched[r][st] <= pos[r][st]
  /\ (~OnDevice(st) => launched[r][st] = 0)
  /\ pos[r][st] - launched[r][st] <= Len(drawn[r][st])
  /\ Held(r, st) = At(m, r, st, pos[r][st] - launched[r][st])
  /\ Extra(m, r, st) + pos[r][st] + left[r][st] <= Budget(st, step, micro[r])

Process ==
  /\ \A r \in Rank :
       /\ micro[r] <= ga
       /\ micro[r] # 0 => step < Steps
       /\ \A st \in Streams : micro[r] = 0 => left[r][st] = 0
       /\ capture[r] # <<>> =>
            /\ "localcta" \in enabled /\ job = "up"
            /\ \A st \in Streams : left[r][st] = 1 /\ launched[r][st] = 0
  /\ job # "up" =>
       \A r \in Rank :
         /\ micro[r] = 0
         /\ \A st \in Streams : left[r][st] = 0 /\ launched[r][st] = 0

(* The head draws once a microbatch, and these are the ones since step o.  *)
Microbatches(s, o, g, u) == (s - o) * g + u

HeadCount ==
  "head" \in enabled /\ job = "up" =>
    /\ origin <= step
    /\ \A r \in Rank : pos[r][HeadStream] + left[r][HeadStream] = Microbatches(step, origin, ga, micro[r])

(* A checkpoint of this job.                                               *)
Current(c) == \A k \in enabled : c.schema[k] = "current"

Written(m, c) ==
  /\ c.step \in 1 .. Steps /\ c.ga \in 1 .. MaxGA /\ c.origin \in 0 .. c.step
  /\ Current(c)
  /\ c.base = [k \in enabled |-> UserBase[k]]
  /\ c.seed \in [enabled -> Counter]
  /\ c.phase \in [enabled -> 0 .. starts]
  /\ c.pos \in [Rank -> [Streams -> Nat]]
  /\ c.drawn \in [Rank -> [Streams -> Coordinates]]
  /\ \A r \in Rank, st \in Streams :
       /\ c.table[r][st] = <<AsSigned(SeedOf(c.seed[st[1]], r, st)),
                             AsSigned(At(m, r, st, c.pos[r][st]))>>
       /\ c.pos[r][st] <= Len(c.drawn[r][st])
       /\ Follows(m, c.drawn[r][st], c.seed[st[1]], r, st)
       /\ Extra(m, r, st) + c.pos[r][st] <= Budget(st, c.step, 0)
  /\ "head" \in enabled =>
       \A r \in Rank : c.pos[r][HeadStream] = Microbatches(c.step, c.origin, c.ga, 0)

Checkpoints(m) ==
  /\ m => disk # {}
  /\ \A c \in disk : c = Legacy(IF m THEN "v1" ELSE "missing") \/ Written(m, c)

(* A phase has one seed of each kind, in the process and in what it saved. *)
OneSeed ==
  \A c \in disk : Current(c) =>
    \A k \in enabled :
      /\ c.phase[k] = phase[k] => c.seed[k] = seedBase[k]
      /\ \A d \in disk : Current(d) /\ c.phase[k] = d.phase[k] => c.seed[k] = d.seed[k]

History(m) ==
  \A r \in Rank, st \in Streams : Follows(m, drawn[r][st], seedBase[st[1]], r, st)

IInvOf(m) ==
  /\ Typed /\ job # "corrupt" /\ Process /\ HeadCount
  /\ job = "up" => \A r \in Rank, st \in Streams : Position(m, r, st)
  /\ Checkpoints(m) /\ OneSeed /\ History(m)

IInv == \E m \in BOOLEAN : IInvOf(m)
-----------------------------------------------------------------------------
(* Numbers                                                                 *)

(* What the assumptions say of the constants.                              *)
LEMMA Numbers ==
  /\ WorldSize \in Nat \ {0} /\ MaxGA \in Nat \ {0} /\ Steps \in Nat \ {0}
  /\ Modulus \in Nat \ {0} /\ MaxLag \in Nat \ {0} /\ MaxStarts \in Nat
  /\ 0 \in Rank /\ Rank \subseteq Nat
  /\ \A k \in Kind : /\ Keys[k] \in Nat \ {0} /\ Stride[k] \in Nat \ {0}
                     /\ UserSeed[k] \in Counter /\ UserBase[k] \in Counter
  /\ Counter \subseteq Nat /\ 0 \in Counter /\ Keys["head"] = 1
<1>1. /\ WorldSize \in Nat \ {0} /\ MaxGA \in Nat \ {0} /\ Steps \in Nat \ {0}
      /\ Modulus \in Nat \ {0} /\ MaxLag \in Nat \ {0} /\ MaxStarts \in Nat
      /\ Keys["head"] = 1
  BY SRSizes
<1>2. 0 \in Rank /\ Rank \subseteq Nat
  BY <1>1 DEF Rank
<1>3. Counter \subseteq Nat /\ 0 \in Counter
  BY <1>1 DEF Counter
<1>4. ASSUME NEW k \in Kind
      PROVE  /\ Keys[k] \in Nat \ {0} /\ Stride[k] \in Nat \ {0}
             /\ UserSeed[k] \in Counter /\ UserBase[k] \in Counter
  BY SRSizes DEF Counter
<1> QED
  BY <1>1, <1>2, <1>3, <1>4

(* A stream is a kind and a slot; it draws one to three times.             *)
LEMMA StreamFacts ==
  ASSUME NEW st \in Stream
  PROVE  /\ st[1] \in Kind /\ st[2] \in 0 .. Keys[st[1]] - 1 /\ st = <<st[1], st[2]>>
         /\ Draws(st) \in 1 .. 3 /\ Draws(st) <= MaxReservations(st[1])
         /\ OnDevice(st) => Draws(st) = 1
<1>1. PICK k \in Kind : st \in {k} \X (0 .. Keys[k] - 1)
  BY DEF Stream
<1>2. st[1] \in Kind /\ st[2] \in 0 .. Keys[st[1]] - 1 /\ st = <<st[1], st[2]>>
  BY <1>1
<1>3. st[1] = "mxfp4" => DrawsPerMicro[st[2]] \in 1 .. 3
  BY <1>2, SRSizes
<1> QED
  BY <1>2, <1>3 DEF Draws, OnDevice, MaxReservations

(* The streams of the installed kinds.                                     *)
LEMMA InStreams ==
  ASSUME enabled \in {{"mxfp4"}, {"localcta", "head"}}
  PROVE  /\ Streams \subseteq Stream /\ Streams # {}
         /\ enabled \subseteq Kind
         /\ \A st \in Streams : st[1] \in enabled
         /\ \A k \in enabled : \A s \in 0 .. Keys[k] - 1 : <<k, s>> \in Streams
         /\ HeadStream \in Streams <=> "head" \in enabled
         /\ WoStream \in Streams <=> "localcta" \in enabled
         /\ "head" \in enabled => \A st \in Streams : OnDevice(st)
<1>1. enabled \subseteq Kind
  BY DEF Kind
<1>2. \A k \in enabled : \A s \in 0 .. Keys[k] - 1 : <<k, s>> \in Streams
  BY <1>1 DEF Streams, Stream
<1>3. \A k \in Kind : 0 \in 0 .. Keys[k] - 1 /\ Keys[k] - 1 \in 0 .. Keys[k] - 1
  BY Numbers
<1>4. Streams # {}
  BY <1>1, <1>2, <1>3
<1>5. \A st \in Streams : st[1] \in enabled
  BY DEF Streams
<1>6. HeadStream \in Streams <=> "head" \in enabled
  BY <1>1, <1>2, <1>3, <1>5 DEF HeadStream
<1>7. WoStream \in Streams <=> "localcta" \in enabled
  BY <1>1, <1>2, <1>3, <1>5 DEF WoStream
<1> QED
  BY <1>1, <1>2, <1>4, <1>5, <1>6, <1>7 DEF Streams, OnDevice

(* Products grow with their factors.                                       *)
LEMMA Products ==
  /\ \A a, b, c \in Nat : a <= b => a * c <= b * c /\ c * a <= c * b
  /\ \A a, b \in Nat : a * b \in Nat
  /\ \A a, b, c \in Nat : (a + b) * c = a * c + b * c
BY SMT

(* One more microbatch adds its draws; a step has at most MaxGA of them.   *)
LEMMA BudgetGrows ==
  ASSUME NEW st \in Stream, NEW s \in Nat, NEW u \in Nat
  PROVE  /\ Budget(st, s, u) \in Nat
         /\ Budget(st, s, u + 1) = Budget(st, s, u) + Draws(st)
         /\ u <= MaxGA => Budget(st, s, u) <= Budget(st, s + 1, 0)
         /\ s <= Steps => Budget(st, s, 0) <= Budget(st, Steps, 0)
         /\ s < Steps /\ u <= MaxGA => Budget(st, s, u) <= Budget(st, Steps, 0)
<1> DEFINE D == Draws(st)
<1>1. D \in Nat
  BY StreamFacts
<1>2. MaxGA \in Nat /\ Steps \in Nat
  BY Numbers
<1>3. s * MaxGA \in Nat /\ (s + 1) * MaxGA \in Nat /\ Steps * MaxGA \in Nat
  BY <1>2, Products
<1>4. (s + 1) * MaxGA = s * MaxGA + MaxGA
  BY <1>2, Products
<1>5. s <= Steps => s * MaxGA <= Steps * MaxGA
  BY <1>2, Products
<1>6. s < Steps => (s + 1) * MaxGA <= Steps * MaxGA
  <2>1. s < Steps => s + 1 <= Steps
    BY <1>2
  <2> QED
    BY <2>1, <1>2, Products
<1> DEFINE a == s * MaxGA
           b == (s + 1) * MaxGA
           c == Steps * MaxGA
<1> HIDE DEF D, a, b, c
<1>7. /\ (a + u) * D \in Nat
      /\ (a + (u + 1)) * D = (a + u) * D + D
      /\ u <= MaxGA => (a + u) * D <= (b + 0) * D
      /\ s <= Steps => (a + 0) * D <= (c + 0) * D
      /\ s < Steps /\ u <= MaxGA => (a + u) * D <= (c + 0) * D
  <2>1. a \in Nat /\ b = a + MaxGA /\ c \in Nat /\ a + u \in Nat
    BY <1>3, <1>4 DEF a, b, c
  <2>2. s <= Steps => a <= c
    BY <1>5 DEF a, c
  <2>3. s < Steps => b <= c
    BY <1>6 DEF b, c
  <2>4. (a + u) * D \in Nat /\ (a + u + 1) * D = (a + u) * D + 1 * D /\ a + (u + 1) = a + u + 1
    BY <1>1, <2>1, Products
  <2>5. u <= MaxGA => a + u <= b + 0 /\ b + 0 \in Nat
    BY <1>2, <2>1
  <2> QED
    BY <1>1, <1>2, <2>1, <2>2, <2>3, <2>4, <2>5, Products
<1> QED
  BY <1>7 DEF Budget, D, a, b, c

(* The horizon that the constructors demand holds every budget.            *)
LEMMA Room ==
  ASSUME NEW st \in Stream, NEW e \in Nat, e <= Budget(st, Steps, 0)
  PROVE  UserBase[st[1]] + e * Stride[st[1]] \in Counter
<1> DEFINE k == st[1]
           R == MaxReservations(k)
           D == Draws(st)
           S == Stride[k]
           G == Steps * MaxGA
           H == (Steps + 1) * MaxGA
<1>1. /\ k \in Kind /\ D \in Nat /\ R \in Nat /\ D <= R /\ S \in Nat
      /\ UserBase[k] \in Nat /\ Modulus \in Nat
  BY Numbers, StreamFacts DEF MaxReservations
<1>2. G \in Nat /\ H \in Nat /\ G <= H
  <2>1. Steps \in Nat /\ MaxGA \in Nat /\ Steps + 1 \in Nat /\ Steps <= Steps + 1
    BY Numbers
  <2> QED
    BY <2>1, Products
<1>3. UserBase[k] + H * R * S <= Modulus - 1
  BY <1>1, SRHeadroom DEF Span
<1>4. e <= G * D
  <2>1. G + 0 = G
    BY <1>2
  <2> QED
    BY <2>1 DEF Budget
<1> HIDE DEF k, R, D, S, G, H
<1>5. G * D <= H * R /\ H * R \in Nat
  <2>1. G * D <= H * D /\ H * D <= H * R /\ G * D \in Nat /\ H * D \in Nat /\ H * R \in Nat
    BY <1>1, <1>2, Products
  <2> QED
    BY <2>1
<1>6. e <= H * R
  <2>1. G * D \in Nat
    BY <1>1, <1>2, Products
  <2> QED
    BY <1>4, <1>5, <2>1
<1>7. e * S <= H * R * S /\ e * S \in Nat /\ H * R * S \in Nat
  BY <1>1, <1>5, <1>6, Products
<1>8. UserBase[k] + e * S \in 0 .. Modulus - 1
  BY <1>1, <1>3, <1>7
<1> QED
  BY <1>8 DEF Counter, k, S

(* The coordinates of a stream's invocations are a stride apart.           *)
LEMMA AtFacts ==
  ASSUME NEW m \in BOOLEAN, NEW r \in Rank, NEW st \in Stream, NEW n \in Nat
  PROVE  /\ Extra(m, r, st) \in Nat /\ At(m, r, st, n) \in Nat
         /\ \A i \in Nat : At(m, r, st, i) = At(m, r, st, n) => i = n
         /\ \A u \in Nat : Extra(m, r, st) + n + u <= Budget(st, Steps, 0) =>
              At(m, r, st, n) \in Counter
<1> DEFINE S == Stride[st[1]]
           B == UserBase[st[1]]
           E == Extra(m, r, st)
<1>1. S \in Nat \ {0} /\ B \in Nat /\ E \in Nat
  BY Numbers, StreamFacts DEF Extra
<1>2. \A u \in Nat : E + n + u <= Budget(st, Steps, 0) => B + (E + n) * S \in Counter
  <2>1. Budget(st, Steps, 0) \in Nat
    BY BudgetGrows, Numbers
  <2>2. \A u \in Nat : E + n + u <= Budget(st, Steps, 0) => E + n <= Budget(st, Steps, 0) /\ E + n \in Nat
    BY <1>1, <2>1
  <2> QED
    BY <2>2, Room
<1> HIDE DEF S, B, E
<1>3. B + (E + n) * S \in Nat
  <2>1. (E + n) * S \in Nat
    BY <1>1, Products
  <2> QED
    BY <1>1, <2>1
<1>4. ASSUME NEW i \in Nat, B + (E + i) * S = B + (E + n) * S PROVE i = n
  <2>1. (E + i) * S = (E + n) * S /\ E + i \in Nat /\ E + n \in Nat
    <3>1. (E + i) * S \in Nat /\ (E + n) * S \in Nat
      BY <1>1, Products
    <3> QED
      BY <1>1, <1>4, <3>1
  <2>2. \A a, b \in Nat, c \in Nat \ {0} : a * c = b * c => a = b
    BY SMT
  <2>3. E + i = E + n
    BY <1>1, <2>1, <2>2
  <2> QED
    BY <1>1, <2>3
<1> QED
  BY <1>1, <1>2, <1>3, <1>4 DEF At, S, B, E

\* One invocation further is one stride further.
LEMMA AtNext ==
  ASSUME NEW m \in BOOLEAN, NEW r \in Rank, NEW st \in Stream, NEW n \in Nat, NEW i \in Nat, n = i + 1
  PROVE  At(m, r, st, n) = At(m, r, st, i) + Stride[st[1]]
<1> DEFINE S == Stride[st[1]]
           B == UserBase[st[1]]
           E == Extra(m, r, st)
<1>1. S \in Nat \ {0} /\ B \in Nat /\ E \in Nat
  BY Numbers, StreamFacts DEF Extra
<1> HIDE DEF S, B, E
<1>2. (E + i) * S \in Nat /\ (E + i + 1) * S = (E + i) * S + 1 * S /\ E + n = E + i + 1
  BY <1>1, Products
<1>3. B + (E + n) * S = B + (E + i) * S + S
  BY <1>1, <1>2
<1> QED
  BY <1>3 DEF At, S, B, E

(* The count of the head's draws, across a microbatch and the end of a step. *)
LEMMA MicrobatchCounted ==
  \A s, o, g, u \in Nat : o <= s =>
    /\ Microbatches(s, o, g, u) \in Nat
    /\ Microbatches(s, o, g, u + 1) = Microbatches(s, o, g, u) + 1
<1> SUFFICES ASSUME NEW s \in Nat, NEW o \in Nat, NEW g \in Nat, NEW u \in Nat, o <= s
             PROVE  /\ Microbatches(s, o, g, u) \in Nat
                    /\ Microbatches(s, o, g, u + 1) = Microbatches(s, o, g, u) + 1
  OBVIOUS
<1>1. s - o \in Nat
  OBVIOUS
<1>2. (s - o) * g \in Nat
  BY <1>1, Products
<1> QED
  BY <1>1, <1>2 DEF Microbatches

\* The end of a step's microbatches and the start of the next step count alike.
LEMMA StepCounted ==
  ASSUME NEW s \in Nat, NEW o \in Nat, o <= s, NEW g \in Nat
  PROVE  Microbatches(s + 1, o, g, 0) = Microbatches(s, o, g, g)
<1>1. s - o \in Nat /\ s + 1 - o = s - o + 1
  OBVIOUS
<1>2. (s - o) * g \in Nat /\ (s - o + 1) * g = (s - o) * g + 1 * g
  BY <1>1, Products
<1> QED
  BY <1>1, <1>2 DEF Microbatches

-----------------------------------------------------------------------------
(* Histories                                                               *)

(* A seed is a uint64.                                                     *)
LEMMA SeedTyped ==
  ASSUME NEW k \in Kind, NEW base \in Counter, NEW r \in Rank, NEW s \in 0 .. Keys[k] - 1
  PROVE  SeedFor(base, k, r, s) \in Counter
<1>1. r \in Nat /\ Keys[k] \in Nat /\ Modulus \in Nat \ {0} /\ base \in Nat /\ s \in Nat
  BY Numbers DEF Counter
<1>2. r * Keys[k] \in Nat
  BY <1>1, Products
<1> DEFINE x == base + r * Keys[k] + s + 1
<1>3. x \in Nat
  BY <1>1, <1>2
<1> HIDE DEF x
<1>4. x % Modulus \in 0 .. Modulus - 1
  BY <1>1, <1>3
<1> QED
  BY <1>4 DEF SeedFor, Counter, x

(* What Record makes of a history.                                         *)
Rewritten(d, n, e) == SubSeq(d, 1, n - 1) \o <<e>> \o SubSeq(d, n + 1, Len(d))

(* Writing the n-th element of a sequence, which may be its next one.      *)
LEMMA WriteElement ==
  ASSUME NEW S, NEW d \in Seq(S), NEW n \in 1 .. Len(d) + 1, NEW e \in S
  PROVE  LET w == Rewritten(d, n, e)
         IN  /\ w \in Seq(S) /\ Len(w) \in Nat /\ Len(d) \in Nat
             /\ Len(w) >= Len(d) /\ Len(w) >= n
             /\ \A i \in 1 .. Len(w) : w[i] = IF i = n THEN e ELSE d[i]
             /\ \A i \in 1 .. Len(w) : i # n => i \in 1 .. Len(d)
<1> DEFINE w == Rewritten(d, n, e)
           a == SubSeq(d, 1, n - 1)
           b == SubSeq(d, n + 1, Len(d))
           c == a \o <<e>>
<1>1. Len(d) \in Nat /\ n \in Nat \ {0} /\ n <= Len(d) + 1 /\ \A i \in 1 .. Len(d) : d[i] \in S
  BY LenProperties, ElementOfSeq
<1>2. a \in Seq(S) /\ Len(a) = n - 1 /\ \A i \in 1 .. n - 1 : a[i] = d[i]
  <2>1. \A i \in 1 .. (n - 1) : d[i] \in S
    BY <1>1
  <2>2. n - 1 \in Int /\ 1 \in Int
    BY <1>1
  <2>3. /\ a \in Seq(S) /\ Len(a) = IF 1 <= n - 1 THEN n - 1 - 1 + 1 ELSE 0
        /\ \A i \in 1 .. n - 1 - 1 + 1 : a[i] = d[1 + i - 1]
    BY <2>1, <2>2, SubSeqProperties
  <2> QED
    BY <1>1, <2>3
<1>3. /\ b \in Seq(S) /\ Len(b) = IF n <= Len(d) THEN Len(d) - n ELSE 0
      /\ \A i \in 1 .. Len(d) - n : b[i] = d[n + i]
  <2>1. \A i \in (n + 1) .. Len(d) : d[i] \in S
    BY <1>1
  <2>2. /\ b \in Seq(S) /\ Len(b) = IF n + 1 <= Len(d) THEN Len(d) - (n + 1) + 1 ELSE 0
        /\ \A i \in 1 .. Len(d) - (n + 1) + 1 : b[i] = d[n + 1 + i - 1]
    BY <1>1, <2>1, SubSeqProperties
  <2> QED
    BY <1>1, <2>2
<1> HIDE DEF a, b, w
<1>4. <<e>> \in Seq(S) /\ Len(<<e>>) = 1 /\ <<e>>[1] = e
  OBVIOUS
<1>5. c \in Seq(S) /\ Len(c) = n /\ \A i \in 1 .. n : c[i] = IF i = n THEN e ELSE d[i]
  <2>1. /\ c \in Seq(S) /\ Len(c) = Len(a) + 1
        /\ \A i \in 1 .. Len(a) + 1 : c[i] = IF i <= Len(a) THEN a[i] ELSE <<e>>[i - Len(a)]
    BY <1>2, <1>4, ConcatProperties
  <2> QED
    BY <1>1, <1>2, <1>4, <2>1
<1> HIDE DEF c
<1>6. /\ w \in Seq(S) /\ Len(w) = n + Len(b)
      /\ \A i \in 1 .. n + Len(b) : w[i] = IF i <= n THEN c[i] ELSE b[i - n]
  <2>1. w = c \o b
    BY Zenon DEF a, b, c, w, Rewritten
  <2>2. /\ c \o b \in Seq(S) /\ Len(c \o b) = Len(c) + Len(b)
        /\ \A i \in 1 .. Len(c) + Len(b) :
             (c \o b)[i] = IF i <= Len(c) THEN c[i] ELSE b[i - Len(c)]
    BY <1>3, <1>5, ConcatProperties
  <2> QED
    BY <1>5, <2>1, <2>2
<1>7. Len(w) = IF n <= Len(d) THEN Len(d) ELSE n
  BY <1>1, <1>3, <1>6
<1>9. \A i \in 1 .. Len(w) : i # n => i \in 1 .. Len(d)
  BY <1>1, <1>7
<1>8. ASSUME NEW i \in 1 .. Len(w) PROVE w[i] = IF i = n THEN e ELSE d[i]
  <2>1. CASE i <= n
    BY <1>1, <1>5, <1>6, <1>8, <2>1
  <2>2. CASE i > n
    <3>1. i \in Nat /\ Len(w) = Len(d) /\ Len(b) = Len(d) - n
      BY <1>1, <1>3, <1>6, <1>7, <2>2
    <3>2. i - n \in 1 .. Len(d) - n /\ n + (i - n) = i /\ i \in 1 .. n + Len(b)
      BY <1>1, <2>2, <3>1
    <3>3. w[i] = b[i - n]
      BY <1>1, <1>6, <2>2, <3>1, <3>2
    <3>4. b[i - n] = d[n + (i - n)]
      BY <1>3, <3>2
    <3> QED
      BY <1>1, <2>2, <3>1, <3>2, <3>3, <3>4
  <2> QED
    BY <1>1, <1>6, <2>1, <2>2
<1> QED
  BY <1>1, <1>6, <1>7, <1>8, <1>9 DEF w

(* Two histories of a stream with the same seed agree as far as both go.   *)
LEMMA FollowsPrefix ==
  ASSUME NEW m, NEW r, NEW st, NEW base,
         NEW d \in Coordinates, NEW w \in Coordinates, Len(d) <= Len(w),
         Follows(m, d, base, r, st), Follows(m, w, base, r, st)
  PROVE  SubSeq(w, 1, Len(d)) = d
<1>1. Len(d) \in Nat /\ Len(w) \in Nat /\ \A i \in 1 .. Len(w) : w[i] \in Counter \X Int
  BY LenProperties, ElementOfSeq DEF Coordinates
<1> DEFINE p == SubSeq(w, 1, Len(d))
<1>2. p \in Coordinates /\ Len(p) = Len(d) /\ \A i \in 1 .. Len(d) : p[i] = w[i]
  <2>1. \A i \in 1 .. Len(d) : w[i] \in Counter \X Int
    BY <1>1
  <2>2. /\ p \in Seq(Counter \X Int) /\ Len(p) = IF 1 <= Len(d) THEN Len(d) - 1 + 1 ELSE 0
        /\ \A i \in 1 .. Len(d) - 1 + 1 : p[i] = w[1 + i - 1]
    BY <1>1, <2>1, SubSeqProperties
  <2> QED
    BY <1>1, <2>2 DEF Coordinates
<1>3. \A i \in 1 .. Len(d) : w[i] = d[i]
  <2>1. \A i \in 1 .. Len(d) : d[i] = <<SeedOf(base, r, st), At(m, r, st, i - 1)>>
    BY DEF Follows
  <2>2. \A i \in 1 .. Len(w) : w[i] = <<SeedOf(base, r, st), At(m, r, st, i - 1)>>
    BY DEF Follows
  <2>3. \A i \in 1 .. Len(d) : i \in 1 .. Len(w)
    BY <1>1
  <2> QED
    BY <2>1, <2>2, <2>3
<1> HIDE DEF p
<1>4. \A i \in 1 .. Len(d) : p[i] = d[i]
  BY <1>2, <1>3
<1>5. p = d
  BY <1>2, <1>4, SeqEqual DEF Coordinates
<1> QED
  BY <1>5 DEF p

-----------------------------------------------------------------------------
(* What every step keeps                                                   *)

(* The installed kinds never change.                                       *)
LEMMA EnabledFixed ==
  ASSUME [Next]_vars
  PROVE  enabled' = enabled /\ Streams' = Streams
<1>1. enabled' = enabled
  <2>1. ASSUME NEW r \in Rank, BeginMicrobatch(r) \/ BeginCapture(r) \/ EndCapture(r)
        PROVE  enabled' = enabled
    BY <2>1 DEF BeginMicrobatch, BeginCapture, EndCapture, launch
  <2>2. ASSUME NEW r \in Rank, NEW st \in Streams,
               Reserve(r, st) \/ LaunchDraw(r, st) \/ ExecuteDraw(r, st)
        PROVE  enabled' = enabled
    BY <2>2 DEF Reserve, LaunchDraw, ExecuteDraw, launch
  <2>3. CASE EndStep \/ Save \/ Crash \/ RefuseResume
    BY <2>3 DEF EndStep, Save, Crash, RefuseResume, launch
  <2>4. CASE StartFresh \/ Resume
    BY <2>4 DEF StartFresh, Resume, NewProcess
  <2>5. CASE UNCHANGED vars
    BY <2>5 DEF vars, launch
  <2> QED
    BY <2>1, <2>2, <2>3, <2>4, <2>5 DEF Next
<1> QED
  BY <1>1 DEF Streams

(* The checkpoints on the disk remain what they are, and more starts only  *)
(* leave room for more phases.                                             *)
LEMMA WrittenKept ==
  ASSUME NEW m \in BOOLEAN, NEW c, Written(m, c), enabled' = enabled, Streams' = Streams,
         starts \in Nat, starts' \in Nat, starts <= starts'
  PROVE  Written(m, c)'
<1>1. 0 .. starts \subseteq 0 .. starts'
  OBVIOUS
<1>2. c.phase \in [enabled -> 0 .. starts']
  BY <1>1 DEF Written
<1> QED
  BY <1>2 DEF Written, Current

\* A v1 table does not depend on the running counters.
LEMMA LegacyKept ==
  ASSUME NEW schema, enabled' = enabled, Streams' = Streams
  PROVE  Legacy(schema)' = Legacy(schema)
BY DEF Legacy, LegacyTable, LegacyDrawn

\* What was on disk stays as the invariant has it.
LEMMA DiskKept ==
  ASSUME NEW m \in BOOLEAN, Checkpoints(m), OneSeed, enabled' = enabled, Streams' = Streams,
         starts \in Nat, UNCHANGED <<starts, disk, phase, seedBase>>
  PROVE  Checkpoints(m)' /\ OneSeed'
<1>1. \A c \in disk : Written(m, c) => Written(m, c)'
  BY WrittenKept
<1>2. Legacy(IF m THEN "v1" ELSE "missing")' = Legacy(IF m THEN "v1" ELSE "missing")
  BY LegacyKept
<1>3. Checkpoints(m)'
  BY <1>1, <1>2 DEF Checkpoints
<1>4. OneSeed'
  BY DEF OneSeed, Current
<1> QED
  BY <1>3, <1>4

(* What a history says does not change while it and its seed stand.        *)
LEMMA HistoryKept ==
  ASSUME NEW m \in BOOLEAN, History(m), Streams' = Streams, UNCHANGED <<drawn, seedBase>>
  PROVE  History(m)'
BY DEF History

(* A running process has drawn no more than the whole job may.             *)
LEMMA Bounded ==
  ASSUME NEW m \in BOOLEAN, IInvOf(m), job = "up", NEW r \in Rank, NEW st \in Streams
  PROVE  /\ Extra(m, r, st) + pos[r][st] + left[r][st] <= Budget(st, Steps, 0)
         /\ Extra(m, r, st) \in Nat /\ pos[r][st] \in Nat /\ left[r][st] \in Nat
         /\ launched[r][st] \in Nat /\ Budget(st, Steps, 0) \in Nat
<1>1. st \in Stream
  BY DEF Streams
<1>a. MaxGA \in Nat /\ Steps \in Nat /\ MaxLag \in Nat
  BY Numbers
<1>b. Typed /\ TypeOK
  BY DEF IInvOf, Typed
<1>2. /\ micro[r] \in Nat /\ ga \in Nat /\ ga <= MaxGA /\ step \in Nat /\ step <= Steps
      /\ pos[r][st] \in Nat /\ left[r][st] \in Nat /\ launched[r][st] \in Nat
  <2>1. micro[r] \in 0 .. MaxGA /\ ga \in 1 .. MaxGA /\ step \in 0 .. Steps
    BY <1>b DEF TypeOK
  <2>2. pos[r][st] \in Nat /\ left[r][st] \in 0 .. 3 /\ launched[r][st] \in 0 .. MaxLag
    BY <1>b DEF TypeOK, Typed
  <2> QED
    BY <1>a, <2>1, <2>2
<1>3. micro[r] <= ga /\ (micro[r] # 0 => step < Steps)
  BY DEF IInvOf, Process
<1>4. Budget(st, step, micro[r]) <= Budget(st, Steps, 0)
  <2>1. CASE micro[r] = 0
    BY <1>1, <1>2, <1>a, <2>1, BudgetGrows
  <2>2. CASE micro[r] # 0
    <3>1. step < Steps /\ micro[r] <= MaxGA
      BY <1>2, <1>3, <1>a, <2>2
    <3>2. step < Steps /\ micro[r] <= MaxGA => Budget(st, step, micro[r]) <= Budget(st, Steps, 0)
      BY <1>1, <1>2, BudgetGrows
    <3> QED
      BY <3>1, <3>2
  <2> QED
    BY <2>1, <2>2
<1>5. Extra(m, r, st) + pos[r][st] + left[r][st] <= Budget(st, step, micro[r])
  BY DEF IInvOf, Position
<1>6. Budget(st, step, micro[r]) \in Nat /\ Budget(st, Steps, 0) \in Nat
  BY <1>1, <1>2, <1>a, BudgetGrows
<1>7. Extra(m, r, st) \in Nat
  BY <1>1, AtFacts, Numbers
<1> QED
  BY <1>2, <1>4, <1>5, <1>6, <1>7

(* Recording the n-th invocation with the counter it should have.          *)
LEMMA RecordStep ==
  ASSUME NEW m \in BOOLEAN, Typed, History(m), NEW r \in Rank, NEW st \in Streams,
         NEW n \in 1 .. Len(drawn[r][st]) + 1, next[r][st] = At(m, r, st, n - 1),
         Record(r, st, n), UNCHANGED <<enabled, Streams, seedBase>>
  PROVE  /\ drawn' \in [Rank -> [Streams -> Coordinates]]
         /\ History(m)'
         /\ \A q \in Rank, s \in Streams : /\ Len(drawn'[q][s]) >= Len(drawn[q][s])
                                           /\ Len(drawn'[q][s]) \in Nat
         /\ Len(drawn'[r][st]) >= n
<1> DEFINE d == drawn[r][st]
           e == <<SeedOf(seedBase[st[1]], r, st), next[r][st]>>
           w == Rewritten(d, n, e)
<1>1. st \in Stream /\ st[1] \in enabled /\ st[1] \in Kind /\ st[2] \in 0 .. Keys[st[1]] - 1
  BY InStreams, StreamFacts DEF Typed
<1>2. e \in Counter \X Int
  <2>1. seedBase[st[1]] \in Counter /\ next[r][st] \in Counter
    BY <1>1 DEF Typed, TypeOK
  <2>2. SeedFor(seedBase[st[1]], st[1], r, st[2]) \in Counter
    BY <1>1, <2>1, SeedTyped
  <2>a. \A x \in Counter : x \in Int
    BY Numbers
  <2>3. next[r][st] \in Int
    BY <2>1, <2>a, Zenon
  <2> QED
    BY <2>2, <2>3 DEF SeedOf
<1>3. d \in Seq(Counter \X Int)
  BY DEF Typed, Coordinates
<1>4. drawn' = [drawn EXCEPT ![r][st] = w]
  BY DEF Record, Rewritten, SeedOf
<1> HIDE DEF w, d, e
<1>5. /\ w \in Seq(Counter \X Int) /\ Len(w) \in Nat /\ Len(d) \in Nat
      /\ Len(w) >= Len(d) /\ Len(w) >= n
      /\ \A i \in 1 .. Len(w) : w[i] = IF i = n THEN e ELSE d[i]
      /\ \A i \in 1 .. Len(w) : i # n => i \in 1 .. Len(d)
  <2>1. n \in 1 .. Len(d) + 1
    BY DEF d
  <2> DEFINE M == Counter \X Int
  <2>2. d \in Seq(M) /\ e \in M
    BY <1>2, <1>3
  <2> HIDE DEF M
  <2>3. /\ w \in Seq(M) /\ Len(w) \in Nat /\ Len(d) \in Nat
        /\ Len(w) >= Len(d) /\ Len(w) >= n
        /\ \A i \in 1 .. Len(w) : w[i] = IF i = n THEN e ELSE d[i]
        /\ \A i \in 1 .. Len(w) : i # n => i \in 1 .. Len(d)
    BY <2>1, <2>2, WriteElement, Zenon DEF w
  <2> QED
    BY <2>3 DEF M
<1>6. Follows(m, w, seedBase[st[1]], r, st)
  <2>1. \A i \in 1 .. Len(d) : d[i] = <<SeedOf(seedBase[st[1]], r, st), At(m, r, st, i - 1)>>
    BY DEF History, Follows, d
  <2>2. e = <<SeedOf(seedBase[st[1]], r, st), At(m, r, st, n - 1)>>
    BY DEF e
  <2>3. \A i \in 1 .. Len(w) : w[i] = <<SeedOf(seedBase[st[1]], r, st), At(m, r, st, i - 1)>>
    BY <1>5, <2>1, <2>2
  <2> QED
    BY <2>3 DEF Follows
<1>7. \A q \in Rank, s \in Streams : drawn'[q][s] = IF q = r /\ s = st THEN w ELSE drawn[q][s]
  BY <1>4 DEF Typed
<1>8. drawn' \in [Rank -> [Streams -> Coordinates]]
  BY <1>4, <1>5 DEF Typed, Coordinates
<1>9. ASSUME NEW q \in Rank, NEW s \in Streams
      PROVE  /\ Follows(m, drawn'[q][s], seedBase[s[1]], q, s)
             /\ Len(drawn'[q][s]) >= Len(drawn[q][s]) /\ Len(drawn'[q][s]) \in Nat
  <2>1. CASE q = r /\ s = st
    BY <1>5, <1>6, <1>7, <2>1 DEF d
  <2>2. CASE ~(q = r /\ s = st)
    <3>1. drawn'[q][s] = drawn[q][s]
      BY <1>7, <2>2
    <3>2. Len(drawn[q][s]) \in Nat
      BY LenProperties DEF Typed, Coordinates
    <3> QED
      BY <3>1, <3>2 DEF History
  <2> QED
    BY <2>1, <2>2
<1>10. History(m)'
  BY <1>9 DEF History
<1>11. Len(drawn'[r][st]) >= n
  BY <1>5, <1>7
<1> QED
  BY <1>8, <1>9, <1>10, <1>11

-----------------------------------------------------------------------------
(* Training                                                                *)

(* The types of what a stream of a rank holds.                             *)
LEMMA Values ==
  ASSUME Typed, NEW r \in Rank, NEW st \in Streams
  PROVE  /\ st \in Stream /\ Draws(st) \in 1 .. 3 /\ (OnDevice(st) => Draws(st) = 1)
         /\ micro[r] \in Nat /\ micro[r] <= MaxGA /\ ga \in Nat \ {0} /\ ga <= MaxGA /\ MaxGA \in Nat
         /\ step \in Nat /\ step <= Steps /\ Steps \in Nat
         /\ pos[r][st] \in Nat /\ left[r][st] \in 0 .. 3
         /\ launched[r][st] \in Nat /\ launched[r][st] <= MaxLag /\ MaxLag \in Nat
         /\ drawn[r][st] \in Coordinates /\ Len(drawn[r][st]) \in Nat
         /\ next[r][st] \in Counter
<1>1. MaxGA \in Nat /\ Steps \in Nat /\ MaxLag \in Nat
  BY Numbers
<1>2. st \in Stream
  BY DEF Streams
<1>3. micro[r] \in 0 .. MaxGA /\ ga \in 1 .. MaxGA /\ step \in 0 .. Steps
  BY DEF Typed, TypeOK
<1>4. pos[r][st] \in Nat /\ left[r][st] \in 0 .. 3 /\ launched[r][st] \in 0 .. MaxLag
  BY DEF TypeOK, Typed
<1>5. drawn[r][st] \in Coordinates /\ next[r][st] \in Counter
  BY DEF TypeOK, Typed
<1>6. Len(drawn[r][st]) \in Nat
  BY <1>5, LenProperties DEF Coordinates
<1>7. Draws(st) \in 1 .. 3 /\ (OnDevice(st) => Draws(st) = 1)
  BY <1>2, StreamFacts
<1> QED
  BY <1>1, <1>2, <1>3, <1>4, <1>5, <1>6, <1>7

(* A microbatch begins when the draws of the one before are all made.      *)
LEMMA BeginMicrobatchStep ==
  ASSUME NEW m \in BOOLEAN, IInvOf(m), NEW r \in Rank, BeginMicrobatch(r),
         enabled' = enabled, Streams' = Streams
  PROVE  IInvOf(m)'
<1>a. /\ Typed /\ TypeOK /\ Process /\ HeadCount /\ Checkpoints(m) /\ OneSeed /\ History(m)
      /\ job = "up" /\ \A q \in Rank, st \in Streams : Position(m, q, st)
  BY DEF IInvOf, Typed, BeginMicrobatch
<1>b. /\ job' = job /\ step' = step /\ ga' = ga /\ starts' = starts /\ disk' = disk /\ drawn' = drawn
      /\ UNCHANGED <<seedBase, subBase, origin, next, launched, capture, graphed, pos, phase>>
      /\ step < Steps /\ micro[r] < ga /\ Idle(r)
  BY DEF BeginMicrobatch, launch, streams, device, ghosts
<1>c. /\ \A q \in Rank : micro'[q] = IF q = r THEN micro[r] + 1 ELSE micro[q]
      /\ \A q \in Rank, st \in Streams :
           left'[q][st] = IF q = r THEN Draws(st) ELSE left[q][st]
  BY <1>a DEF BeginMicrobatch, TypeOK
<1>d. \A st \in Streams : left[r][st] = 0
  BY <1>b DEF Idle
<1>1. Typed'
  <2>1. micro' \in [Rank -> 0 .. MaxGA]
    <3>1. micro[r] + 1 \in 0 .. MaxGA
      <4>1. micro[r] \in 0 .. MaxGA /\ ga \in 1 .. MaxGA /\ MaxGA \in Nat
        BY <1>a, Numbers DEF TypeOK
      <4> QED
        BY <1>b, <4>1
    <3> QED
      BY <1>a, <3>1 DEF BeginMicrobatch, TypeOK
  <2>2. left' \in [Rank -> [Streams -> 0 .. 3]]
    <3>1. [st \in Streams |-> Draws(st)] \in [Streams -> 0 .. 3]
      <4>1. \A st \in Streams : Draws(st) \in 0 .. 3
        BY <1>a, Values
      <4> QED
        BY <4>1
    <3> QED
      BY <1>a, <3>1 DEF BeginMicrobatch, TypeOK
  <2> QED
    BY <1>a, <1>b, <2>1, <2>2 DEF Typed, TypeOK
<1>2. Process'
  <2>1. ASSUME NEW q \in Rank
        PROVE  /\ micro'[q] <= ga /\ (micro'[q] # 0 => step < Steps)
               /\ \A st \in Streams : micro'[q] = 0 => left'[q][st] = 0
               /\ capture[q] # <<>> =>
                    "localcta" \in enabled /\ \A st \in Streams : left'[q][st] = 1 /\ launched[q][st] = 0
    <3>1. CASE q = r
      <4>1. micro'[q] = micro[r] + 1 /\ micro[r] \in Nat /\ ga \in Nat
        BY <1>a, <1>c, <3>1, Numbers DEF TypeOK
      <4>2. capture[q] = <<>>
        <5>1. PICK st \in Streams : TRUE
          BY <1>a, InStreams DEF Typed
        <5>2. left[q][st] # 1
          BY <1>d, <3>1
        <5> QED
          BY <1>a, <5>2 DEF Process
      <4> QED
        BY <1>b, <4>1, <4>2
    <3>2. CASE q # r
      BY <1>a, <1>c, <3>2 DEF Process
    <3> QED
      BY <3>1, <3>2
  <2> QED
    BY <1>a, <1>b, <2>1 DEF Process
<1>3. HeadCount'
  <2>1. ASSUME "head" \in enabled, NEW q \in Rank
        PROVE  pos[q][HeadStream] + left'[q][HeadStream] = Microbatches(step, origin, ga, micro'[q])
    <3>1. HeadStream \in Streams
      BY <1>a, <2>1, InStreams DEF Typed
    <3>2. /\ pos[q][HeadStream] + left[q][HeadStream] = Microbatches(step, origin, ga, micro[q])
          /\ origin <= step
      BY <1>a, <2>1 DEF HeadCount
    <3>3. CASE q = r
      <4>1. left'[q][HeadStream] = 1 /\ left[q][HeadStream] = 0 /\ micro'[q] = micro[q] + 1
        <5>1. Draws(HeadStream) = 1
          BY DEF Draws, OnDevice, HeadStream
        <5> QED
          BY <1>c, <1>d, <3>1, <3>3, <5>1
      <4>2. pos[q][HeadStream] \in Nat /\ micro[q] \in Nat /\ step \in Nat /\ ga \in Nat /\ origin \in Nat
        BY <1>a, <3>1, Values, Numbers DEF Typed
      <4>3. /\ Microbatches(step, origin, ga, micro'[q]) = Microbatches(step, origin, ga, micro[q]) + 1
            /\ Microbatches(step, origin, ga, micro[q]) \in Nat
        <5>1. step \in Nat /\ origin \in Nat /\ ga \in Nat /\ origin <= step
          BY <3>2, <4>2
        <5>2. \A u \in Nat : Microbatches(step, origin, ga, u) \in Nat
          BY <5>1, MicrobatchCounted
        <5>3. \A u \in Nat : Microbatches(step, origin, ga, u + 1) = Microbatches(step, origin, ga, u) + 1
          BY <5>1, MicrobatchCounted
        <5>4. micro[q] \in Nat
          BY <4>2
        <5>5. /\ Microbatches(step, origin, ga, micro[q] + 1) = Microbatches(step, origin, ga, micro[q]) + 1
              /\ Microbatches(step, origin, ga, micro[q]) \in Nat
          BY <5>2, <5>3, <5>4
        <5> QED
          BY <4>1, <5>5
      <4> QED
        BY <3>2, <4>1, <4>2, <4>3
    <3>4. CASE q # r
      BY <1>c, <3>1, <3>2, <3>4
    <3> QED
      BY <3>3, <3>4
  <2> QED
    BY <1>a, <1>b, <2>1 DEF HeadCount
<1>4. ASSUME NEW q \in Rank, NEW st \in Streams
      PROVE  Position(m, q, st)'
  <2>1. Position(m, q, st) /\ Held(q, st)' = Held(q, st)
    BY <1>a, <1>b DEF Held
  <2>2. Extra(m, q, st) + pos[q][st] + left'[q][st] <= Budget(st, step, micro'[q])
    <3>1. CASE q = r
      <4>1. /\ left'[q][st] = Draws(st) /\ left[q][st] = 0 /\ micro'[q] = micro[q] + 1
        BY <1>c, <1>d, <3>1
      <4>2. /\ Budget(st, step, micro[q] + 1) = Budget(st, step, micro[q]) + Draws(st)
            /\ Budget(st, step, micro[q]) \in Nat /\ Draws(st) \in Nat
            /\ pos[q][st] \in Nat /\ Extra(m, q, st) \in Nat
        <5>1. /\ st \in Stream /\ micro[q] \in Nat /\ step \in Nat /\ Draws(st) \in Nat
              /\ pos[q][st] \in Nat
          BY <1>a, Values
        <5>2. Extra(m, q, st) \in Nat
          BY <5>1, AtFacts
        <5> QED
          BY <5>1, <5>2, BudgetGrows
      <4>3. Extra(m, q, st) + pos[q][st] + left[q][st] <= Budget(st, step, micro[q])
        BY <2>1 DEF Position
      <4> QED
        BY <4>1, <4>2, <4>3
    <3>2. CASE q # r
      BY <1>c, <2>1, <3>2 DEF Position
    <3> QED
      BY <3>1, <3>2
  <2> QED
    BY <1>b, <2>1, <2>2 DEF Position
<1>5. starts \in Nat
  BY <1>a, Numbers DEF TypeOK
<1>6. Checkpoints(m)' /\ OneSeed' /\ History(m)'
  BY <1>a, <1>b, <1>5, DiskKept, HistoryKept
<1> QED
  BY <1>a, <1>b, <1>1, <1>2, <1>3, <1>4, <1>6 DEF IInvOf

(* The last microbatch of a step leaves no draw behind.                    *)
LEMMA EndStepStep ==
  ASSUME NEW m \in BOOLEAN, IInvOf(m), EndStep, enabled' = enabled, Streams' = Streams
  PROVE  IInvOf(m)'
<1>a. /\ Typed /\ TypeOK /\ Process /\ HeadCount /\ Checkpoints(m) /\ OneSeed /\ History(m)
      /\ job = "up" /\ \A q \in Rank, st \in Streams : Position(m, q, st)
  BY DEF IInvOf, Typed, EndStep
<1>b. /\ job' = job /\ step' = step + 1 /\ ga' = ga /\ starts' = starts /\ disk' = disk /\ drawn' = drawn
      /\ UNCHANGED <<left, seedBase, subBase, origin, next, launched, capture, graphed, pos, phase>>
      /\ step < Steps /\ \A q \in Rank : micro[q] = ga /\ micro'[q] = 0 /\ Idle(q)
  BY DEF EndStep, launch, streams, device, ghosts
<1>c. \A q \in Rank, st \in Streams : left[q][st] = 0
  BY <1>b DEF Idle
<1>d. step \in Nat /\ Steps \in Nat /\ ga \in Nat \ {0} /\ ga <= MaxGA /\ origin \in Nat
  BY <1>a, Numbers DEF Typed, TypeOK
<1>1. Typed'
  <2>1. micro' \in [Rank -> 0 .. MaxGA]
    BY Numbers DEF EndStep
  <2>2. step' \in 0 .. Steps
    BY <1>b, <1>d
  <2> QED
    BY <1>a, <1>b, <2>1, <2>2 DEF Typed, TypeOK
<1>2. Process'
  <2>1. \A q \in Rank : capture[q] = <<>>
    <3>1. Streams # {}
      BY <1>a, InStreams DEF Typed
    <3> QED
      BY <1>a, <1>c, <3>1 DEF Process
  <2> QED
    BY <1>a, <1>b, <1>c, <1>d, <2>1 DEF Process
<1>3. HeadCount'
  <2>1. ASSUME "head" \in enabled
        PROVE  /\ origin <= step + 1
               /\ \A q \in Rank : pos[q][HeadStream] + left[q][HeadStream]
                                    = Microbatches(step + 1, origin, ga, 0)
    <3>1. /\ \A q \in Rank : pos[q][HeadStream] + left[q][HeadStream]
                              = Microbatches(step, origin, ga, ga)
          /\ origin <= step
      BY <1>a, <1>b, <2>1 DEF HeadCount
    <3>2. Microbatches(step + 1, origin, ga, 0) = Microbatches(step, origin, ga, ga)
      BY <1>d, <3>1, StepCounted
    <3> QED
      BY <1>d, <3>1, <3>2
  <2> QED
    BY <1>a, <1>b, <2>1 DEF HeadCount
<1>4. ASSUME NEW q \in Rank, NEW st \in Streams
      PROVE  Position(m, q, st)'
  <2>1. Position(m, q, st) /\ Held(q, st)' = Held(q, st)
    BY <1>a, <1>b DEF Held
  <2>2. Extra(m, q, st) + pos[q][st] + left[q][st] <= Budget(st, step + 1, 0)
    <3>1. st \in Stream /\ pos[q][st] \in Nat /\ Extra(m, q, st) \in Nat /\ left[q][st] = 0
      BY <1>a, <1>c, Values, AtFacts
    <3>2. /\ Budget(st, step, ga) <= Budget(st, step + 1, 0)
          /\ Budget(st, step, ga) \in Nat /\ Budget(st, step + 1, 0) \in Nat
      <4>1. step + 1 \in Nat /\ ga \in Nat /\ 0 \in Nat /\ step \in Nat
        BY <1>d
      <4>2. Budget(st, step, ga) \in Nat /\ (ga <= MaxGA => Budget(st, step, ga) <= Budget(st, step + 1, 0))
        BY <3>1, <4>1, BudgetGrows
      <4>3. Budget(st, step + 1, 0) \in Nat
        BY <3>1, <4>1, BudgetGrows
      <4> QED
        BY <1>d, <4>2, <4>3
    <3>3. Extra(m, q, st) + pos[q][st] + left[q][st] <= Budget(st, step, ga)
      BY <1>b, <2>1 DEF Position
    <3> QED
      BY <3>1, <3>2, <3>3
  <2> QED
    BY <1>b, <2>1, <2>2 DEF Position
<1>5. starts \in Nat
  BY <1>a, Numbers DEF TypeOK
<1>6. Checkpoints(m)' /\ OneSeed' /\ History(m)'
  BY <1>a, <1>b, <1>5, DiskKept, HistoryKept
<1> QED
  BY <1>a, <1>b, <1>1, <1>2, <1>3, <1>4, <1>6 DEF IInvOf


(* The coordinate at hand is the one of the first invocation not executed  *)
(* yet, and the room that is left suffices for one more.                   *)
LEMMA AtHand ==
  ASSUME NEW m \in BOOLEAN, IInvOf(m), job = "up", NEW r \in Rank, NEW st \in Streams,
         capture[r] = <<>>, left[r][st] + launched[r][st] > 0
  PROVE  LET n == pos[r][st] - launched[r][st] + 1
         IN  /\ n \in 1 .. Len(drawn[r][st]) + 1 /\ n \in Nat
             /\ next[r][st] = At(m, r, st, n - 1)
             /\ At(m, r, st, n) \in Counter
             /\ At(m, r, st, n) = next[r][st] + Stride[st[1]]
<1> DEFINE l == launched[r][st]
           p == pos[r][st]
           a == left[r][st]
           x == Extra(m, r, st)
           b == Budget(st, Steps, 0)
           n == p - l + 1
           e == Len(drawn[r][st])
<1>1. /\ l <= p /\ p - l <= Len(drawn[r][st]) /\ next[r][st] = At(m, r, st, p - l)
  BY DEF IInvOf, Position, Held
<1>2. x + p + a <= b /\ x \in Nat /\ p \in Nat /\ a \in Nat /\ l \in Nat /\ b \in Nat
  BY Bounded
<1>3. st \in Stream /\ Len(drawn[r][st]) \in Nat
  BY Values DEF IInvOf
<1>b. a + l > 0
  OBVIOUS
<1>c. n = p - l + 1
  OBVIOUS
<1> HIDE DEF l, p, a, x, b, n, e
<1>d. l <= p /\ p - l <= e /\ p \in Nat /\ l \in Nat /\ e \in Nat
  BY <1>1, <1>2, <1>3 DEF e
<1>e. p - l \in Nat /\ n \in Nat /\ n - 1 = p - l /\ n \in 1 .. e + 1
  BY <1>c, <1>d
<1>4. p - l \in Nat /\ n = p - l + 1 /\ n \in Nat /\ n - 1 = p - l /\ n \in 1 .. Len(drawn[r][st]) + 1
  BY <1>c, <1>e DEF e
<1>5. At(m, r, st, n) = At(m, r, st, p - l) + Stride[st[1]]
  BY <1>3, <1>4, AtNext
<1>6. At(m, r, st, n) \in Counter
  <2>1. a + l - 1 \in Nat /\ x + n + (a + l - 1) <= b
    <3>1. a + l - 1 \in Nat
      BY <1>2, <1>b
    <3>2. x + n + (a + l - 1) = x + p + a
      BY <1>2, <1>c
    <3> QED
      BY <1>2, <3>1, <3>2
  <2>2. \A u \in Nat : x + n + u <= b => At(m, r, st, n) \in Counter
    BY <1>3, <1>4, AtFacts DEF x, b
  <2> QED
    BY <2>1, <2>2
<1> QED
  BY <1>1, <1>4, <1>5, <1>6 DEF n, p, l

(* A step that loses no invocation and changes no seed.                    *)
Grows ==
  /\ seedBase' = seedBase
  /\ \A r \in Rank, st \in Streams : Len(drawn'[r][st]) >= Len(drawn[r][st])

(* MXFP4 never overflows; the draw is the stream's next one.               *)
LEMMA ReserveStep ==
  ASSUME NEW m \in BOOLEAN, IInvOf(m), NEW r \in Rank, NEW st \in Streams, Reserve(r, st),
         enabled' = enabled, Streams' = Streams
  PROVE  IInvOf(m)' /\ Grows
<1>a. /\ Typed /\ TypeOK /\ Process /\ HeadCount /\ Checkpoints(m) /\ OneSeed /\ History(m)
      /\ job = "up" /\ \A q \in Rank, s \in Streams : Position(m, q, s)
  BY DEF IInvOf, Typed, Reserve, MayDraw
<1>b. /\ capture[r] = <<>> /\ left[r][st] > 0 /\ ~ OnDevice(st)
      /\ left' = [left EXCEPT ![r][st] = @ - 1]
      /\ UNCHANGED <<ga, starts, step, micro, seedBase, subBase, origin, launched, capture, graphed, disk>>
  BY DEF Reserve, MayDraw, launch, device
<1>c. launched[r][st] = 0 /\ left[r][st] \in 0 .. 3 /\ pos[r][st] \in Nat
      /\ next[r][st] \in Counter /\ drawn[r][st] \in Coordinates
  BY <1>a, <1>b, Values DEF Position
<1> DEFINE n == pos[r][st] + 1
<1>d. /\ n \in 1 .. Len(drawn[r][st]) + 1 /\ n \in Nat
      /\ next[r][st] = At(m, r, st, n - 1)
      /\ At(m, r, st, n) \in Counter
      /\ At(m, r, st, n) = next[r][st] + Stride[st[1]]
  <2>1. pos[r][st] - launched[r][st] + 1 = n /\ left[r][st] + launched[r][st] > 0
    BY <1>b, <1>c
  <2> QED
    BY <1>a, <1>b, <2>1, AtHand
<1>e. /\ job' = job /\ phase' = phase
      /\ next' = [next EXCEPT ![r][st] = At(m, r, st, n)]
      /\ pos' = [pos EXCEPT ![r][st] = n]
      /\ Record(r, st, n)
  <2>1. ~ (next[r][st] + Stride[st[1]] > Modulus - 1)
    <3>1. Modulus \in Nat
      BY Numbers
    <3> QED
      BY <1>d, <3>1 DEF Counter
  <2> QED
    BY <1>d, <2>1 DEF Reserve
<1>f. /\ drawn' \in [Rank -> [Streams -> Coordinates]]
      /\ History(m)'
      /\ \A q \in Rank, s \in Streams : /\ Len(drawn'[q][s]) >= Len(drawn[q][s])
                                        /\ Len(drawn'[q][s]) \in Nat
      /\ Len(drawn'[r][st]) >= n
  BY <1>a, <1>b, <1>d, <1>e, RecordStep
<1> HIDE DEF n
<1>g. \A q \in Rank, s \in Streams :
        /\ left'[q][s] = IF q = r /\ s = st THEN left[r][st] - 1 ELSE left[q][s]
        /\ next'[q][s] = IF q = r /\ s = st THEN At(m, r, st, n) ELSE next[q][s]
        /\ pos'[q][s] = IF q = r /\ s = st THEN n ELSE pos[q][s]
  BY <1>a, <1>b, <1>e DEF Typed, TypeOK
<1>1. Typed'
  <2>1. left' \in [Rank -> [Streams -> 0 .. 3]]
    <3>1. left[r][st] - 1 \in 0 .. 3
      BY <1>b, <1>c
    <3> QED
      BY <1>a, <1>b, <3>1 DEF TypeOK
  <2>2. next' \in [Rank -> [Streams -> Counter]]
    BY <1>a, <1>d, <1>e DEF TypeOK
  <2>3. pos' \in [Rank -> [Streams -> Nat]]
    BY <1>a, <1>d, <1>e DEF Typed
  <2> QED
    BY <1>a, <1>b, <1>e, <1>f, <2>1, <2>2, <2>3 DEF Typed, TypeOK
<1>2. Process'
  <2>1. ASSUME NEW q \in Rank
        PROVE  /\ \A s \in Streams : micro[q] = 0 => left'[q][s] = 0
               /\ capture[q] # <<>> => \A s \in Streams : left'[q][s] = 1
    <3>1. CASE q = r
      <4>1. micro[q] # 0
        BY <1>a, <1>b, <3>1 DEF Process
      <4> QED
        BY <1>b, <3>1, <4>1
    <3>2. CASE q # r
      BY <1>a, <1>g, <3>2 DEF Process
    <3> QED
      BY <3>1, <3>2
  <2> QED
    BY <1>a, <1>b, <1>e, <2>1 DEF Process
<1>3. HeadCount'
  BY <1>a, <1>b, InStreams DEF HeadCount, Typed
<1>4. ASSUME NEW q \in Rank, NEW s \in Streams
      PROVE  Position(m, q, s)'
  <2>1. CASE q = r /\ s = st
    <3>1. Held(q, s)' = At(m, q, s, n)
      BY <1>b, <1>g, <2>1 DEF Held
    <3>2. /\ launched[q][s] = 0 /\ pos'[q][s] = n /\ n - 0 = n /\ n >= 0 /\ Len(drawn'[q][s]) >= n
          /\ Len(drawn'[q][s]) \in Nat /\ n \in Nat
      BY <1>c, <1>d, <1>f, <1>g, <2>1
    <3>3. Extra(m, q, s) + n + left'[q][s] = Extra(m, q, s) + pos[q][s] + left[q][s]
      <4>1. Extra(m, q, s) \in Nat /\ n = pos[q][s] + 1 /\ left'[q][s] = left[q][s] - 1
        BY <1>a, <1>g, <2>1, Values, AtFacts DEF n
      <4> QED
        BY <1>c, <2>1, <4>1
    <3>4. Extra(m, q, s) + pos[q][s] + left[q][s] <= Budget(s, step, micro[q])
      BY <1>a DEF Position
    <3> QED
      BY <1>b, <3>1, <3>2, <3>3, <3>4 DEF Position
  <2>2. CASE ~(q = r /\ s = st)
    <3>1. Held(q, s)' = Held(q, s) /\ pos'[q][s] = pos[q][s] /\ left'[q][s] = left[q][s]
      BY <1>b, <1>g, <2>2 DEF Held
    <3>2. /\ pos[q][s] \in Nat /\ launched[q][s] \in Nat /\ Len(drawn[q][s]) \in Nat
          /\ Len(drawn'[q][s]) >= Len(drawn[q][s]) /\ Len(drawn'[q][s]) \in Nat
      BY <1>a, <1>f, Values
    <3>3. Position(m, q, s)
      BY <1>a
    <3> QED
      BY <1>b, <3>1, <3>2, <3>3 DEF Position
  <2> QED
    BY <2>1, <2>2
<1>5. starts \in Nat
  BY <1>a, Numbers DEF TypeOK
<1>6. Checkpoints(m)' /\ OneSeed'
  BY <1>a, <1>b, <1>e, <1>5, DiskKept
<1> QED
  BY <1>a, <1>b, <1>e, <1>f, <1>1, <1>2, <1>3, <1>4, <1>6 DEF IInvOf, Grows

(* A launch takes a draw of the microbatch and a place in flight.          *)
LEMMA LaunchDrawStep ==
  ASSUME NEW m \in BOOLEAN, IInvOf(m), NEW r \in Rank, NEW st \in Streams, LaunchDraw(r, st),
         enabled' = enabled, Streams' = Streams
  PROVE  IInvOf(m)'
<1>a. /\ Typed /\ TypeOK /\ Process /\ HeadCount /\ Checkpoints(m) /\ OneSeed /\ History(m)
      /\ job = "up" /\ \A q \in Rank, s \in Streams : Position(m, q, s)
  BY DEF IInvOf, Typed, LaunchDraw, MayDraw
<1>b. /\ capture[r] = <<>> /\ left[r][st] > 0 /\ OnDevice(st) /\ launched[r][st] < MaxLag
      /\ left' = [left EXCEPT ![r][st] = @ - 1]
      /\ launched' = [launched EXCEPT ![r][st] = @ + 1]
      /\ pos' = [pos EXCEPT ![r][st] = @ + 1]
      /\ UNCHANGED <<ga, starts, job, step, micro, seedBase, subBase, origin, next, capture, graphed,
                     disk, drawn, phase>>
  BY DEF LaunchDraw, MayDraw, launch, streams
<1>c. /\ left[r][st] \in 0 .. 3 /\ pos[r][st] \in Nat
      /\ launched[r][st] \in Nat /\ MaxLag \in Nat
  BY <1>a, Values
<1>g. \A q \in Rank, s \in Streams :
        /\ left'[q][s] = IF q = r /\ s = st THEN left[r][st] - 1 ELSE left[q][s]
        /\ launched'[q][s] = IF q = r /\ s = st THEN launched[r][st] + 1 ELSE launched[q][s]
        /\ pos'[q][s] = IF q = r /\ s = st THEN pos[r][st] + 1 ELSE pos[q][s]
  BY <1>a, <1>b DEF Typed, TypeOK
<1>1. Typed'
  <2>1. left' \in [Rank -> [Streams -> 0 .. 3]]
    <3>1. left[r][st] - 1 \in 0 .. 3
      BY <1>b, <1>c
    <3> QED
      BY <1>a, <1>b, <3>1 DEF TypeOK
  <2>2. launched' \in [Rank -> [Streams -> 0 .. MaxLag]]
    <3>1. launched[r][st] + 1 \in 0 .. MaxLag
      BY <1>b, <1>c
    <3> QED
      BY <1>a, <1>b, <3>1 DEF TypeOK
  <2>3. pos' \in [Rank -> [Streams -> Nat]]
    <3>1. pos[r][st] + 1 \in Nat
      BY <1>c
    <3> QED
      BY <1>a, <1>b, <3>1 DEF Typed
  <2> QED
    BY <1>a, <1>b, <2>1, <2>2, <2>3 DEF Typed, TypeOK
<1>2. Process'
  <2>1. ASSUME NEW q \in Rank
        PROVE  /\ \A s \in Streams : micro[q] = 0 => left'[q][s] = 0
               /\ capture[q] # <<>> => \A s \in Streams : left'[q][s] = 1 /\ launched'[q][s] = 0
    <3>1. CASE q = r
      <4>1. micro[q] # 0
        BY <1>a, <1>b, <3>1 DEF Process
      <4> QED
        BY <1>b, <3>1, <4>1
    <3>2. CASE q # r
      BY <1>a, <1>g, <3>2 DEF Process
    <3> QED
      BY <3>1, <3>2
  <2> QED
    BY <1>a, <1>b, <2>1 DEF Process
<1>7. ASSUME NEW q \in Rank, NEW s \in Streams
      PROVE  pos'[q][s] + left'[q][s] = pos[q][s] + left[q][s]
  <2>1. CASE q = r /\ s = st
    <3>1. pos'[q][s] = pos[q][s] + 1 /\ left'[q][s] = left[q][s] - 1
      BY <1>g, <2>1
    <3>2. pos[q][s] \in Nat /\ left[q][s] \in 0 .. 3
      BY <1>c, <2>1
    <3> QED
      BY <3>1, <3>2
  <2>2. CASE ~(q = r /\ s = st)
    BY <1>g, <2>2
  <2> QED
    BY <2>1, <2>2
<1>3. HeadCount'
  <2>1. "head" \in enabled => HeadStream \in Streams
    BY <1>a, InStreams DEF Typed
  <2> QED
    BY <1>a, <1>b, <1>7, <2>1 DEF HeadCount
<1>4. ASSUME NEW q \in Rank, NEW s \in Streams
      PROVE  Position(m, q, s)'
  <2>1. Held(q, s)' = Held(q, s) /\ Position(m, q, s)
    BY <1>a, <1>b DEF Held
  <2>2. /\ pos[q][s] \in Nat /\ launched[q][s] \in Nat /\ pos'[q][s] \in Nat /\ launched'[q][s] \in Nat
        /\ pos'[q][s] - launched'[q][s] = pos[q][s] - launched[q][s]
        /\ (launched'[q][s] <= pos'[q][s] <=> launched[q][s] <= pos[q][s])
        /\ (~ OnDevice(s) => launched'[q][s] = launched[q][s])
    <3>1. pos[q][s] \in Nat /\ launched[q][s] \in Nat
      BY <1>a, Values
    <3>2. CASE q = r /\ s = st
      <4>1. pos'[q][s] = pos[q][s] + 1 /\ launched'[q][s] = launched[q][s] + 1 /\ OnDevice(s)
        BY <1>b, <1>g, <3>2
      <4> QED
        BY <3>1, <4>1
    <3>3. CASE ~(q = r /\ s = st)
      <4>1. pos'[q][s] = pos[q][s] /\ launched'[q][s] = launched[q][s]
        BY <1>g, <3>3
      <4> QED
        BY <3>1, <4>1
    <3> QED
      BY <3>2, <3>3
  <2>3. Extra(m, q, s) + pos'[q][s] + left'[q][s] = Extra(m, q, s) + pos[q][s] + left[q][s]
    <3>1. Extra(m, q, s) \in Nat /\ left[q][s] \in Nat /\ left'[q][s] \in Nat
      <4>1. Extra(m, q, s) \in Nat /\ left[q][s] \in 0 .. 3
        BY <1>a, Values, AtFacts
      <4>2. left'[q][s] \in 0 .. 3
        BY <1>1 DEF Typed, TypeOK
      <4> QED
        BY <4>1, <4>2
    <3> QED
      BY <1>7, <2>2, <3>1
  <2> QED
    BY <1>b, <2>1, <2>2, <2>3 DEF Position
<1>5. starts \in Nat
  BY <1>a, Numbers DEF TypeOK
<1>6. Checkpoints(m)' /\ OneSeed' /\ History(m)'
  BY <1>a, <1>b, <1>5, DiskKept, HistoryKept
<1> QED
  BY <1>a, <1>b, <1>1, <1>2, <1>3, <1>4, <1>6 DEF IInvOf

(* The kernel takes the oldest draw in flight, and its counter never wraps.*)
LEMMA ExecuteDrawStep ==
  ASSUME NEW m \in BOOLEAN, IInvOf(m), NEW r \in Rank, NEW st \in Streams, ExecuteDraw(r, st),
         enabled' = enabled, Streams' = Streams
  PROVE  IInvOf(m)' /\ Grows
<1>a. /\ Typed /\ TypeOK /\ Process /\ HeadCount /\ Checkpoints(m) /\ OneSeed /\ History(m)
      /\ job = "up" /\ \A q \in Rank, s \in Streams : Position(m, q, s)
  BY DEF IInvOf, Typed, ExecuteDraw
<1> DEFINE n == pos[r][st] - launched[r][st] + 1
<1>b. /\ launched[r][st] > 0
      /\ launched' = [launched EXCEPT ![r][st] = @ - 1]
      /\ next' = [next EXCEPT ![r][st] = (@ + Stride[st[1]]) % Modulus]
      /\ Record(r, st, n)
      /\ UNCHANGED <<ga, starts, job, step, micro, left, seedBase, subBase, origin, capture, graphed,
                     disk, pos, phase>>
  BY DEF ExecuteDraw, launch, loop
<1>c. /\ left[r][st] \in 0 .. 3 /\ pos[r][st] \in Nat /\ launched[r][st] \in Nat
      /\ launched[r][st] <= MaxLag /\ MaxLag \in Nat
  BY <1>a, Values
<1>d. capture[r] = <<>>
  BY <1>a, <1>b DEF Process
<1>e. /\ n \in 1 .. Len(drawn[r][st]) + 1 /\ n \in Nat
      /\ next[r][st] = At(m, r, st, n - 1)
      /\ At(m, r, st, n) \in Counter
      /\ At(m, r, st, n) = next[r][st] + Stride[st[1]]
  <2>1. left[r][st] + launched[r][st] > 0
    BY <1>b, <1>c
  <2> QED
    BY <1>a, <1>d, <2>1, AtHand
<1>f. /\ drawn' \in [Rank -> [Streams -> Coordinates]]
      /\ History(m)'
      /\ \A q \in Rank, s \in Streams : /\ Len(drawn'[q][s]) >= Len(drawn[q][s])
                                        /\ Len(drawn'[q][s]) \in Nat
      /\ Len(drawn'[r][st]) >= n
  <2> HIDE DEF n
  <2> QED
    BY <1>a, <1>b, <1>e, RecordStep
<1>h. next' = [next EXCEPT ![r][st] = At(m, r, st, n)]
  <2>1. \A v \in Counter : v % Modulus = v
    BY Numbers DEF Counter
  <2> QED
    BY <1>b, <1>e, <2>1
<1>i. n = pos[r][st] - (launched[r][st] - 1)
  BY <1>c
<1> HIDE DEF n
<1>g. \A q \in Rank, s \in Streams :
        /\ next'[q][s] = IF q = r /\ s = st THEN At(m, r, st, n) ELSE next[q][s]
        /\ launched'[q][s] = IF q = r /\ s = st THEN launched[r][st] - 1 ELSE launched[q][s]
  <2>1. next \in [Rank -> [Streams -> Counter]] /\ launched \in [Rank -> [Streams -> 0 .. MaxLag]]
    BY <1>a DEF TypeOK
  <2>2. /\ launched' = [launched EXCEPT ![r][st] = @ - 1]
        /\ next' = [next EXCEPT ![r][st] = At(m, r, st, n)]
    BY <1>b, <1>h
  <2>3. ASSUME NEW q \in Rank, NEW s \in Streams
        PROVE  next'[q][s] = IF q = r /\ s = st THEN At(m, r, st, n) ELSE next[q][s]
    BY <2>1, <2>2
  <2>4. ASSUME NEW q \in Rank, NEW s \in Streams
        PROVE  launched'[q][s] = IF q = r /\ s = st THEN launched[r][st] - 1 ELSE launched[q][s]
    BY <2>1, <2>2
  <2> QED
    BY <2>3, <2>4
<1>1. Typed'
  <2>1. launched' \in [Rank -> [Streams -> 0 .. MaxLag]]
    <3>1. launched[r][st] - 1 \in 0 .. MaxLag
      BY <1>b, <1>c
    <3> QED
      BY <1>a, <1>b, <3>1 DEF TypeOK
  <2>2. next' \in [Rank -> [Streams -> Counter]]
    BY <1>a, <1>e, <1>h DEF TypeOK
  <2> QED
    BY <1>a, <1>b, <1>f, <2>1, <2>2 DEF Typed, TypeOK
<1>2. Process'
  <2>1. \A q \in Rank : capture[q] # <<>> => \A s \in Streams : launched'[q][s] = 0
    BY <1>a, <1>d, <1>g DEF Process
  <2> QED
    BY <1>a, <1>b, <2>1 DEF Process
<1>3. HeadCount'
  BY <1>a, <1>b DEF HeadCount
<1>4. ASSUME NEW q \in Rank, NEW s \in Streams
      PROVE  Position(m, q, s)'
  <2>1. Position(m, q, s)
    BY <1>a
  <2>2. CASE q = r /\ s = st
    <3>1. Held(q, s)' = At(m, q, s, n)
      BY <1>b, <1>d, <1>g, <2>2 DEF Held
    <3>2. /\ launched'[q][s] <= pos[q][s] /\ pos[q][s] - launched'[q][s] = n
          /\ n <= Len(drawn'[q][s]) /\ OnDevice(s)
      <4>1. launched[q][s] <= pos[q][s] /\ (~ OnDevice(s) => launched[q][s] = 0)
        BY <2>1 DEF Position
      <4> QED
        BY <1>b, <1>c, <1>e, <1>f, <1>g, <1>i, <2>2, <4>1
    <3> QED
      BY <1>b, <2>1, <3>1, <3>2 DEF Position
  <2>3. CASE ~(q = r /\ s = st)
    <3>1. Held(q, s)' = Held(q, s) /\ launched'[q][s] = launched[q][s]
      BY <1>b, <1>g, <2>3 DEF Held
    <3>2. /\ pos[q][s] \in Nat /\ launched[q][s] \in Nat /\ Len(drawn[q][s]) \in Nat
          /\ Len(drawn'[q][s]) >= Len(drawn[q][s]) /\ Len(drawn'[q][s]) \in Nat
      BY <1>a, <1>f, Values
    <3>3. pos[q][s] - launched[q][s] <= Len(drawn'[q][s])
      <4>1. pos[q][s] - launched[q][s] <= Len(drawn[q][s])
        BY <2>1 DEF Position
      <4> QED
        BY <3>2, <4>1
    <3> QED
      BY <1>b, <2>1, <3>1, <3>3 DEF Position
  <2> QED
    BY <2>2, <2>3
<1>5. starts \in Nat
  BY <1>a, Numbers DEF TypeOK
<1>6. Checkpoints(m)' /\ OneSeed'
  BY <1>a, <1>b, <1>5, DiskKept
<1> QED
  BY <1>a, <1>b, <1>f, <1>1, <1>2, <1>3, <1>4, <1>6 DEF IInvOf, Grows

-----------------------------------------------------------------------------
(* Captures                                                                *)

(* A job with the localCTA kind has device streams only.                   *)
LEMMA CaptureStreams ==
  ASSUME enabled \in {{"mxfp4"}, {"localcta", "head"}}, "localcta" \in enabled
  PROVE  WoStream \in Streams /\ \A st \in Streams : Draws(st) = 1
<1>1. "head" \in enabled
  OBVIOUS
<1>2. \A st \in Streams : OnDevice(st)
  BY <1>1, InStreams
<1> QED
  BY <1>2, InStreams DEF Draws

(* The capture keeps the counter that its synthetic passes spoil.          *)
LEMMA BeginCaptureStep ==
  ASSUME NEW m \in BOOLEAN, IInvOf(m), NEW r \in Rank, BeginCapture(r),
         enabled' = enabled, Streams' = Streams
  PROVE  IInvOf(m)'
<1>a. /\ Typed /\ TypeOK /\ Process /\ HeadCount /\ Checkpoints(m) /\ OneSeed /\ History(m)
      /\ job = "up" /\ \A q \in Rank, s \in Streams : Position(m, q, s)
  BY DEF IInvOf, Typed, BeginCapture
<1>b. /\ "localcta" \in enabled /\ left[r] = [st \in Streams |-> Draws(st)]
      /\ capture[r] = <<>> /\ Synchronized(r)
      /\ capture' = [capture EXCEPT ![r] = <<next[r][WoStream]>>]
      /\ next' = [next EXCEPT ![r][WoStream] = (@ + 3 * Stride["localcta"]) % Modulus]
      /\ UNCHANGED <<ga, starts, job, step, micro, left, seedBase, subBase, origin, launched, graphed,
                     disk, drawn, pos, phase>>
  BY DEF BeginCapture, launch, loop, ghosts
<1>c. WoStream \in Streams /\ \A st \in Streams : Draws(st) = 1
  BY <1>a, <1>b, CaptureStreams DEF Typed
<1>d. next[r][WoStream] \in Counter
  BY <1>a, <1>c DEF TypeOK
<1>e. (next[r][WoStream] + 3 * Stride["localcta"]) % Modulus \in Counter
  <2>1. Modulus \in Nat \ {0} /\ Stride["localcta"] \in Nat
    BY Numbers DEF Kind
  <2> DEFINE x == next[r][WoStream] + 3 * Stride["localcta"]
  <2>2. x \in Nat
    BY <1>d, <2>1, Numbers DEF Counter
  <2> HIDE DEF x
  <2>3. x % Modulus \in 0 .. Modulus - 1
    BY <2>1, <2>2
  <2> QED
    BY <2>3 DEF x, Counter
<1>1. Typed'
  <2>1. next' \in [Rank -> [Streams -> Counter]]
    BY <1>a, <1>b, <1>e DEF TypeOK
  <2>2. capture' \in [Rank -> Seq(Counter)] /\ \A q \in Rank : Len(capture'[q]) <= 1
    <3>1. <<next[r][WoStream]>> \in Seq(Counter) /\ Len(<<next[r][WoStream]>>) = 1
      BY <1>d
    <3> QED
      BY <1>a, <1>b, <3>1 DEF Typed
  <2> QED
    BY <1>a, <1>b, <2>1, <2>2 DEF Typed, TypeOK
<1>2. Process'
  <2>1. \A st \in Streams : left[r][st] = 1 /\ launched[r][st] = 0
    BY <1>b, <1>c DEF Synchronized
  <2>2. \A q \in Rank : capture'[q] = IF q = r THEN <<next[r][WoStream]>> ELSE capture[q]
    BY <1>a, <1>b DEF Typed
  <2> QED
    BY <1>a, <1>b, <2>1, <2>2 DEF Process
<1>3. HeadCount'
  BY <1>a, <1>b DEF HeadCount
<1>4. ASSUME NEW q \in Rank, NEW s \in Streams
      PROVE  Position(m, q, s)'
  <2>1. Held(q, s)' = Held(q, s)
    <3>1. CASE q = r
      <4>1. capture'[q] = <<next[r][WoStream]>>
        BY <1>a, <1>b, <3>1 DEF Typed
      <4>2. capture'[q] # <<>> /\ capture'[q][1] = next[r][WoStream]
        BY <4>1
      <4>3. s # WoStream => next'[q][s] = next[q][s]
        BY <1>a, <1>b, <3>1 DEF TypeOK
      <4> QED
        BY <1>b, <3>1, <4>2, <4>3 DEF Held
    <3>2. CASE q # r
      <4>1. capture'[q] = capture[q] /\ next'[q] = next[q]
        BY <1>a, <1>b, <3>2 DEF Typed, TypeOK
      <4> QED
        BY <4>1 DEF Held
    <3> QED
      BY <3>1, <3>2
  <2> QED
    BY <1>a, <1>b, <2>1 DEF Position
<1>5. starts \in Nat
  BY <1>a, Numbers DEF TypeOK
<1>6. Checkpoints(m)' /\ OneSeed' /\ History(m)'
  BY <1>a, <1>b, <1>5, DiskKept, HistoryKept
<1> QED
  BY <1>a, <1>b, <1>1, <1>2, <1>3, <1>4, <1>6 DEF IInvOf

(* And puts it back.                                                       *)
LEMMA EndCaptureStep ==
  ASSUME NEW m \in BOOLEAN, IInvOf(m), NEW r \in Rank, EndCapture(r),
         enabled' = enabled, Streams' = Streams
  PROVE  IInvOf(m)'
<1>a. /\ Typed /\ TypeOK /\ Process /\ HeadCount /\ Checkpoints(m) /\ OneSeed /\ History(m)
      /\ job = "up" /\ \A q \in Rank, s \in Streams : Position(m, q, s)
  BY DEF IInvOf, Typed, EndCapture
<1>b. /\ capture[r] # <<>>
      /\ capture' = [capture EXCEPT ![r] = <<>>]
      /\ graphed' = [graphed EXCEPT ![r] = TRUE]
      /\ next' = [next EXCEPT ![r][WoStream] = capture[r][1]]
      /\ UNCHANGED <<ga, starts, job, step, micro, left, seedBase, subBase, origin, launched,
                     disk, drawn, pos, phase>>
  BY DEF EndCapture, launch, loop, ghosts
<1>c. WoStream \in Streams
  BY <1>a, <1>b, CaptureStreams DEF Typed, Process
<1>d. capture[r][1] \in Counter
  <2>1. capture[r] \in Seq(Counter)
    BY <1>a DEF Typed
  <2>2. Len(capture[r]) \in Nat /\ Len(capture[r]) # 0
    BY <1>b, <2>1, EmptySeq, LenProperties
  <2>3. 1 \in 1 .. Len(capture[r])
    BY <2>2
  <2> QED
    BY <2>1, <2>3, ElementOfSeq
<1>1. Typed'
  <2>1. next' \in [Rank -> [Streams -> Counter]]
    BY <1>a, <1>b, <1>d DEF TypeOK
  <2>2. capture' \in [Rank -> Seq(Counter)] /\ \A q \in Rank : Len(capture'[q]) <= 1
    <3>1. <<>> \in Seq(Counter) /\ Len(<<>>) = 0
      OBVIOUS
    <3> QED
      BY <1>a, <1>b, <3>1 DEF Typed
  <2>3. graphed' \in [Rank -> BOOLEAN]
    BY <1>a, <1>b DEF TypeOK
  <2> QED
    BY <1>a, <1>b, <2>1, <2>2, <2>3 DEF Typed, TypeOK
<1>2. Process'
  <2>2. \A q \in Rank : capture'[q] # <<>> => capture[q] # <<>>
    BY <1>a, <1>b DEF Typed
  <2> QED
    BY <1>a, <1>b, <2>2 DEF Process
<1>3. HeadCount'
  BY <1>a, <1>b DEF HeadCount
<1>4. ASSUME NEW q \in Rank, NEW s \in Streams
      PROVE  Position(m, q, s)'
  <2>1. Held(q, s)' = Held(q, s)
    <3>1. CASE q = r
      <4>1. capture'[q] = <<>>
        BY <1>a, <1>b, <3>1 DEF Typed
      <4>2. next'[q][s] = IF s = WoStream THEN capture[r][1] ELSE next[q][s]
        BY <1>a, <1>b, <3>1 DEF TypeOK
      <4> QED
        BY <1>b, <3>1, <4>1, <4>2 DEF Held
    <3>2. CASE q # r
      <4>1. capture'[q] = capture[q] /\ next'[q] = next[q]
        BY <1>a, <1>b, <3>2 DEF Typed, TypeOK
      <4> QED
        BY <4>1 DEF Held
    <3> QED
      BY <3>1, <3>2
  <2> QED
    BY <1>a, <1>b, <2>1 DEF Position
<1>5. starts \in Nat
  BY <1>a, Numbers DEF TypeOK
<1>6. Checkpoints(m)' /\ OneSeed' /\ History(m)'
  BY <1>a, <1>b, <1>5, DiskKept, HistoryKept
<1> QED
  BY <1>a, <1>b, <1>1, <1>2, <1>3, <1>4, <1>6 DEF IInvOf

-----------------------------------------------------------------------------
(* Saving and stopping                                                     *)

(* The counter validate_progress expects of the head.                      *)
LEMMA HeadExpected ==
  ASSUME NEW m \in BOOLEAN, NEW r \in Rank, NEW s \in Nat, NEW o \in Nat, o <= s, NEW g \in Nat
  PROVE  ExpectedNext(UserBase["head"], o, s, g) = At(m, r, HeadStream, Microbatches(s, o, g, 0))
<1>1. s - o \in Nat
  OBVIOUS
<1> DEFINE x == (s - o) * g
<1>2. x \in Nat
  BY <1>1, Products
<1> HIDE DEF x
<1>3. 0 + (x + 0) = x
  BY <1>2
<1>4. HeadStream[1] = "head" /\ Extra(m, r, HeadStream) = 0
  BY DEF HeadStream, Extra
<1> QED
  BY <1>3, <1>4 DEF ExpectedNext, At, Microbatches, x

(* Between steps, with nothing in flight, every counter is where its       *)
(* stream's invocations say.                                               *)
LEMMA Boundary ==
  ASSUME NEW m \in BOOLEAN, IInvOf(m), job = "up",
         \A r \in Rank : micro[r] = 0 /\ Synchronized(r)
  PROVE  \A r \in Rank, st \in Streams :
           /\ left[r][st] = 0 /\ next[r][st] = At(m, r, st, pos[r][st])
           /\ next[r][st] \in Counter
           /\ pos[r][st] <= Len(drawn[r][st])
           /\ Extra(m, r, st) + pos[r][st] <= Budget(st, step, 0)
<1>a. Typed /\ TypeOK /\ Process /\ \A r \in Rank, st \in Streams : Position(m, r, st)
  BY DEF IInvOf, Typed
<1> SUFFICES ASSUME NEW r \in Rank, NEW st \in Streams
             PROVE  /\ left[r][st] = 0 /\ next[r][st] = At(m, r, st, pos[r][st])
                    /\ next[r][st] \in Counter
                    /\ pos[r][st] <= Len(drawn[r][st])
                    /\ Extra(m, r, st) + pos[r][st] <= Budget(st, step, 0)
  OBVIOUS
<1>1. left[r][st] = 0 /\ launched[r][st] = 0 /\ micro[r] = 0 /\ capture[r] = <<>>
  BY <1>a DEF Process, Synchronized
<1>2. pos[r][st] \in Nat /\ Extra(m, r, st) \in Nat /\ next[r][st] \in Counter
  BY <1>a, Values, AtFacts
<1>3. /\ pos[r][st] - 0 = pos[r][st]
      /\ Extra(m, r, st) + pos[r][st] + 0 = Extra(m, r, st) + pos[r][st]
  BY <1>2
<1>4. /\ pos[r][st] - launched[r][st] <= Len(drawn[r][st])
      /\ Held(r, st) = At(m, r, st, pos[r][st] - launched[r][st])
      /\ Extra(m, r, st) + pos[r][st] + left[r][st] <= Budget(st, step, micro[r])
  BY <1>a DEF Position
<1> QED
  BY <1>1, <1>2, <1>3, <1>4 DEF Held

(* What is saved is a checkpoint of this job, and no check raises.         *)
LEMMA SaveStep ==
  ASSUME NEW m \in BOOLEAN, IInvOf(m), Save, enabled' = enabled, Streams' = Streams
  PROVE  IInvOf(m)'
<1>a. /\ Typed /\ TypeOK /\ Process /\ HeadCount /\ Checkpoints(m) /\ OneSeed /\ History(m)
      /\ job = "up" /\ \A q \in Rank, s \in Streams : Position(m, q, s)
  BY DEF IInvOf, Typed, Save
<1>b. /\ step > 0 /\ \A r \in Rank : micro[r] = 0 /\ Synchronized(r)
      /\ UNCHANGED <<ga, starts, step, micro, left, seedBase, subBase, origin, next, launched, capture,
                     graphed, drawn, pos, phase>>
  BY DEF Save, launch, loop, streams, device, ghosts
<1>c. \A r \in Rank, st \in Streams :
        /\ left[r][st] = 0 /\ next[r][st] = At(m, r, st, pos[r][st])
        /\ next[r][st] \in Counter
        /\ pos[r][st] <= Len(drawn[r][st])
        /\ Extra(m, r, st) + pos[r][st] <= Budget(st, step, 0)
  BY <1>a, <1>b, Boundary
<1>d. step \in 1 .. Steps /\ ga \in 1 .. MaxGA /\ origin \in Nat /\ step \in Nat /\ ga \in Nat
  BY <1>a, <1>b, Numbers DEF Typed, TypeOK
<1> DEFINE saved == GatherRankStates
           new == [step |-> step, schema |-> [k \in enabled |-> "current"],
                   seed |-> seedBase, base |-> subBase, origin |-> origin,
                   ga |-> ga, table |-> saved, drawn |-> drawn, pos |-> pos, phase |-> phase]
<1>e. \A r \in Rank, st \in Streams :
        saved[r][st] = <<AsSigned(SeedOf(seedBase[st[1]], r, st)), AsSigned(At(m, r, st, pos[r][st]))>>
  BY <1>c DEF GatherRankStates, LocalStateMatrix, SeedOf
<1>f. "head" \in enabled =>
        /\ origin <= step
        /\ \A r \in Rank : pos[r][HeadStream] = Microbatches(step, origin, ga, 0)
  <2>1. ASSUME "head" \in enabled, NEW r \in Rank
        PROVE  pos[r][HeadStream] = Microbatches(step, origin, ga, 0)
    <3>1. HeadStream \in Streams
      BY <1>a, <2>1, InStreams DEF Typed
    <3>2. pos[r][HeadStream] + left[r][HeadStream] = Microbatches(step, origin, ga, micro[r])
      BY <1>a, <2>1 DEF HeadCount
    <3>3. left[r][HeadStream] = 0 /\ micro[r] = 0 /\ pos[r][HeadStream] \in Nat
      BY <1>a, <1>b, <1>c, <3>1, Values
    <3> QED
      BY <3>2, <3>3
  <2> QED
    BY <1>a, <2>1 DEF HeadCount
<1>g. "head" \in enabled =>
        ~ ProgressWrong(subBase["head"], origin, step, ga, [r \in Rank |-> saved[r][HeadStream][2]])
  <2> SUFFICES ASSUME "head" \in enabled
               PROVE  ~ ProgressWrong(subBase["head"], origin, step, ga,
                                      [r \in Rank |-> saved[r][HeadStream][2]])
    OBVIOUS
  <2>1. HeadStream \in Streams /\ subBase["head"] = UserBase["head"]
    BY <1>a, InStreams DEF Typed
  <2>2. \A r \in Rank : ExpectedNext(subBase["head"], origin, step, ga) = At(m, r, HeadStream, pos[r][HeadStream])
    BY <1>d, <1>f, <2>1, HeadExpected
  <2>3. \A r \in Rank : saved[r][HeadStream][2] = AsSigned(ExpectedNext(subBase["head"], origin, step, ga))
    BY <1>e, <2>1, <2>2
  <2>4. ~ (ExpectedNext(subBase["head"], origin, step, ga) > Modulus - 1)
    <3>1. 0 \in Rank /\ Modulus \in Nat
      BY Numbers
    <3>2. ExpectedNext(subBase["head"], origin, step, ga) \in Counter
      BY <1>c, <2>1, <2>2, <3>1
    <3> QED
      BY <3>1, <3>2 DEF Counter
  <2> HIDE DEF saved
  <2> QED
    BY <2>3, <2>4 DEF ProgressWrong
<1>h. job' = job /\ disk' = {c \in disk : c.step # step} \cup {new}
  BY <1>g DEF Save
<1>i. Written(m, new)
  <2>1. \A k \in enabled : [j \in enabled |-> "current"][k] = "current"
    OBVIOUS
  <2>2. origin \in 0 .. step
    <3>1. "head" \in enabled => origin <= step
      BY <1>f
    <3>2. "head" \notin enabled => origin = 0
      BY <1>a DEF Typed
    <3> QED
      BY <1>d, <3>1, <3>2
  <2>3. /\ new.step = step /\ new.ga = ga /\ new.origin = origin /\ new.base = subBase /\ new.seed = seedBase
        /\ new.phase = phase /\ new.pos = pos /\ new.drawn = drawn /\ new.table = saved
        /\ new.schema = [k \in enabled |-> "current"]
    OBVIOUS
  <2>4. Current(new)
    BY <2>1, <2>3 DEF Current
  <2>5. /\ subBase = [k \in enabled |-> UserBase[k]] /\ seedBase \in [enabled -> Counter]
        /\ phase \in [enabled -> 0 .. starts] /\ pos \in [Rank -> [Streams -> Nat]]
        /\ drawn \in [Rank -> [Streams -> Coordinates]]
    BY <1>a DEF Typed, TypeOK
  <2>6. \A r \in Rank, st \in Streams : Follows(m, drawn[r][st], seedBase[st[1]], r, st)
    BY <1>a DEF History
  <2> HIDE DEF new, saved
  <2> QED
    BY <1>c, <1>d, <1>e, <1>f, <2>2, <2>3, <2>4, <2>5, <2>6 DEF Written
<1>j. new.phase = phase /\ new.seed = seedBase
  OBVIOUS
<1> HIDE DEF new, saved
<1>k. starts \in Nat
  BY <1>a, Numbers DEF TypeOK
<1>1. Typed' /\ Process' /\ HeadCount' /\ History(m)'
  BY <1>a, <1>b, <1>h, HistoryKept DEF Typed, TypeOK, Process, HeadCount
<1>2. ASSUME NEW q \in Rank, NEW s \in Streams
      PROVE  Position(m, q, s)'
  BY <1>a, <1>b DEF Position, Held
<1>3. Checkpoints(m)'
  <2>1. \A c \in disk \cup {new} : Written(m, c) => Written(m, c)'
    BY <1>b, <1>k, WrittenKept
  <2>2. Legacy(IF m THEN "v1" ELSE "missing")' = Legacy(IF m THEN "v1" ELSE "missing")
    BY LegacyKept
  <2> QED
    BY <1>a, <1>h, <1>i, <2>1, <2>2 DEF Checkpoints
<1>4. OneSeed'
  <2>1. \A c \in disk' : c \in disk \/ c = new
    BY <1>h
  <2>2. \A c \in disk' : Current(c) =>
          \A k \in enabled : c.phase[k] = phase[k] => c.seed[k] = seedBase[k]
    BY <1>a, <1>j, <2>1 DEF OneSeed
  <2>3. ASSUME NEW c \in disk', NEW d \in disk', Current(c), Current(d),
               NEW k \in enabled, c.phase[k] = d.phase[k]
        PROVE  c.seed[k] = d.seed[k]
    BY <1>a, <1>j, <2>1, <2>2, <2>3 DEF OneSeed
  <2> QED
    BY <1>b, <2>2, <2>3 DEF OneSeed, Current
<1> QED
  BY <1>a, <1>h, <1>1, <1>2, <1>3, <1>4 DEF IInvOf

(* A crash takes the process, not the checkpoints.                         *)
LEMMA CrashStep ==
  ASSUME NEW m \in BOOLEAN, IInvOf(m), Crash, enabled' = enabled, Streams' = Streams
  PROVE  IInvOf(m)'
<1>a. /\ Typed /\ TypeOK /\ Process /\ HeadCount /\ Checkpoints(m) /\ OneSeed /\ History(m)
  BY DEF IInvOf, Typed
<1>b. /\ job' = "down" /\ step' = 0
      /\ micro' = [r \in Rank |-> 0] /\ left' = PerStream(0) /\ launched' = PerStream(0)
      /\ capture' = [r \in Rank |-> <<>>] /\ graphed' = [r \in Rank |-> FALSE]
      /\ next' = [r \in Rank |-> [st \in Streams |-> UserBase[st[1]]]] /\ pos' = PerStream(0)
      /\ UNCHANGED <<ga, starts, seedBase, subBase, origin, disk, drawn, phase>>
  BY DEF Crash, launch
<1>1. Typed'
  <2>1. /\ 0 \in 0 .. MaxGA /\ 0 \in 0 .. 3 /\ 0 \in 0 .. MaxLag /\ 0 \in 0 .. Steps
    BY Numbers
  <2>2. micro' \in [Rank -> 0 .. MaxGA]
    BY <1>b, <2>1
  <2>3. /\ left' \in [Rank -> [Streams -> 0 .. 3]] /\ launched' \in [Rank -> [Streams -> 0 .. MaxLag]]
        /\ pos' \in [Rank -> [Streams -> Nat]]
    BY <1>b, <2>1 DEF PerStream
  <2>4. next' \in [Rank -> [Streams -> Counter]]
    <3>1. \A st \in Streams : UserBase[st[1]] \in Counter
      BY <1>a, InStreams, Numbers DEF Typed
    <3> QED
      BY <1>b, <3>1
  <2>5. capture' \in [Rank -> Seq(Counter)] /\ \A r \in Rank : Len(capture'[r]) <= 1
    <3>1. <<>> \in Seq(Counter) /\ Len(<<>>) = 0
      OBVIOUS
    <3> QED
      BY <1>b, <3>1
  <2> QED
    BY <1>a, <1>b, <2>1, <2>2, <2>3, <2>4, <2>5 DEF Typed, TypeOK
<1>2. Process'
  <2>1. 0 <= ga
    BY <1>a, Numbers DEF TypeOK
  <2>2. \A r \in Rank : /\ micro'[r] = 0 /\ capture'[r] = <<>>
                         /\ \A st \in Streams : left'[r][st] = 0 /\ launched'[r][st] = 0
    BY <1>b DEF PerStream
  <2> QED
    BY <1>b, <2>1, <2>2 DEF Process
<1>3. starts \in Nat
  BY <1>a, Numbers DEF TypeOK
<1>4. Checkpoints(m)' /\ OneSeed' /\ History(m)'
  BY <1>a, <1>b, <1>3, DiskKept, HistoryKept
<1> QED
  BY <1>b, <1>1, <1>2, <1>4 DEF IInvOf, HeadCount

(* A refused configuration changes nothing else.                           *)
LEMMA RefuseResumeStep ==
  ASSUME NEW m \in BOOLEAN, IInvOf(m), RefuseResume, enabled' = enabled, Streams' = Streams
  PROVE  IInvOf(m)'
<1>a. /\ Typed /\ TypeOK /\ Process /\ HeadCount /\ Checkpoints(m) /\ OneSeed /\ History(m)
  BY DEF IInvOf, Typed
<1>b. /\ job = "down" /\ job' = "refused"
      /\ UNCHANGED <<ga, starts, step, micro, left, seedBase, subBase, origin, next, launched, capture,
                     graphed, disk, drawn, pos, phase>>
  BY DEF RefuseResume, launch, loop, streams, device, ghosts
<1>1. Typed' /\ Process'
  BY <1>a, <1>b DEF Typed, TypeOK, Process
<1>2. starts \in Nat
  BY <1>a, Numbers DEF TypeOK
<1>3. Checkpoints(m)' /\ OneSeed' /\ History(m)'
  BY <1>a, <1>b, <1>2, DiskKept, HistoryKept
<1> QED
  BY <1>b, <1>1, <1>3 DEF IInvOf, HeadCount

-----------------------------------------------------------------------------
(* Starting                                                                *)

(* Arithmetic of the restored tables.                                      *)
LEMMA ModFacts ==
  /\ \A v \in Counter : v % Modulus = v /\ (((v + 1) % Modulus) - 1) % Modulus = v
  /\ \A v \in Nat : v % Modulus \in Counter
<1>1. Modulus \in Nat \ {0} /\ \A v \in Counter : v \in 0 .. Modulus - 1
  BY Numbers DEF Counter
<1>2. ASSUME NEW v \in Counter PROVE v % Modulus = v
  BY <1>1
<1>3. ASSUME NEW v \in Counter PROVE (((v + 1) % Modulus) - 1) % Modulus = v
  <2>1. CASE v + 1 < Modulus
    <3>1. (v + 1) % Modulus = v + 1
      BY <1>1, <2>1
    <3>2. v + 1 - 1 = v
      BY <1>1
    <3>3. ((v + 1) % Modulus) - 1 = v
      BY <1>1, <2>1
    <3> QED
      BY <1>2, <3>3
  <2>2. CASE v + 1 = Modulus
    <3>1. (v + 1) % Modulus = 0
      BY <1>1, <2>2
    <3>2. (0 - 1) % Modulus = Modulus - 1
      BY <1>1
    <3> QED
      BY <1>1, <2>2, <3>1, <3>2
  <2> QED
    BY <1>1, <2>1, <2>2
<1>4. ASSUME NEW v \in Nat PROVE v % Modulus \in Counter
  BY <1>1 DEF Counter
<1> QED
  BY <1>2, <1>3, <1>4

\* A number of strides leaves no remainder.
LEMMA WholeStrides ==
  \A a \in Nat, s \in Nat \ {0} : (a * s) % s = 0 /\ a * s \in Nat
<1> SUFFICES ASSUME NEW a \in Nat, NEW s \in Nat \ {0}
             PROVE  (a * s) % s = 0 /\ a * s \in Nat
  OBVIOUS
<1>1. a * s \in Nat
  BY Products
<1> DEFINE x == a * s
           q == x \div s
           y == x % s
<1>2. q \in Int /\ y \in 0 .. s - 1 /\ x = s * q + y
  BY <1>1
<1>3. a * s = s * a
  OBVIOUS
<1> HIDE DEF x, q, y
<1>4. y = s * (a - q)
  <2>1. x = s * a
    BY <1>3 DEF x
  <2>2. s * (a - q) = s * a - s * q
    BY <1>2
  <2>3. s * a \in Int /\ s * q \in Int
    BY <1>2
  <2> QED
    BY <1>2, <2>1, <2>2, <2>3
<1>5. \A d \in Int : 0 <= s * d /\ s * d < s => d = 0
  BY SMT
<1>6. a - q = 0
  BY <1>2, <1>4, <1>5
<1>7. y = 0
  BY <1>4, <1>6
<1> QED
  BY <1>1, <1>7 DEF x, y

(* The seed a start configures is a uint64.                                *)
LEMMA ConfiguredTyped ==
  ASSUME NEW k \in Kind, NEW cfg \in Config
  PROVE  ConfiguredSeed(cfg, k) \in Counter
<1>1. UserSeed[k] \in Nat
  BY Numbers
<1>2. cfg.seed \in Nat
  BY DEF Config
<1>3. UserSeed[k] + cfg.seed \in Nat
  BY <1>1, <1>2
<1> QED
  BY <1>3, ModFacts DEF ConfiguredSeed

(* What a start must establish: between steps, with nothing in flight.     *)
Restored(m) ==
  /\ job = "up" /\ ga \in 1 .. MaxGA /\ step \in 0 .. Steps /\ starts \in 0 .. MaxStarts
  /\ seedBase \in [enabled -> Counter] /\ subBase = [k \in enabled |-> UserBase[k]]
  /\ origin \in 0 .. Steps /\ ("head" \notin enabled => origin = 0)
  /\ next \in [Rank -> [Streams -> Counter]] /\ pos \in [Rank -> [Streams -> Nat]]
  /\ drawn \in [Rank -> [Streams -> Coordinates]] /\ phase \in [enabled -> 0 .. starts]
  /\ \A r \in Rank, st \in Streams :
       /\ pos[r][st] <= Len(drawn[r][st])
       /\ next[r][st] = At(m, r, st, pos[r][st])
       /\ Extra(m, r, st) + pos[r][st] <= Budget(st, step, 0)
  /\ "head" \in enabled =>
       /\ origin <= step
       /\ \A r \in Rank : pos[r][HeadStream] = Microbatches(step, origin, ga, 0)
  /\ Checkpoints(m) /\ OneSeed /\ History(m)

\* A start or a resume leads to a state that the invariant allows.
LEMMA Restart ==
  ASSUME NEW m \in BOOLEAN, IInvOf(m), job # "up", Restored(m)',
         enabled' = enabled, Streams' = Streams,
         UNCHANGED <<micro, left, launched, capture, graphed>>
  PROVE  IInvOf(m)'
<1>a. Typed /\ TypeOK /\ Process
  BY DEF IInvOf, Typed
<1>b. \A r \in Rank :
        /\ micro[r] = 0 /\ capture[r] = <<>>
        /\ \A st \in Streams : left[r][st] = 0 /\ launched[r][st] = 0
  BY <1>a DEF Process
<1>1. TypeOK'
  <2>1. /\ job' = "up" /\ ga' \in 1 .. MaxGA /\ step' \in 0 .. Steps /\ starts' \in 0 .. MaxStarts
        /\ seedBase' \in [enabled -> Counter] /\ next' \in [Rank -> [Streams -> Counter]]
        /\ subBase' = [k \in enabled |-> UserBase[k]]
    BY DEF Restored
  <2>2. subBase' \in [enabled -> Counter]
    <3>1. \A k \in enabled : UserBase[k] \in Counter
      BY <1>a, InStreams, Numbers DEF Typed
    <3> QED
      BY <2>1, <3>1
  <2> QED
    BY <1>a, <2>1, <2>2 DEF TypeOK
<1>2. Typed'
  BY <1>1, <1>a DEF Restored, Typed
<1>3. ga' \in Nat
  BY <1>1, Numbers DEF TypeOK
<1>4. Process'
  <2>1. 0 <= ga'
    BY <1>3
  <2> QED
    BY <1>b, <2>1 DEF Process
<1>5. ASSUME NEW r \in Rank, NEW st \in Streams
      PROVE  Position(m, r, st)' /\ pos'[r][st] + left'[r][st] = pos'[r][st]
  <2>1. /\ pos'[r][st] <= Len(drawn'[r][st])
        /\ next'[r][st] = At(m, r, st, pos'[r][st])
        /\ Extra(m, r, st) + pos'[r][st] <= Budget(st, step', 0)
    BY DEF Restored
  <2>2. st \in Stream /\ pos'[r][st] \in Nat
    <3>1. pos' \in [Rank -> [Streams -> Nat]]
      BY DEF Restored
    <3> QED
      BY <3>1 DEF Streams
  <2>3. Extra(m, r, st) \in Nat
    BY <2>2, AtFacts
  <2>4. /\ pos'[r][st] - 0 = pos'[r][st] /\ 0 <= pos'[r][st] /\ pos'[r][st] + 0 = pos'[r][st]
        /\ Extra(m, r, st) + pos'[r][st] + 0 = Extra(m, r, st) + pos'[r][st]
    BY <2>2, <2>3
  <2>5. left'[r][st] = 0 /\ launched'[r][st] = 0 /\ micro'[r] = 0 /\ capture'[r] = <<>>
    BY <1>b
  <2> QED
    BY <2>1, <2>4, <2>5 DEF Position, Held
<1>6. HeadCount'
  <2>1. ASSUME "head" \in enabled
        PROVE  /\ origin' <= step'
               /\ \A r \in Rank : pos'[r][HeadStream] + left'[r][HeadStream]
                                    = Microbatches(step', origin', ga', micro'[r])
    <3>1. HeadStream \in Streams
      BY <1>a, <2>1, InStreams DEF Typed
    <3>2. /\ origin' <= step'
          /\ \A r \in Rank : pos'[r][HeadStream] = Microbatches(step', origin', ga', 0)
      BY <2>1 DEF Restored
    <3> QED
      BY <1>b, <1>5, <3>1, <3>2
  <2> QED
    BY <2>1 DEF HeadCount
<1>7. job' = "up" /\ Checkpoints(m)' /\ OneSeed' /\ History(m)'
  BY DEF Restored
<1> QED
  BY <1>2, <1>4, <1>5, <1>6, <1>7 DEF IInvOf

(* A new job on an empty disk.                                             *)
LEMMA StartFreshStep ==
  ASSUME NEW m \in BOOLEAN, IInvOf(m), StartFresh, enabled' = enabled, Streams' = Streams
  PROVE  IInvOf(m)'
<1>a. /\ Typed /\ TypeOK /\ Checkpoints(m)
  BY DEF IInvOf, Typed
<1>b. PICK cfg \in Config :
        /\ disk = {} /\ cfg.ga = MaxGA /\ cfg.seed = 0
        /\ NewProcess(cfg)
        /\ job' = "up" /\ step' = 0 /\ origin' = 0
        /\ seedBase' = [k \in enabled |-> ConfiguredSeed(cfg, k)]
        /\ subBase' = [k \in enabled |-> UserBase[k]]
        /\ next' = [r \in Rank |-> [st \in Streams |-> UserBase[st[1]]]]
        /\ drawn' = PerStream(<<>>) /\ pos' = PerStream(0)
        /\ phase' = [k \in enabled |-> starts + 1]
  BY DEF StartFresh
<1>c. /\ job # "up" /\ starts < MaxStarts /\ ga' = MaxGA /\ starts' = starts + 1
      /\ UNCHANGED <<micro, left, launched, capture, graphed, disk>>
  BY <1>b DEF NewProcess, device
<1>d. m = FALSE
  BY <1>a, <1>b DEF Checkpoints
<1>e. starts \in Nat /\ MaxStarts \in Nat /\ MaxGA \in Nat \ {0} /\ Steps \in Nat
  BY <1>a, Numbers DEF TypeOK
<1>1. /\ ga' \in 1 .. MaxGA /\ step' \in 0 .. Steps /\ starts' \in 0 .. MaxStarts /\ origin' \in 0 .. Steps
  BY <1>b, <1>c, <1>e
<1>2. seedBase' \in [enabled -> Counter]
  <2>1. \A k \in enabled : ConfiguredSeed(cfg, k) \in Counter
    BY <1>a, InStreams, ConfiguredTyped DEF Typed
  <2> QED
    BY <1>b, <2>1
<1>3. phase' \in [enabled -> 0 .. starts']
  <2>1. starts + 1 \in 0 .. starts + 1
    BY <1>e
  <2> QED
    BY <1>b, <1>c, <2>1
<1>4. \A r \in Rank, st \in Streams :
        pos'[r][st] = 0 /\ drawn'[r][st] = <<>> /\ next'[r][st] = UserBase[st[1]]
  BY <1>b DEF PerStream
<1>5. /\ next' \in [Rank -> [Streams -> Counter]] /\ pos' \in [Rank -> [Streams -> Nat]]
      /\ drawn' \in [Rank -> [Streams -> Coordinates]]
  <2>1. \A st \in Streams : UserBase[st[1]] \in Counter
    BY <1>a, InStreams, Numbers DEF Typed
  <2>2. <<>> \in Coordinates
    BY DEF Coordinates
  <2> QED
    BY <1>b, <2>1, <2>2 DEF PerStream
<1>6. ASSUME NEW r \in Rank, NEW st \in Streams
      PROVE  /\ pos'[r][st] <= Len(drawn'[r][st])
             /\ next'[r][st] = At(m, r, st, pos'[r][st])
             /\ Extra(m, r, st) + pos'[r][st] <= Budget(st, step', 0)
             /\ Follows(m, drawn'[r][st], seedBase'[st[1]], r, st)
  <2>1. Len(<<>>) = 0
    OBVIOUS
  <2>2. st \in Stream /\ st[1] \in Kind
    BY <1>a, Values, StreamFacts
  <2>3. Extra(m, r, st) = 0
    BY <1>d DEF Extra
  <2>4. At(m, r, st, 0) = UserBase[st[1]]
    <3>1. UserBase[st[1]] \in Nat /\ Stride[st[1]] \in Nat
      BY <2>2, Numbers
    <3>2. UserBase[st[1]] + (0 + 0) * Stride[st[1]] = UserBase[st[1]]
      BY <3>1
    <3> QED
      BY <2>3, <3>2 DEF At
  <2>5. Budget(st, 0, 0) \in Nat
    BY <2>2, BudgetGrows
  <2>6. Follows(m, <<>>, seedBase'[st[1]], r, st)
    BY DEF Follows
  <2>7. 0 <= Len(<<>>) /\ 0 + 0 <= Budget(st, 0, 0)
    BY <2>5
  <2> QED
    BY <1>b, <1>4, <2>3, <2>4, <2>6, <2>7
<1>7. "head" \in enabled =>
        /\ origin' <= step'
        /\ \A r \in Rank : pos'[r][HeadStream] = Microbatches(step', origin', ga', 0)
  <2>1. "head" \in enabled => HeadStream \in Streams
    BY <1>a, InStreams DEF Typed
  <2>2. Microbatches(0, 0, ga', 0) = 0
    BY <1>c, <1>e DEF Microbatches
  <2> QED
    BY <1>b, <1>4, <2>1, <2>2
<1>8. Checkpoints(m)' /\ OneSeed' /\ History(m)'
  BY <1>b, <1>c, <1>d, <1>6 DEF Checkpoints, OneSeed, History
<1>9. Restored(m)'
  BY <1>b, <1>1, <1>2, <1>3, <1>5, <1>6, <1>7, <1>8 DEF Restored
<1> QED
  BY <1>c, <1>9, Restart

-----------------------------------------------------------------------------
(* Resuming                                                                *)

(* The counter in a checkpoint is one that fits.                           *)
LEMMA SavedCounter ==
  ASSUME NEW m \in BOOLEAN, Typed, NEW c, Written(m, c), NEW r \in Rank, NEW st \in Streams
  PROVE  /\ At(m, r, st, c.pos[r][st]) \in Counter
         /\ LoadedNext(c, r, st) = At(m, r, st, c.pos[r][st])
         /\ c.schema[st[1]] = "current"
<1>1. /\ c.pos[r][st] \in Nat /\ c.step \in 1 .. Steps
      /\ Extra(m, r, st) + c.pos[r][st] <= Budget(st, c.step, 0)
      /\ c.table[r][st][2] = AsSigned(At(m, r, st, c.pos[r][st]))
  BY DEF Written
<1>2. st \in Stream /\ st[1] \in enabled
  BY InStreams DEF Typed
<1>3. c.schema[st[1]] = "current"
  BY <1>2 DEF Written, Current
<1>4. At(m, r, st, c.pos[r][st]) \in Counter
  <2>1. c.step \in Nat /\ c.step <= Steps /\ Steps \in Nat
    BY <1>1, Numbers
  <2>2. /\ Budget(st, c.step, 0) <= Budget(st, Steps, 0)
        /\ Budget(st, c.step, 0) \in Nat /\ Budget(st, Steps, 0) \in Nat
    BY <1>2, <2>1, BudgetGrows
  <2>3. Extra(m, r, st) \in Nat
    BY <1>1, <1>2, AtFacts
  <2>4. 0 \in Nat /\ Extra(m, r, st) + c.pos[r][st] + 0 <= Budget(st, Steps, 0)
    BY <1>1, <2>2, <2>3
  <2>5. \A u \in Nat : Extra(m, r, st) + c.pos[r][st] + u <= Budget(st, Steps, 0) =>
          At(m, r, st, c.pos[r][st]) \in Counter
    BY <1>1, <1>2, AtFacts
  <2> QED
    BY <2>4, <2>5
<1>5. AsUint(AsSigned(At(m, r, st, c.pos[r][st]))) = At(m, r, st, c.pos[r][st])
  BY <1>4, SignedRoundTrip DEF Counter
<1>6. LoadedNext(c, r, st) = At(m, r, st, c.pos[r][st])
  BY <1>1, <1>3, <1>5 DEF LoadedNext
<1> QED
  BY <1>3, <1>4, <1>6

(* A checkpoint of this job passes every check and is restored as it was.  *)
LEMMA LoadCurrent ==
  ASSUME NEW m \in BOOLEAN, Typed, NEW c, Written(m, c), NEW cfg \in Config, ~ Refuses(c, cfg)
  PROVE  /\ ~ SeedsWrong(c, cfg) /\ ~ CountersWrong(c) /\ ~ LoadedProgressWrong(c, cfg)
         /\ \A k \in enabled : /\ c.schema[k] = "current" /\ LoadedSeed(c, cfg, k) = c.seed[k]
                               /\ LoadedBase(c, k) = UserBase[k]
         /\ LoadedOrigin(c) = IF "head" \in enabled THEN c.origin ELSE 0
         /\ "head" \in enabled => cfg.ga = c.ga
<1>1. \A k \in enabled : /\ c.schema[k] = "current" /\ LoadedSeed(c, cfg, k) = c.seed[k]
                         /\ LoadedBase(c, k) = UserBase[k] /\ c.base[k] = UserBase[k]
                         /\ k \in Kind
  BY InStreams DEF Written, Current, LoadedSeed, LoadedBase, Typed
<1>2. LoadedOrigin(c) = IF "head" \in enabled THEN c.origin ELSE 0
  BY <1>1 DEF LoadedOrigin
<1>3. "head" \in enabled => cfg.ga = c.ga
  BY <1>1 DEF Refuses, RefusesHead
<1>4. ~ SeedsWrong(c, cfg)
  <2>1. ASSUME NEW k \in enabled, NEW r \in Rank, NEW s \in 0 .. Keys[k] - 1
        PROVE  c.table[r][<<k, s>>][1] = AsSigned(SeedFor(LoadedSeed(c, cfg, k), k, r, s))
    <3>1. <<k, s>> \in Streams
      BY InStreams DEF Typed
    <3>2. <<k, s>>[1] = k /\ <<k, s>>[2] = s
      OBVIOUS
    <3>3. c.table[r][<<k, s>>][1] = AsSigned(SeedOf(c.seed[<<k, s>>[1]], r, <<k, s>>))
      BY <3>1 DEF Written
    <3> QED
      BY <1>1, <3>2, <3>3 DEF SeedOf
  <2> QED
    BY <2>1 DEF SeedsWrong
<1>5. ~ CountersWrong(c)
  <2> SUFFICES ASSUME "mxfp4" \in enabled, NEW r \in Rank, NEW s \in 0 .. Keys["mxfp4"] - 1
               PROVE  LET at == LoadedNext(c, r, <<"mxfp4", s>>)
                      IN  ~ (at < c.base["mxfp4"]) /\ (at - c.base["mxfp4"]) % Stride["mxfp4"] = 0
    BY DEF CountersWrong
  <2> DEFINE st == <<"mxfp4", s>>
             S == Stride["mxfp4"]
             B == UserBase["mxfp4"]
             a == Extra(m, r, st) + c.pos[r][st]
  <2>1. st \in Streams /\ st[1] = "mxfp4" /\ st \in Stream
    BY InStreams DEF Typed
  <2>2. LoadedNext(c, r, st) = B + a * S
    BY <2>1, SavedCounter DEF At
  <2>3. a \in Nat
    <3>1. c.pos[r][st] \in Nat
      BY <2>1 DEF Written
    <3>2. Extra(m, r, st) \in Nat
      BY <2>1, <3>1, AtFacts
    <3> QED
      BY <3>1, <3>2
  <2>4. S \in Nat \ {0} /\ B \in Nat /\ c.base["mxfp4"] = B
    BY <1>1, Numbers DEF Kind
  <2> DEFINE at == LoadedNext(c, r, st)
             from == c.base["mxfp4"]
  <2>5. at = B + a * S /\ from = B
    BY <2>2, <2>4
  <2> HIDE DEF S, B, a, at, from
  <2>6. (a * S) % S = 0 /\ a * S \in Nat
    BY <2>3, <2>4, WholeStrides
  <2>7. at - from = a * S /\ ~ (at < from)
    BY <2>4, <2>5, <2>6
  <2>8. ~ (at < from) /\ (at - from) % S = 0
    BY <2>6, <2>7
  <2> QED
    BY <2>8 DEF at, from, S
<1>6. ~ LoadedProgressWrong(c, cfg)
  <2> SUFFICES ASSUME "head" \in enabled
               PROVE  ~ ProgressWrong(c.base["head"], c.origin, c.step, cfg.ga,
                                      [r \in Rank |-> AsSigned(LoadedNext(c, r, HeadStream))])
    BY DEF LoadedProgressWrong
  <2>1. HeadStream \in Streams /\ c.base["head"] = UserBase["head"]
    BY <1>1, InStreams DEF Typed
  <2>2. c.step \in Nat /\ c.origin \in Nat /\ c.origin <= c.step /\ cfg.ga \in Nat
    BY <1>3, Numbers DEF Written
  <2>3. \A r \in Rank : c.pos[r][HeadStream] = Microbatches(c.step, c.origin, cfg.ga, 0)
    BY <1>3 DEF Written
  <2>4. \A r \in Rank : ExpectedNext(c.base["head"], c.origin, c.step, cfg.ga)
                          = At(m, r, HeadStream, c.pos[r][HeadStream])
    BY <2>1, <2>2, <2>3, HeadExpected
  <2>5. \A r \in Rank : /\ LoadedNext(c, r, HeadStream) = ExpectedNext(c.base["head"], c.origin, c.step, cfg.ga)
                        /\ ExpectedNext(c.base["head"], c.origin, c.step, cfg.ga) \in Counter
    BY <2>1, <2>4, SavedCounter
  <2>6. ~ (ExpectedNext(c.base["head"], c.origin, c.step, cfg.ga) > Modulus - 1)
    <3>1. 0 \in Rank /\ Modulus \in Nat
      BY Numbers
    <3> QED
      BY <2>5, <3>1 DEF Counter
  <2> QED
    BY <2>5, <2>6 DEF ProgressWrong
<1> QED
  BY <1>1, <1>2, <1>3, <1>4, <1>5, <1>6

(* A checkpoint older than the streams is refused or opens a new phase,    *)
(* whose streams go on from what the v1 table holds or start anew.         *)
LEMMA LoadLegacy ==
  ASSUME NEW m \in BOOLEAN, Typed, NEW cfg \in Config,
         ~ Refuses(Legacy(IF m THEN "v1" ELSE "missing"), cfg)
  PROVE  LET c == Legacy(IF m THEN "v1" ELSE "missing")
         IN  /\ ~ SeedsWrong(c, cfg) /\ ~ CountersWrong(c) /\ ~ LoadedProgressWrong(c, cfg)
             /\ \A k \in enabled : /\ c.schema[k] # "current" /\ LoadedSeed(c, cfg, k) \in Counter
                                   /\ LoadedBase(c, k) = UserBase[k]
             /\ "head" \in enabled /\ LoadedOrigin(c) = 1 /\ c.step = 1
             /\ c.pos \in [Rank -> [Streams -> Nat]]
             /\ c.drawn \in [Rank -> [Streams -> Coordinates]]
             /\ \A r \in Rank, st \in Streams :
                  /\ c.pos[r][st] = Len(c.drawn[r][st])
                  /\ Extra(m, r, st) + c.pos[r][st] <= Budget(st, 1, 0)
                  /\ At(m, r, st, c.pos[r][st]) \in Counter
                  /\ LoadedNext(c, r, st) = At(m, r, st, c.pos[r][st])
                  /\ Follows(m, c.drawn[r][st], LoadedSeed(c, cfg, st[1]), r, st)
                  /\ st = HeadStream => c.pos[r][st] = 0
<1> DEFINE schema == IF m THEN "v1" ELSE "missing"
           c == Legacy(schema)
           old == LegacyDrawn(schema)
<1>a. /\ c.schema = [k \in enabled |-> IF k = "localcta" THEN schema ELSE "missing"]
      /\ c.step = 1 /\ c.table = LegacyTable /\ c.drawn = old
      /\ c.pos = [r \in Rank |-> [st \in Streams |-> Len(old[r][st])]]
  BY DEF Legacy
<1>b. schema = (IF m THEN "v1" ELSE "missing") /\ schema \in {"v1", "missing"}
  OBVIOUS
<1>c. ~ Refuses(c, cfg)
  OBVIOUS
<1> HIDE DEF schema, c, old
<1>d. \A k \in enabled : c.schema[k] = (IF k = "localcta" THEN schema ELSE "missing") /\ k \in Kind
  BY <1>a, InStreams DEF Typed
<1>1. enabled = {"localcta", "head"}
  <2>1. "mxfp4" \notin enabled
    BY <1>b, <1>c, <1>d DEF Refuses, RefusesMXFP4
  <2> QED
    BY <2>1 DEF Typed
<1>2. \A k \in enabled : c.schema[k] # "current"
  BY <1>b, <1>d
<1>3. ~ SeedsWrong(c, cfg) /\ ~ CountersWrong(c) /\ ~ LoadedProgressWrong(c, cfg)
  BY <1>1, <1>2 DEF SeedsWrong, CountersWrong, LoadedProgressWrong
<1>4. LoadedOrigin(c) = 1 /\ \A k \in enabled : LoadedBase(c, k) = UserBase[k]
  BY <1>a, <1>1, <1>2 DEF LoadedOrigin, LoadedBase
<1>5. /\ MaxGA \in Nat \ {0} /\ 0 \in Rank
      /\ \A k \in Kind : /\ UserSeed[k] \in Counter /\ UserBase[k] \in Counter /\ Stride[k] \in Nat \ {0}
  BY Numbers
<1>6. \A st \in Streams : /\ st \in Stream /\ st[1] \in enabled /\ st[1] \in Kind
                          /\ Draws(st) = 1 /\ st[2] \in Nat
  <2>1. ASSUME NEW st \in Streams
        PROVE  st \in Stream /\ st[1] \in enabled /\ st[1] \in Kind /\ st[2] \in Nat
    <3>1. st \in Stream /\ st[1] \in enabled
      BY InStreams DEF Typed
    <3>2. st[1] \in Kind /\ st[2] \in 0 .. Keys[st[1]] - 1
      BY <3>1, StreamFacts
    <3> QED
      BY <3>1, <3>2
  <2>2. \A st \in Streams : Draws(st) = 1
    BY <1>1, CaptureStreams DEF Typed
  <2> QED
    BY <2>1, <2>2
<1>7. \A st \in Streams : Budget(st, 1, 0) = MaxGA
  BY <1>5, <1>6 DEF Budget
<1>8. ASSUME NEW r \in Rank, NEW st \in Streams
      PROVE  old[r][st] = IF schema = "v1" /\ st[1] = "localcta" /\ r = 0
                          THEN [n \in 1 .. MaxGA |-> <<(UserSeed[st[1]] + st[2] + 1) % Modulus,
                                                       UserBase[st[1]] + (n - 1) * Stride[st[1]]>>]
                          ELSE <<>>
  BY DEF old, LegacyDrawn
<1>9. \A v \in Counter : AsUint(AsSigned(v)) = v
  BY SignedRoundTrip DEF Counter
<1>10. ASSUME NEW k \in enabled
       PROVE  /\ LoadedSeed(c, cfg, k) \in Counter
              /\ schema = "v1" /\ k = "localcta" => LoadedSeed(c, cfg, k) = UserSeed[k]
  <2>1. CASE c.schema[k] = "missing"
    <3>1. LoadedSeed(c, cfg, k) = ConfiguredSeed(cfg, k)
      BY <2>1 DEF LoadedSeed
    <3> QED
      BY <1>d, <2>1, <3>1, ConfiguredTyped
  <2>2. CASE c.schema[k] # "missing"
    <3>1. k = "localcta" /\ c.schema[k] = "v1"
      BY <1>b, <1>d, <2>2
    <3>2. LoadedSeed(c, cfg, k) = (AsUint(c.table[0][<<k, 0>>][1]) - 1) % Modulus
      BY <3>1 DEF LoadedSeed
    <3>3. <<k, 0>> \in Streams
      <4>1. 0 \in 0 .. Keys[k] - 1
        BY <1>d, Numbers
      <4> QED
        BY <4>1, InStreams DEF Typed
    <3>4. c.table[0][<<k, 0>>][1] = AsSigned((UserSeed[k] + 0 + 1) % Modulus)
      BY <1>a, <1>5, <3>3 DEF LegacyTable
    <3>5. UserSeed[k] \in Counter /\ UserSeed[k] \in Nat /\ UserSeed[k] + 0 + 1 = UserSeed[k] + 1
      <4>1. UserSeed[k] \in Counter
        BY <1>5, <1>d
      <4>2. UserSeed[k] \in Nat
        BY <4>1, Numbers
      <4> QED
        BY <4>1, <4>2
    <3>6. AsUint(AsSigned((UserSeed[k] + 1) % Modulus)) = (UserSeed[k] + 1) % Modulus
      <4>1. UserSeed[k] + 1 \in Nat
        BY <3>5
      <4> QED
        BY <1>9, <4>1, ModFacts
    <3>7. LoadedSeed(c, cfg, k) = UserSeed[k]
      BY <3>2, <3>4, <3>5, <3>6, ModFacts
    <3> QED
      BY <3>5, <3>7
  <2> QED
    BY <2>1, <2>2
<1>11. ASSUME NEW r \in Rank, NEW st \in Streams
       PROVE  /\ old[r][st] \in Coordinates
              /\ Extra(m, r, st) + Len(old[r][st]) <= Budget(st, 1, 0)
              /\ Len(old[r][st]) \in Nat
              /\ At(m, r, st, Len(old[r][st])) \in Counter
              /\ LoadedNext(c, r, st) = At(m, r, st, Len(old[r][st]))
              /\ Follows(m, old[r][st], LoadedSeed(c, cfg, st[1]), r, st)
              /\ st = HeadStream => Len(old[r][st]) = 0
  <2> DEFINE B == UserBase[st[1]]
             S == Stride[st[1]]
  <2>0. B \in Counter /\ B \in Nat /\ S \in Nat \ {0}
    BY <1>6, Numbers
  <2>f. MaxGA <= Budget(st, Steps, 0) /\ Budget(st, Steps, 0) \in Nat
    <3>1. 1 \in Nat /\ 1 <= Steps /\ Steps \in Nat
      BY Numbers
    <3> QED
      BY <1>6, <1>7, <3>1, BudgetGrows
  <2>1. CASE schema = "v1" /\ st[1] = "localcta"
    <3>1. m = TRUE
      BY <1>b, <2>1
    <3>2. LoadedSeed(c, cfg, st[1]) = UserSeed[st[1]]
      BY <1>6, <1>10, <2>1
    <3>3. B + MaxGA * S \in Counter /\ LoadedNext(c, r, st) = B + MaxGA * S
      <4>1. B + MaxGA * S \in Counter
        BY <1>5, <1>6, <2>f, Room
      <4>2. c.schema[st[1]] = "v1"
        BY <1>d, <1>6, <2>1
      <4>3. c.table[r][st][2] = AsSigned(B + MaxGA * S)
        BY <1>a DEF LegacyTable
      <4> QED
        BY <1>9, <4>1, <4>2, <4>3 DEF LoadedNext
    <3>h. st # HeadStream
      BY <2>1 DEF HeadStream
    <3>4. CASE r = 0
      <4> DEFINE d == [n \in 1 .. MaxGA |-> <<(UserSeed[st[1]] + st[2] + 1) % Modulus, B + (n - 1) * S>>]
      <4>1. old[r][st] = d
        BY <1>8, <2>1, <3>4
      <4>2. Extra(m, r, st) = 0
        BY <3>4 DEF Extra
      <4>3. \A n \in 1 .. MaxGA : (n - 1) * S \in Nat
        <5>1. \A n \in 1 .. MaxGA : n - 1 \in Nat
          BY <1>5
        <5> QED
          BY <2>0, <5>1, Products
      <4>4. (UserSeed[st[1]] + st[2] + 1) % Modulus \in Counter
        <5>1. UserSeed[st[1]] + st[2] + 1 \in Nat
          <6>1. UserSeed[st[1]] \in Counter /\ st[2] \in Nat
            BY <1>5, <1>6
          <6>2. UserSeed[st[1]] \in Nat
            BY <6>1, Numbers
          <6> QED
            BY <6>1, <6>2
        <5> QED
          BY <5>1, ModFacts
      <4>5. d \in Coordinates /\ Len(d) = MaxGA
        <5>1. \A n \in 1 .. MaxGA : <<(UserSeed[st[1]] + st[2] + 1) % Modulus, B + (n - 1) * S>> \in Counter \X Int
          <6>1. \A n \in 1 .. MaxGA : B + (n - 1) * S \in Int
            BY <2>0, <4>3
          <6> QED
            BY <4>4, <6>1
        <5>2. d \in [1 .. MaxGA -> Counter \X Int]
          BY <5>1
        <5>3. MaxGA \in Nat
          BY <1>5
        <5> QED
          BY <5>2, <5>3, LenProperties, SeqDef DEF Coordinates
      <4>6. At(m, r, st, MaxGA) = B + MaxGA * S
        <5>1. 0 + MaxGA = MaxGA
          BY <1>5
        <5> QED
          BY <4>2, <5>1 DEF At
      <4>7. Follows(m, d, UserSeed[st[1]], r, st)
        <5>1. SeedOf(UserSeed[st[1]], r, st) = (UserSeed[st[1]] + st[2] + 1) % Modulus
          <6>1. /\ Keys[st[1]] \in Nat /\ UserSeed[st[1]] \in Nat
            BY <1>6, Numbers
          <6>2. UserSeed[st[1]] + 0 * Keys[st[1]] + st[2] + 1 = UserSeed[st[1]] + st[2] + 1
            BY <1>6, <6>1
          <6> QED
            BY <3>4, <6>2 DEF SeedOf, SeedFor
        <5>2. \A n \in 1 .. MaxGA : At(m, r, st, n - 1) = B + (n - 1) * S
          <6>1. \A n \in 1 .. MaxGA : 0 + (n - 1) = n - 1
            BY <1>5
          <6> QED
            BY <4>2, <6>1 DEF At
        <5>3. \A n \in 1 .. MaxGA : d[n] = <<(UserSeed[st[1]] + st[2] + 1) % Modulus, B + (n - 1) * S>>
          OBVIOUS
        <5> HIDE DEF d
        <5> QED
          BY <4>5, <5>1, <5>2, <5>3 DEF Follows
      <4> HIDE DEF d
      <4> QED
        BY <1>5, <1>7, <3>2, <3>3, <3>h, <4>1, <4>2, <4>5, <4>6, <4>7
    <3>5. CASE r # 0
      <4>1. old[r][st] = <<>> /\ Len(<<>>) = 0 /\ <<>> \in Coordinates
        <5>1. old[r][st] = <<>>
          BY <1>8, <3>5
        <5> QED
          BY <5>1 DEF Coordinates
      <4>2. Extra(m, r, st) = MaxGA
        BY <2>1, <3>1, <3>5 DEF Extra
      <4>3. At(m, r, st, 0) = B + MaxGA * S
        <5>1. MaxGA + 0 = MaxGA
          BY <1>5
        <5> QED
          BY <4>2, <5>1 DEF At
      <4>4. Follows(m, <<>>, UserSeed[st[1]], r, st)
        BY DEF Follows
      <4>5. MaxGA + 0 <= Budget(st, 1, 0)
        BY <1>5, <1>7
      <4> QED
        BY <3>2, <3>3, <3>h, <4>1, <4>2, <4>3, <4>4, <4>5
    <3> QED
      BY <3>4, <3>5
  <2>2. CASE ~(schema = "v1" /\ st[1] = "localcta")
    <3>1. old[r][st] = <<>> /\ Len(<<>>) = 0 /\ <<>> \in Coordinates
      <4>1. old[r][st] = <<>>
        BY <1>8, <2>2
      <4> QED
        BY <4>1 DEF Coordinates
    <3>2. Extra(m, r, st) = 0
      BY <1>b, <2>2 DEF Extra
    <3>3. At(m, r, st, 0) = B
      <4>1. B + (0 + 0) * S = B
        BY <2>0
      <4> QED
        BY <3>2, <4>1 DEF At
    <3>4. LoadedNext(c, r, st) = B
      <4>1. c.schema[st[1]] = "missing"
        BY <1>b, <1>d, <1>6, <2>2
      <4> QED
        BY <4>1 DEF LoadedNext
    <3>5. Follows(m, <<>>, LoadedSeed(c, cfg, st[1]), r, st)
      BY DEF Follows
    <3>6. 0 + 0 <= Budget(st, 1, 0)
      BY <1>5, <1>7
    <3> QED
      BY <2>0, <3>1, <3>2, <3>3, <3>4, <3>5, <3>6
  <2> QED
    BY <2>1, <2>2
<1>12. /\ c.pos \in [Rank -> [Streams -> Nat]]
       /\ \A r \in Rank, st \in Streams : c.pos[r][st] = Len(old[r][st])
  BY <1>a, <1>11
<1>13. c.drawn \in [Rank -> [Streams -> Coordinates]]
  <2>1. old = [r \in Rank |-> [st \in Streams |-> old[r][st]]]
    BY DEF old, LegacyDrawn
  <2> QED
    BY <1>a, <1>11, <2>1
<1> QED
  BY <1>a, <1>1, <1>2, <1>3, <1>4, <1>10, <1>11, <1>12, <1>13 DEF c, schema

(* A resume restores, for every stream, the number of its invocations.     *)
LEMMA ResumeStep ==
  ASSUME NEW m \in BOOLEAN, IInvOf(m), Resume, enabled' = enabled, Streams' = Streams
  PROVE  IInvOf(m)'
<1>a. /\ Typed /\ TypeOK /\ Checkpoints(m) /\ OneSeed /\ History(m)
  BY DEF IInvOf, Typed
<1>b. PICK c \in disk, cfg \in Config :
        /\ ~ Refuses(c, cfg) /\ NewProcess(cfg)
        /\ job' = IF SeedsWrong(c, cfg) \/ CountersWrong(c) \/ LoadedProgressWrong(c, cfg)
                  THEN "corrupt" ELSE "up"
        /\ step' = c.step
        /\ seedBase' = [k \in enabled |-> LoadedSeed(c, cfg, k)]
        /\ subBase' = [k \in enabled |-> LoadedBase(c, k)]
        /\ origin' = LoadedOrigin(c)
        /\ next' = [r \in Rank |-> [st \in Streams |-> LoadedNext(c, r, st)]]
        /\ phase' = [k \in enabled |-> IF c.schema[k] = "current" THEN c.phase[k] ELSE starts + 1]
        /\ pos' = c.pos
        /\ drawn' = [r \in Rank |-> [st \in Streams |->
             IF /\ c.schema[st[1]] = "current" /\ c.phase[st[1]] = phase[st[1]]
                /\ Len(drawn[r][st]) >= Len(c.drawn[r][st])
             THEN drawn[r][st] ELSE c.drawn[r][st]]]
  BY DEF Resume
<1>c. /\ job # "up" /\ starts < MaxStarts /\ ga' = cfg.ga /\ starts' = starts + 1
      /\ UNCHANGED <<micro, left, launched, capture, graphed, disk>>
  BY <1>b DEF NewProcess, device
<1>d. /\ starts \in Nat /\ MaxStarts \in Nat /\ MaxGA \in Nat /\ Steps \in Nat \ {0}
      /\ starts' \in Nat /\ starts <= starts' /\ starts' \in 0 .. MaxStarts
  <2>1. starts \in Nat /\ MaxStarts \in Nat /\ MaxGA \in Nat /\ Steps \in Nat \ {0}
    BY <1>a, Numbers DEF TypeOK
  <2> QED
    BY <1>c, <2>1
<1>e. ga' \in 1 .. MaxGA
  BY <1>b, <1>c DEF Config
<1>f. /\ Checkpoints(m)'
      /\ \A d \in disk : Current(d) => Written(m, d)
  <2>1. \A d \in disk : Written(m, d) => Written(m, d)'
    BY <1>d, WrittenKept
  <2>2. Legacy(IF m THEN "v1" ELSE "missing")' = Legacy(IF m THEN "v1" ELSE "missing")
    BY LegacyKept
  <2>3. ~ Current(Legacy(IF m THEN "v1" ELSE "missing"))
    <3>1. PICK k \in enabled : TRUE
      BY <1>a DEF Typed
    <3>2. Legacy(IF m THEN "v1" ELSE "missing").schema[k] \in {"v1", "missing"}
      BY DEF Legacy
    <3> QED
      BY <3>1, <3>2 DEF Current
  <2> QED
    BY <1>a, <1>c, <2>1, <2>2, <2>3 DEF Checkpoints
<1>g. \A st \in Streams : st \in Stream /\ st[1] \in enabled
  BY <1>a, InStreams DEF Typed
<1>h. "head" \in enabled => HeadStream \in Streams
  BY <1>a, InStreams DEF Typed
<1>1. CASE Written(m, c)
  <2>1. /\ ~ SeedsWrong(c, cfg) /\ ~ CountersWrong(c) /\ ~ LoadedProgressWrong(c, cfg)
        /\ \A k \in enabled : /\ c.schema[k] = "current" /\ LoadedSeed(c, cfg, k) = c.seed[k]
                              /\ LoadedBase(c, k) = UserBase[k]
        /\ LoadedOrigin(c) = IF "head" \in enabled THEN c.origin ELSE 0
        /\ "head" \in enabled => cfg.ga = c.ga
    BY <1>a, <1>b, <1>1, LoadCurrent
  <2>2. /\ c.step \in 1 .. Steps /\ c.origin \in 0 .. c.step
        /\ c.seed \in [enabled -> Counter] /\ c.phase \in [enabled -> 0 .. starts]
        /\ c.pos \in [Rank -> [Streams -> Nat]] /\ c.drawn \in [Rank -> [Streams -> Coordinates]]
    BY <1>1 DEF Written
  <2>3. /\ job' = "up" /\ seedBase' = c.seed /\ subBase' = [k \in enabled |-> UserBase[k]]
        /\ phase' = c.phase
        /\ origin' = IF "head" \in enabled THEN c.origin ELSE 0
    <3>1. seedBase' = [k \in enabled |-> c.seed[k]] /\ phase' = [k \in enabled |-> c.phase[k]]
      BY <1>b, <2>1
    <3>2. subBase' = [k \in enabled |-> UserBase[k]]
      BY <1>b, <2>1
    <3> QED
      BY <1>b, <2>1, <2>2, <3>1, <3>2
  <2>4. \A k \in enabled : c.phase[k] = phase[k] => c.seed[k] = seedBase[k]
    BY <1>a, <1>1 DEF OneSeed, Written
  <2>5. ASSUME NEW r \in Rank, NEW st \in Streams
        PROVE  /\ drawn'[r][st] \in Coordinates
               /\ next'[r][st] \in Counter
               /\ pos'[r][st] <= Len(drawn'[r][st])
               /\ next'[r][st] = At(m, r, st, pos'[r][st])
               /\ Extra(m, r, st) + pos'[r][st] <= Budget(st, step', 0)
               /\ Follows(m, drawn'[r][st], seedBase'[st[1]], r, st)
    <3>1. /\ At(m, r, st, c.pos[r][st]) \in Counter
          /\ LoadedNext(c, r, st) = At(m, r, st, c.pos[r][st])
          /\ c.schema[st[1]] = "current"
      BY <1>a, <1>1, SavedCounter
    <3>2. /\ c.pos[r][st] <= Len(c.drawn[r][st])
          /\ Follows(m, c.drawn[r][st], c.seed[st[1]], r, st)
          /\ Extra(m, r, st) + c.pos[r][st] <= Budget(st, c.step, 0)
      BY <1>1 DEF Written
    <3>3. next'[r][st] = LoadedNext(c, r, st) /\ pos'[r][st] = c.pos[r][st]
      BY <1>b
    <3>4. /\ drawn[r][st] \in Coordinates /\ c.drawn[r][st] \in Coordinates
          /\ Len(drawn[r][st]) \in Nat /\ Len(c.drawn[r][st]) \in Nat /\ c.pos[r][st] \in Nat
      <4>1. drawn[r][st] \in Coordinates /\ c.drawn[r][st] \in Coordinates /\ c.pos[r][st] \in Nat
        BY <1>a, <2>2 DEF Typed
      <4> QED
        BY <4>1, LenProperties DEF Coordinates
    <3>5. /\ drawn'[r][st] \in Coordinates /\ c.pos[r][st] <= Len(drawn'[r][st])
          /\ Follows(m, drawn'[r][st], c.seed[st[1]], r, st)
      <4>1. CASE c.phase[st[1]] = phase[st[1]] /\ Len(drawn[r][st]) >= Len(c.drawn[r][st])
        <5>1. drawn'[r][st] = drawn[r][st]
          BY <1>b, <3>1, <4>1
        <5>2. Follows(m, drawn[r][st], c.seed[st[1]], r, st)
          BY <1>a, <1>g, <2>4, <4>1 DEF History
        <5>3. c.pos[r][st] <= Len(drawn[r][st])
          <6> DEFINE a == c.pos[r][st]
                     b == Len(c.drawn[r][st])
                     l == Len(drawn[r][st])
          <6>1. a <= b /\ b <= l /\ a \in Nat /\ b \in Nat /\ l \in Nat
            BY <3>2, <3>4, <4>1
          <6> HIDE DEF a, b, l
          <6>2. a <= l
            BY <6>1
          <6> QED
            BY <6>2 DEF a, l
        <5> QED
          BY <3>4, <5>1, <5>2, <5>3
      <4>2. CASE ~(c.phase[st[1]] = phase[st[1]] /\ Len(drawn[r][st]) >= Len(c.drawn[r][st]))
        <5>1. drawn'[r][st] = c.drawn[r][st]
          BY <1>b, <4>2
        <5> QED
          BY <3>2, <3>4, <5>1
      <4> QED
        BY <4>1, <4>2
    <3> QED
      BY <1>b, <2>3, <3>1, <3>2, <3>3, <3>5
  <2>6. /\ next' \in [Rank -> [Streams -> Counter]] /\ pos' \in [Rank -> [Streams -> Nat]]
        /\ drawn' \in [Rank -> [Streams -> Coordinates]]
    <3>1. next' \in [Rank -> [Streams -> Counter]]
      <4>1. \A r \in Rank, st \in Streams : LoadedNext(c, r, st) \in Counter
        BY <1>a, <1>1, SavedCounter
      <4> QED
        BY <1>b, <4>1
    <3>2. drawn' \in [Rank -> [Streams -> Coordinates]]
      <4>1. drawn' = [r \in Rank |-> [st \in Streams |-> drawn'[r][st]]]
        BY <1>b
      <4> QED
        BY <2>5, <4>1
    <3> QED
      BY <1>b, <2>2, <3>1, <3>2
  <2>7. step' \in 0 .. Steps /\ origin' \in 0 .. Steps /\ ("head" \notin enabled => origin' = 0)
    BY <1>b, <1>d, <2>2, <2>3
  <2>8. "head" \in enabled =>
          /\ origin' <= step'
          /\ \A r \in Rank : pos'[r][HeadStream] = Microbatches(step', origin', ga', 0)
    <3> SUFFICES ASSUME "head" \in enabled
                 PROVE  /\ origin' <= step'
                        /\ \A r \in Rank : pos'[r][HeadStream] = Microbatches(step', origin', ga', 0)
      OBVIOUS
    <3>1. /\ step' = c.step /\ origin' = c.origin /\ ga' = c.ga /\ pos' = c.pos
      BY <1>b, <1>c, <2>1, <2>3
    <3>2. \A r \in Rank : c.pos[r][HeadStream] = Microbatches(c.step, c.origin, c.ga, 0)
      BY <1>1 DEF Written
    <3>3. c.origin <= c.step
      BY <1>d, <2>2
    <3> QED
      BY <3>1, <3>2, <3>3
  <2>9. phase' \in [enabled -> 0 .. starts']
    <3>1. 0 .. starts \subseteq 0 .. starts'
      BY <1>d
    <3> QED
      BY <2>2, <2>3, <3>1
  <2>10. OneSeed'
    <3>1. \A d \in disk : Current(d) => \A k \in enabled :
            /\ d.phase[k] = c.phase[k] => d.seed[k] = c.seed[k]
            /\ \A b \in disk : Current(b) /\ d.phase[k] = b.phase[k] => d.seed[k] = b.seed[k]
      BY <1>a, <1>1 DEF OneSeed, Written
    <3> QED
      BY <1>c, <2>3, <3>1 DEF OneSeed, Current
  <2>11. History(m)'
    BY <2>5 DEF History
  <2>12. Restored(m)'
    <3>1. seedBase' \in [enabled -> Counter]
      BY <2>2, <2>3
    <3> QED
      BY <1>d, <1>e, <1>f, <2>3, <2>5, <2>6, <2>7, <2>8, <2>9, <2>10, <2>11, <3>1 DEF Restored
  <2> QED
    BY <1>c, <2>12, Restart
<1>2. CASE c = Legacy(IF m THEN "v1" ELSE "missing")
  <2>1. /\ ~ SeedsWrong(c, cfg) /\ ~ CountersWrong(c) /\ ~ LoadedProgressWrong(c, cfg)
        /\ \A k \in enabled : /\ c.schema[k] # "current" /\ LoadedSeed(c, cfg, k) \in Counter
                              /\ LoadedBase(c, k) = UserBase[k]
        /\ "head" \in enabled /\ LoadedOrigin(c) = 1 /\ c.step = 1
        /\ c.pos \in [Rank -> [Streams -> Nat]]
        /\ c.drawn \in [Rank -> [Streams -> Coordinates]]
        /\ \A r \in Rank, st \in Streams :
             /\ c.pos[r][st] = Len(c.drawn[r][st])
             /\ Extra(m, r, st) + c.pos[r][st] <= Budget(st, 1, 0)
             /\ At(m, r, st, c.pos[r][st]) \in Counter
             /\ LoadedNext(c, r, st) = At(m, r, st, c.pos[r][st])
             /\ Follows(m, c.drawn[r][st], LoadedSeed(c, cfg, st[1]), r, st)
             /\ st = HeadStream => c.pos[r][st] = 0
    BY <1>a, <1>b, <1>2, LoadLegacy
  <2>2. /\ job' = "up" /\ step' = 1 /\ origin' = 1 /\ pos' = c.pos
        /\ subBase' = [k \in enabled |-> UserBase[k]]
        /\ phase' = [k \in enabled |-> starts + 1]
        /\ seedBase' \in [enabled -> Counter]
        /\ \A k \in enabled : seedBase'[k] = LoadedSeed(c, cfg, k)
    BY <1>b, <2>1
  <2>3. /\ drawn' = [r \in Rank |-> [st \in Streams |-> c.drawn[r][st]]]
        /\ \A r \in Rank, st \in Streams : drawn'[r][st] = c.drawn[r][st]
    BY <1>b, <1>g, <2>1
  <2>4. ASSUME NEW r \in Rank, NEW st \in Streams
        PROVE  /\ next'[r][st] \in Counter
               /\ pos'[r][st] <= Len(drawn'[r][st])
               /\ next'[r][st] = At(m, r, st, pos'[r][st])
               /\ Extra(m, r, st) + pos'[r][st] <= Budget(st, step', 0)
               /\ Follows(m, drawn'[r][st], seedBase'[st[1]], r, st)
    <3>1. next'[r][st] = LoadedNext(c, r, st)
      BY <1>b
    <3>2. pos'[r][st] = c.pos[r][st] /\ c.pos[r][st] \in Nat /\ drawn'[r][st] = c.drawn[r][st]
      BY <2>1, <2>2, <2>3
    <3>3. seedBase'[st[1]] = LoadedSeed(c, cfg, st[1])
      BY <1>g, <2>2
    <3>4. /\ c.pos[r][st] = Len(c.drawn[r][st])
          /\ Extra(m, r, st) + c.pos[r][st] <= Budget(st, 1, 0)
          /\ At(m, r, st, c.pos[r][st]) \in Counter
          /\ LoadedNext(c, r, st) = At(m, r, st, c.pos[r][st])
          /\ Follows(m, c.drawn[r][st], LoadedSeed(c, cfg, st[1]), r, st)
      BY <2>1
    <3>5. c.pos[r][st] <= Len(c.drawn[r][st])
      BY <3>2, <3>4
    <3> QED
      BY <2>2, <3>1, <3>2, <3>3, <3>4, <3>5
  <2>5. /\ next' \in [Rank -> [Streams -> Counter]] /\ pos' \in [Rank -> [Streams -> Nat]]
        /\ drawn' \in [Rank -> [Streams -> Coordinates]]
    <3>1. next' = [r \in Rank |-> [st \in Streams |-> next'[r][st]]]
      BY <1>b
    <3>2. next' \in [Rank -> [Streams -> Counter]]
      BY <2>4, <3>1
    <3>3. drawn' \in [Rank -> [Streams -> Coordinates]]
      BY <2>1, <2>3
    <3> QED
      BY <2>1, <2>2, <3>2, <3>3
  <2>6. /\ step' \in 0 .. Steps /\ origin' \in 0 .. Steps /\ origin' <= step'
    BY <1>d, <2>2
  <2>7. \A r \in Rank : pos'[r][HeadStream] = Microbatches(step', origin', ga', 0)
    <3>1. Microbatches(1, 1, ga', 0) = 0
      <4>1. ga' \in Nat
        BY <1>d, <1>e
      <4>2. \A g \in Nat : (1 - 1) * g + 0 = 0
        OBVIOUS
      <4> QED
        BY <4>1, <4>2 DEF Microbatches
    <3>2. \A r \in Rank : c.pos[r][HeadStream] = 0
      BY <1>h, <2>1
    <3> QED
      BY <2>2, <3>1, <3>2
  <2>8. phase' \in [enabled -> 0 .. starts']
    <3>1. starts + 1 \in 0 .. starts'
      BY <1>c, <1>d
    <3> QED
      BY <2>2, <3>1
  <2>9. OneSeed'
    <3>1. \A d \in disk : Current(d) => \A k \in enabled : d.phase[k] # starts + 1
      <4>1. \A v \in 0 .. starts : v # starts + 1
        BY <1>d
      <4>2. \A d \in disk : Current(d) => d.phase \in [enabled -> 0 .. starts]
        BY <1>f DEF Written
      <4> QED
        BY <4>1, <4>2
    <3>2. \A k \in enabled : phase'[k] = starts + 1
      BY <2>2
    <3>3. \A d, b \in disk : Current(d) /\ Current(b) => \A k \in enabled :
            d.phase[k] = b.phase[k] => d.seed[k] = b.seed[k]
      BY <1>a DEF OneSeed
    <3> QED
      BY <1>c, <3>1, <3>2, <3>3 DEF OneSeed, Current
  <2>10. History(m)'
    BY <2>4 DEF History
  <2>11. Restored(m)'
    BY <1>d, <1>e, <1>f, <2>1, <2>2, <2>4, <2>5, <2>6, <2>7, <2>8, <2>9, <2>10 DEF Restored
  <2> QED
    BY <1>c, <2>11, Restart
<1> QED
  BY <1>a, <1>1, <1>2 DEF Checkpoints

-----------------------------------------------------------------------------
(* The theorems                                                            *)

(* A job begins with an empty disk or with one old checkpoint.             *)
LEMMA InitIInv ==
  ASSUME Init
  PROVE  IInv
<1>a. /\ enabled \in {{"mxfp4"}, {"localcta", "head"}}
      /\ disk \in {{}} \cup {{Legacy(schema)} : schema \in {"missing", "v1"}}
      /\ job = "down" /\ starts = 0 /\ ga = MaxGA
      /\ step = 0 /\ micro = [r \in Rank |-> 0] /\ left = PerStream(0)
      /\ seedBase = [k \in enabled |-> UserSeed[k]] /\ subBase = [k \in enabled |-> UserBase[k]]
      /\ origin = 0 /\ next = [r \in Rank |-> [st \in Streams |-> UserBase[st[1]]]]
      /\ launched = PerStream(0)
      /\ capture = [r \in Rank |-> <<>>] /\ graphed = [r \in Rank |-> FALSE]
      /\ drawn = PerStream(<<>>) /\ pos = PerStream(0) /\ phase = [k \in enabled |-> 0]
  BY DEF Init
<1>b. PICK m \in BOOLEAN : /\ m => disk # {}
                           /\ \A c \in disk : c = Legacy(IF m THEN "v1" ELSE "missing")
  <2>1. CASE disk = {Legacy("v1")}
    BY <2>1
  <2>2. CASE disk = {} \/ disk = {Legacy("missing")}
    BY <2>2
  <2> QED
    BY <1>a, <2>1, <2>2
<1>c. /\ 0 \in 0 .. MaxGA /\ 0 \in 0 .. 3 /\ 0 \in 0 .. MaxLag /\ 0 \in 0 .. Steps
      /\ 0 \in 0 .. MaxStarts /\ MaxGA \in 1 .. MaxGA /\ 0 \in 0 .. 0 /\ 0 <= MaxGA
  BY Numbers
<1>d. /\ \A k \in enabled : UserSeed[k] \in Counter /\ UserBase[k] \in Counter
      /\ \A st \in Streams : UserBase[st[1]] \in Counter
  BY <1>a, InStreams, Numbers
<1>1. Typed
  <2>1. /\ micro \in [Rank -> 0 .. MaxGA]
        /\ capture \in [Rank -> Seq(Counter)] /\ \A r \in Rank : Len(capture[r]) <= 1
        /\ graphed \in [Rank -> BOOLEAN]
    <3>1. <<>> \in Seq(Counter) /\ Len(<<>>) = 0
      OBVIOUS
    <3> QED
      BY <1>a, <1>c, <3>1
  <2>2. /\ left \in [Rank -> [Streams -> 0 .. 3]] /\ launched \in [Rank -> [Streams -> 0 .. MaxLag]]
        /\ pos \in [Rank -> [Streams -> Nat]]
    BY <1>a, <1>c DEF PerStream
  <2>3. drawn \in [Rank -> [Streams -> Coordinates]]
    <3>1. <<>> \in Coordinates
      BY DEF Coordinates
    <3> QED
      BY <1>a, <3>1 DEF PerStream
  <2>4. /\ next \in [Rank -> [Streams -> Counter]]
        /\ seedBase \in [enabled -> Counter] /\ subBase \in [enabled -> Counter]
        /\ phase \in [enabled -> 0 .. starts]
    BY <1>a, <1>c, <1>d
  <2> QED
    BY <1>a, <1>c, <2>1, <2>2, <2>3, <2>4 DEF Typed, TypeOK
<1>2. Process
  <2>1. \A r \in Rank : /\ micro[r] = 0 /\ capture[r] = <<>>
                        /\ \A st \in Streams : left[r][st] = 0 /\ launched[r][st] = 0
    BY <1>a DEF PerStream
  <2> QED
    BY <1>a, <1>c, <2>1 DEF Process
<1>3. Checkpoints(m)
  BY <1>b DEF Checkpoints
<1>4. OneSeed
  <2>1. ASSUME NEW c \in disk PROVE ~ Current(c)
    <3>1. PICK k \in enabled : TRUE
      BY <1>a
    <3>2. c = Legacy(IF m THEN "v1" ELSE "missing")
      BY <1>b
    <3>3. c.schema[k] \in {"v1", "missing"}
      BY <3>1, <3>2 DEF Legacy
    <3> QED
      BY <3>1, <3>3 DEF Current
  <2> QED
    BY <2>1 DEF OneSeed
<1>5. History(m)
  <2>1. \A r \in Rank, st \in Streams : drawn[r][st] = <<>>
    BY <1>a DEF PerStream
  <2>2. Len(<<>>) = 0
    OBVIOUS
  <2> QED
    BY <2>1, <2>2 DEF History, Follows
<1>6. IInvOf(m)
  BY <1>a, <1>1, <1>2, <1>3, <1>4, <1>5 DEF IInvOf, HeadCount
<1> QED
  BY <1>6 DEF IInv

\* Every step keeps the invariant.
LEMMA NextIInv ==
  ASSUME NEW m \in BOOLEAN, IInvOf(m), [Next]_vars
  PROVE  IInvOf(m)'
<1>1. enabled' = enabled /\ Streams' = Streams
  BY EnabledFixed
<1>2. ASSUME NEW r \in Rank, BeginMicrobatch(r) PROVE IInvOf(m)'
  BY <1>1, <1>2, BeginMicrobatchStep
<1>3. ASSUME NEW r \in Rank, BeginCapture(r) PROVE IInvOf(m)'
  BY <1>1, <1>3, BeginCaptureStep
<1>4. ASSUME NEW r \in Rank, EndCapture(r) PROVE IInvOf(m)'
  BY <1>1, <1>4, EndCaptureStep
<1>5. ASSUME NEW r \in Rank, NEW st \in Streams, Reserve(r, st) PROVE IInvOf(m)'
  BY <1>1, <1>5, ReserveStep
<1>6. ASSUME NEW r \in Rank, NEW st \in Streams, LaunchDraw(r, st) PROVE IInvOf(m)'
  BY <1>1, <1>6, LaunchDrawStep
<1>7. ASSUME NEW r \in Rank, NEW st \in Streams, ExecuteDraw(r, st) PROVE IInvOf(m)'
  BY <1>1, <1>7, ExecuteDrawStep
<1>8. CASE EndStep
  BY <1>1, <1>8, EndStepStep
<1>9. CASE Save
  BY <1>1, <1>9, SaveStep
<1>10. CASE Crash
  BY <1>1, <1>10, CrashStep
<1>11. CASE StartFresh
  BY <1>1, <1>11, StartFreshStep
<1>12. CASE RefuseResume
  BY <1>1, <1>12, RefuseResumeStep
<1>13. CASE Resume
  BY <1>1, <1>13, ResumeStep
<1>14. CASE UNCHANGED vars
  <2>a. /\ Typed /\ TypeOK /\ Checkpoints(m) /\ OneSeed /\ History(m)
    BY DEF IInvOf, Typed
  <2>1. starts \in Nat
    BY <2>a, Numbers DEF TypeOK
  <2>2. UNCHANGED <<enabled, ga, starts, job, step, micro, left, seedBase, subBase, origin, next,
                    launched, capture, graphed, disk, drawn, pos, phase>>
    BY <1>14 DEF vars, launch, loop, streams, device, ghosts
  <2>3. Checkpoints(m)' /\ OneSeed' /\ History(m)'
    BY <1>1, <2>a, <2>1, <2>2, DiskKept, HistoryKept
  <2>4. Typed' /\ Process' /\ HeadCount'
    BY <1>1, <2>a, <2>2 DEF IInvOf, Typed, TypeOK, Process, HeadCount
  <2>5. ASSUME job = "up", NEW r \in Rank, NEW st \in Streams PROVE Position(m, r, st)'
    BY <2>2, <2>5 DEF IInvOf, Position, Held
  <2> QED
    BY <1>1, <2>2, <2>3, <2>4, <2>5 DEF IInvOf
<1> QED
  BY <1>2, <1>3, <1>4, <1>5, <1>6, <1>7, <1>8, <1>9, <1>10, <1>11, <1>12, <1>13, <1>14 DEF Next

\* The invariant holds throughout.
LEMMA Inductive == Spec => []IInv
<1>1. Init => IInv
  BY InitIInv
<1>2. IInv /\ [Next]_vars => IInv'
  BY NextIInv DEF IInv
<1> QED
  BY <1>1, <1>2, PTL DEF Spec

(* No counter overflows and no check raises, whatever the job saved,       *)
(* crashed, resumed and migrated: reserve, validate_progress and the       *)
(* consistency checks of the three load_state_dict accept what the code    *)
(* itself wrote.                                                           *)
THEOREM NoCheckRaises == Spec => []NeverCorrupt
<1>1. IInv => NeverCorrupt
  BY DEF IInv, IInvOf, Typed, NeverCorrupt
<1> QED
  BY <1>1, Inductive, PTL

(* There are finitely many streams.                                        *)
LEMMA FinitelyMany ==
  ASSUME Typed
  PROVE  IsFiniteSet(Rank \X Streams \X (1 .. Modulus))
<1>1. /\ WorldSize \in Nat /\ Modulus \in Nat
      /\ \A k \in Kind : Keys[k] \in Nat
  BY Numbers
<1>2. IsFiniteSet(Rank) /\ IsFiniteSet(1 .. Modulus)
  BY <1>1, FS_Interval DEF Rank
<1>3. IsFiniteSet(Streams)
  <2> DEFINE N == Keys["mxfp4"] + Keys["localcta"] + Keys["head"]
  <2>1. Keys["mxfp4"] \in Nat /\ Keys["localcta"] \in Nat /\ Keys["head"] \in Nat
    BY <1>1 DEF Kind
  <2>2. N \in Nat /\ \A k \in Kind : Keys[k] <= N
    BY <2>1 DEF Kind
  <2> HIDE DEF N
  <2>3. IsFiniteSet(Kind)
    <3>1. IsFiniteSet({"mxfp4"}) /\ IsFiniteSet({"localcta"}) /\ IsFiniteSet({"head"})
      BY FS_Singleton
    <3>2. IsFiniteSet({"mxfp4"} \cup {"localcta"})
      BY <3>1, FS_Union
    <3>3. IsFiniteSet({"mxfp4"} \cup {"localcta"} \cup {"head"})
      BY <3>1, <3>2, FS_Union
    <3>4. Kind = {"mxfp4"} \cup {"localcta"} \cup {"head"}
      BY DEF Kind
    <3> QED
      BY <3>3, <3>4
  <2>4. IsFiniteSet(Kind \X (0 .. N))
    <3>1. IsFiniteSet(0 .. N)
      BY <2>2, FS_Interval
    <3> QED
      BY <2>3, <3>1, FS_Product
  <2>5. Streams \subseteq Kind \X (0 .. N)
    <3> SUFFICES ASSUME NEW st \in Streams PROVE st \in Kind \X (0 .. N)
      OBVIOUS
    <3>1. st[1] \in Kind /\ st[2] \in 0 .. Keys[st[1]] - 1 /\ st = <<st[1], st[2]>>
      BY StreamFacts DEF Streams
    <3>2. Keys[st[1]] \in Nat /\ Keys[st[1]] <= N
      BY <1>1, <2>2, <3>1
    <3>3. st[2] \in 0 .. N
      BY <2>2, <3>1, <3>2
    <3>4. <<st[1], st[2]>> \in Kind \X (0 .. N)
      BY <3>1, <3>3
    <3> QED
      BY <3>1, <3>4
  <2> QED
    BY <2>4, <2>5, FS_Subset
<1>4. IsFiniteSet(Streams \X (1 .. Modulus))
  BY <1>2, <1>3, FS_Product
<1>5. IsFiniteSet(Rank \X (Streams \X (1 .. Modulus)))
  BY <1>2, <1>4, FS_Product
<1> DEFINE Triples == Rank \X Streams \X (1 .. Modulus)
           Nested == Rank \X (Streams \X (1 .. Modulus))
           f == [x \in Nested |-> <<x[1], x[2][1], x[2][2]>>]
<1>6. f \in Surjection(Nested, Triples)
  <2>1. f \in [Nested -> Triples]
    OBVIOUS
  <2>2. ASSUME NEW t \in Triples PROVE \E x \in Nested : f[x] = t
    <3>1. PICK r \in Rank, st \in Streams, n \in 1 .. Modulus : t = <<r, st, n>>
      OBVIOUS
    <3>2. <<r, <<st, n>>>> \in Nested /\ f[<<r, <<st, n>>>>] = <<r, st, n>>
      OBVIOUS
    <3> QED
      BY <3>1, <3>2
  <2> QED
    BY <2>1, <2>2, Fun_IsSurj
<1> HIDE DEF f
<1> QED
  BY <1>5, <1>6, FS_Surjection

(* A coordinate tells the rank, the stream and the invocation.             *)
LEMMA Tells ==
  ASSUME NEW m \in BOOLEAN, Typed, History(m), NEW k \in enabled,
         NEW i \in Invocations(k), NEW j \in Invocations(k),
         drawn[i[1]][i[2]][i[3]] = drawn[j[1]][j[2]][j[3]]
  PROVE  i = j
<1>a. /\ i[1] \in Rank /\ i[2] \in Streams /\ i[3] \in 1 .. Modulus /\ i = <<i[1], i[2], i[3]>>
      /\ j[1] \in Rank /\ j[2] \in Streams /\ j[3] \in 1 .. Modulus /\ j = <<j[1], j[2], j[3]>>
      /\ i[2][1] = k /\ i[3] <= Len(drawn[i[1]][i[2]])
      /\ j[2][1] = k /\ j[3] <= Len(drawn[j[1]][j[2]])
  BY DEF Invocations
<1> DEFINE b == seedBase[k]
<1>1. ASSUME NEW x \in Invocations(k), x[1] \in Rank, x[2] \in Streams, x[3] \in 1 .. Modulus,
             x[2][1] = k, x[3] <= Len(drawn[x[1]][x[2]])
      PROVE  /\ drawn[x[1]][x[2]][x[3]] = <<SeedFor(b, k, x[1], x[2][2]), At(m, x[1], x[2], x[3] - 1)>>
             /\ x[3] - 1 \in Nat /\ x[2] \in Stream /\ x[2] = <<k, x[2][2]>>
             /\ x[2][2] \in 0 .. Keys[k] - 1
  <2>1. Len(drawn[x[1]][x[2]]) \in Nat /\ Modulus \in Nat
    BY <1>1, Numbers, Values
  <2>2. x[3] \in 1 .. Len(drawn[x[1]][x[2]]) /\ x[3] - 1 \in Nat
    BY <1>1, <2>1
  <2>3. drawn[x[1]][x[2]][x[3]] = <<SeedOf(seedBase[x[2][1]], x[1], x[2]), At(m, x[1], x[2], x[3] - 1)>>
    BY <1>1, <2>2 DEF History, Follows
  <2>4. x[2] \in Stream
    BY <1>1 DEF Streams
  <2>5. x[2] = <<k, x[2][2]>> /\ x[2][2] \in 0 .. Keys[k] - 1
    BY <1>1, <2>4, StreamFacts
  <2> QED
    BY <1>1, <2>2, <2>3, <2>4, <2>5 DEF SeedOf
<1>2. k \in Kind /\ b \in 0 .. Modulus - 1
  BY InStreams DEF Typed, TypeOK, Counter
<1>3. /\ SeedFor(b, k, i[1], i[2][2]) = SeedFor(b, k, j[1], j[2][2])
      /\ At(m, i[1], i[2], i[3] - 1) = At(m, j[1], j[2], j[3] - 1)
  <2>1. <<SeedFor(b, k, i[1], i[2][2]), At(m, i[1], i[2], i[3] - 1)>>
          = <<SeedFor(b, k, j[1], j[2][2]), At(m, j[1], j[2], j[3] - 1)>>
    BY <1>a, <1>1
  <2> QED
    BY <2>1
<1>4. i[1] = j[1] /\ i[2][2] = j[2][2]
  <2>1. i[2][2] \in 0 .. Keys[k] - 1 /\ j[2][2] \in 0 .. Keys[k] - 1
    BY <1>a, <1>1
  <2> HIDE DEF b
  <2> QED
    BY <1>a, <1>2, <1>3, <2>1, SeedsDistinct
<1>5. i[2] = j[2]
  <2>1. i[2] = <<k, i[2][2]>> /\ j[2] = <<k, j[2][2]>>
    BY <1>a, <1>1
  <2> QED
    BY <1>4, <2>1, Zenon
<1>6. i[3] = j[3]
  <2>1. /\ i[3] - 1 \in Nat /\ j[3] - 1 \in Nat /\ i[2] \in Stream
    BY <1>a, <1>1
  <2>2. i[3] - 1 = j[3] - 1
    BY <1>a, <1>3, <1>4, <1>5, <2>1, AtFacts
  <2>3. i[3] \in Int /\ j[3] \in Int
    BY <1>a
  <2> QED
    BY <2>2, <2>3
<1> QED
  BY <1>a, <1>4, <1>5, <1>6

(* No Philox coordinate is used twice: not by two ranks, not by two        *)
(* producers, and not before and after a restart.                          *)
THEOREM DrawsDistinct == Spec => []CoordinatesDistinct
<1>1. ASSUME NEW m \in BOOLEAN, IInvOf(m)
      PROVE  CoordinatesDistinct
  <2>a. Typed /\ History(m)
    BY <1>1 DEF IInvOf
  <2> SUFFICES ASSUME NEW k \in enabled
               PROVE  Cardinality({drawn[i[1]][i[2]][i[3]] : i \in Invocations(k)})
                        = Cardinality(Invocations(k))
    BY DEF CoordinatesDistinct
  <2> DEFINE S == Invocations(k)
             T == {drawn[i[1]][i[2]][i[3]] : i \in S}
             f == [i \in S |-> drawn[i[1]][i[2]][i[3]]]
  <2>1. IsFiniteSet(S)
    <3>1. S \in SUBSET (Rank \X Streams \X (1 .. Modulus))
      BY DEF Invocations
    <3> HIDE DEF S
    <3> QED
      BY <2>a, <3>1, FinitelyMany, FS_Subset
  <2>2. \A i, j \in S : drawn[i[1]][i[2]][i[3]] = drawn[j[1]][j[2]][j[3]] => i = j
    BY <2>a, Tells
  <2> HIDE DEF S
  <2>3. f \in [S -> T] /\ \A t \in T : \E i \in S : f[i] = t
    OBVIOUS
  <2>4. \A i, j \in S : f[i] = f[j] => i = j
    BY <2>2
  <2> HIDE DEF f, T
  <2>5. f \in Surjection(S, T)
    BY <2>3, Fun_IsSurj
  <2>6. f \in Injection(S, T)
    BY <2>3, <2>4, Fun_IsInj
  <2>7. Cardinality(T) = Cardinality(S)
    BY <2>1, <2>5, <2>6, FS_Surjection
  <2> QED
    BY <2>7 DEF S, T
<1>2. IInv => CoordinatesDistinct
  BY <1>1 DEF IInv
<1> QED
  BY <1>2, Inductive, PTL

(* A step that begins no phase of a kind changes its seed as little as it  *)
(* forgets an invocation of its streams.                                   *)
LEMMA PhaseKeeps ==
  ASSUME NEW m \in BOOLEAN, IInvOf(m), Next, NEW r \in Rank, NEW st \in Streams,
         phase'[st[1]] = phase[st[1]]
  PROVE  /\ seedBase'[st[1]] = seedBase[st[1]]
         /\ Len(drawn'[r][st]) >= Len(drawn[r][st])
<1>a. /\ Typed /\ TypeOK /\ Checkpoints(m) /\ OneSeed
      /\ st[1] \in enabled
      /\ enabled' = enabled /\ Streams' = Streams
  BY EnabledFixed, InStreams DEF IInvOf, Typed
<1>b. Len(drawn[r][st]) \in Nat /\ phase[st[1]] # starts + 1
  <2>1. phase[st[1]] \in 0 .. starts /\ starts \in 0 .. MaxStarts
    BY <1>a DEF Typed, TypeOK
  <2> QED
    BY <1>a, <2>1, Numbers, Values
<1>1. CASE UNCHANGED <<seedBase, drawn>>
  BY <1>b, <1>1
<1>2. CASE Grows
  BY <1>2 DEF Grows
<1>3. ASSUME NEW q \in Rank, BeginMicrobatch(q) \/ BeginCapture(q) \/ EndCapture(q)
      PROVE  UNCHANGED <<seedBase, drawn>>
  BY <1>3 DEF BeginMicrobatch, BeginCapture, EndCapture, streams, ghosts
<1>4. ASSUME NEW q \in Rank, NEW s \in Streams, Reserve(q, s) \/ ExecuteDraw(q, s)
      PROVE  Grows
  BY <1>a, <1>4, ReserveStep, ExecuteDrawStep
<1>5. ASSUME NEW q \in Rank, NEW s \in Streams, LaunchDraw(q, s)
      PROVE  UNCHANGED <<seedBase, drawn>>
  BY <1>5 DEF LaunchDraw, streams
<1>6. ASSUME EndStep \/ Save \/ Crash \/ RefuseResume
      PROVE  UNCHANGED <<seedBase, drawn>>
  BY <1>6 DEF EndStep, Save, Crash, RefuseResume, streams, ghosts
<1>7. CASE StartFresh
  <2>1. phase'[st[1]] = starts + 1
    BY <1>a, <1>7 DEF StartFresh
  <2> QED
    BY <1>b, <2>1
<1>8. CASE Resume
  <2>1. PICK c \in disk, cfg \in Config :
          /\ seedBase' = [k \in enabled |-> LoadedSeed(c, cfg, k)]
          /\ phase' = [k \in enabled |-> IF c.schema[k] = "current" THEN c.phase[k] ELSE starts + 1]
          /\ drawn' = [q \in Rank |-> [s \in Streams |->
               IF /\ c.schema[s[1]] = "current" /\ c.phase[s[1]] = phase[s[1]]
                  /\ Len(drawn[q][s]) >= Len(c.drawn[q][s])
               THEN drawn[q][s] ELSE c.drawn[q][s]]]
    BY <1>8 DEF Resume
  <2>2. c.schema[st[1]] = "current" /\ c.phase[st[1]] = phase[st[1]]
    BY <1>a, <1>b, <2>1
  <2>3. Written(m, c)
    <3>1. c # Legacy(IF m THEN "v1" ELSE "missing")
      <4>1. Legacy(IF m THEN "v1" ELSE "missing").schema[st[1]] # "current"
        BY <1>a DEF Legacy
      <4> QED
        BY <2>2, <4>1
    <3> QED
      BY <1>a, <3>1 DEF Checkpoints
  <2>4. seedBase'[st[1]] = seedBase[st[1]]
    <3>1. seedBase'[st[1]] = c.seed[st[1]]
      BY <1>a, <2>1, <2>2 DEF LoadedSeed
    <3> QED
      BY <1>a, <2>2, <2>3, <3>1 DEF OneSeed, Written
  <2>5. Len(drawn'[r][st]) >= Len(drawn[r][st])
    <3>1. drawn'[r][st] = IF Len(drawn[r][st]) >= Len(c.drawn[r][st])
                          THEN drawn[r][st] ELSE c.drawn[r][st]
      BY <2>1, <2>2
    <3>2. Len(c.drawn[r][st]) \in Nat
      <4>1. c.drawn[r][st] \in Coordinates
        BY <2>3 DEF Written
      <4> QED
        BY <4>1, LenProperties DEF Coordinates
    <3> QED
      BY <1>b, <3>1, <3>2
  <2> QED
    BY <2>4, <2>5
<1> QED
  BY <1>1, <1>2, <1>3, <1>4, <1>5, <1>6, <1>7, <1>8 DEF Next

(* A resumed run rounds as the run it continues: while no new phase is     *)
(* declared, an invocation made again gets the coordinate it had, in       *)
(* whatever order ranks and kernels ran.                                   *)
THEOREM Replays == Spec => ReplaysExactly
<1> DEFINE Same == \A r \in Rank, st \in Streams :
             phase'[st[1]] = phase[st[1]] =>
               /\ Len(drawn'[r][st]) >= Len(drawn[r][st])
               /\ SubSeq(drawn'[r][st], 1, Len(drawn[r][st])) = drawn[r][st]
<1>1. ASSUME NEW m \in BOOLEAN, IInvOf(m), Next
      PROVE  Same
  <2> SUFFICES ASSUME NEW r \in Rank, NEW st \in Streams, phase'[st[1]] = phase[st[1]]
               PROVE  /\ Len(drawn'[r][st]) >= Len(drawn[r][st])
                      /\ SubSeq(drawn'[r][st], 1, Len(drawn[r][st])) = drawn[r][st]
    OBVIOUS
  <2>1. IInvOf(m)' /\ enabled' = enabled /\ Streams' = Streams
    BY <1>1, NextIInv, EnabledFixed
  <2>2. seedBase'[st[1]] = seedBase[st[1]] /\ Len(drawn'[r][st]) >= Len(drawn[r][st])
    BY <1>1, PhaseKeeps
  <2>3. /\ Follows(m, drawn[r][st], seedBase[st[1]], r, st)
        /\ Follows(m, drawn'[r][st], seedBase'[st[1]], r, st)
    BY <1>1, <2>1 DEF IInvOf, History
  <2>4. drawn[r][st] \in Coordinates /\ drawn'[r][st] \in Coordinates
    BY <1>1, <2>1 DEF IInvOf, Typed
  <2>5. Len(drawn[r][st]) <= Len(drawn'[r][st])
    <3>1. Len(drawn[r][st]) \in Nat /\ Len(drawn'[r][st]) \in Nat
      BY <2>4, LenProperties DEF Coordinates
    <3> QED
      BY <2>2, <3>1
  <2> QED
    BY <2>2, <2>3, <2>4, <2>5, FollowsPrefix
<1>2. IInv /\ [Next]_vars => [Same]_vars
  BY <1>1 DEF IInv
<1> QED
  BY <1>2, Inductive, PTL DEF Spec, ReplaysExactly

=============================================================================
