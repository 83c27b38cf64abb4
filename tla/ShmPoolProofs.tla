----------------------------- MODULE ShmPoolProofs -----------------------------
(***************************************************************************)
(* Theorems about the frame pool of ShmPool, for every size of its rings   *)
(* and every number of users and readers: what the readers' numbers,       *)
(* semaphores and places are worth, that no block is lost, and that no     *)
(* frame is torn.                                                          *)
(***************************************************************************)
EXTENDS ShmPool, FiniteSetTheorems, WellFoundedInduction, TLAPS

--------------------------------------------------------------------------------
(* Rings.                                                                    *)

LEMMA RingIsThere == MaxEle \in Nat \ {0} /\ MaxEle > 2
  BY RingAssumption

LEMMA RingSteps ==
  ASSUME NEW s \in Slot
  PROVE  /\ NewerEle(s) = (IF s = MaxEle - 1 THEN 0 ELSE s + 1)
         /\ NewerEle(s) \in Slot /\ OlderEle(s) \in Slot
  BY RingIsThere DEF NewerEle, OlderEle, Slot

LEMMA AroundTheRing ==
  ASSUME NEW s \in Slot
  PROVE  s % MaxEle = s /\ (s + MaxEle) % MaxEle = s
  BY RingIsThere DEF Slot

LEMMA NthIs ==
  ASSUME head \in Slot, NEW i \in 0..MaxEle
  PROVE  /\ Nth(i) = (IF head + i < MaxEle THEN head + i ELSE head + i - MaxEle)
         /\ Nth(i) \in Slot
  BY RingIsThere DEF Nth, Slot

\* Remainders, which the provers know little of.
LEMMA Multiples ==
  ASSUME NEW a \in Nat, NEW b \in Nat, a < b
  PROVE  a * MaxEle + MaxEle <= b * MaxEle
<1>1. PICK k \in Nat : b = a + (1 + k)
  <2>1. b - a - 1 \in Nat /\ b = a + (1 + (b - a - 1))
    OBVIOUS
  <2>. QED  BY <2>1
<1>2. b * MaxEle = a * MaxEle + (MaxEle + k * MaxEle)
  BY <1>1, RingIsThere
<1>3. k * MaxEle \in Nat /\ a * MaxEle \in Nat
  BY <1>1, RingIsThere
<1>. QED  BY <1>2, <1>3, RingIsThere

LEMMA Remainder ==
  ASSUME NEW n \in Nat, NEW q \in Nat, NEW t \in 0..MaxEle - 1, n = q * MaxEle + t
  PROVE  n % MaxEle = t
<1>. DEFINE p == n \div MaxEle
            m == n % MaxEle
            x == p * MaxEle
            y == q * MaxEle
<1>1. p \in Nat /\ m \in 0..MaxEle - 1 /\ n = p * MaxEle + m
  BY RingIsThere
<1>2. x \in Nat /\ y \in Nat
  BY <1>1, RingIsThere
<1>3. p < q => x + MaxEle <= y
  BY <1>1, Multiples
<1>4. q < p => y + MaxEle <= x
  BY <1>1, Multiples
<1>5. n = x + m /\ n = y + t
  BY <1>1
<1>. HIDE DEF p, m, x, y
<1>6. p = q
  BY <1>1, <1>2, <1>3, <1>4, <1>5, RingIsThere
<1>7. x = y
  BY <1>6 DEF x, y
<1>8. m = t
  BY <1>1, <1>2, <1>5, <1>7, RingIsThere
<1>. QED  BY <1>8 DEF m

LEMMA NumbersGoOn ==
  ASSUME NEW n \in Nat
  PROVE  (n + 1) % MaxEle = IF n % MaxEle = MaxEle - 1 THEN 0 ELSE (n % MaxEle) + 1
<1>. DEFINE q == n \div MaxEle
            t == n % MaxEle
<1>1. q \in Nat /\ t \in 0..MaxEle - 1 /\ n = q * MaxEle + t
  BY RingIsThere
<1>. HIDE DEF q, t
<1>2. CASE t = MaxEle - 1
  <2>1. n + 1 = (q + 1) * MaxEle + 0 /\ q + 1 \in Nat /\ 0 \in 0..MaxEle - 1
    BY <1>1, <1>2, RingIsThere
  <2>. QED  BY <1>2, <2>1, Remainder DEF t
<1>3. CASE t # MaxEle - 1
  <2>1. n + 1 = q * MaxEle + (t + 1) /\ t + 1 \in 0..MaxEle - 1
    BY <1>1, <1>3, RingIsThere
  <2>. QED  BY <1>1, <1>3, <2>1, Remainder DEF t
<1>. QED  BY <1>2, <1>3

\* A set of numbers has a least one.
LEMMA NatIsWellFounded == IsWellFoundedOn({p \in Nat \X Nat : p[1] < p[2]}, Nat)
  BY NatLessThanWellFounded DEF OpToRel

\* Induction over the natural numbers, for the members of a set.
LEMMA AllNumbers ==
  ASSUME NEW S, 0 \in S, \A n \in Nat : n \in S => n + 1 \in S
  PROVE  Nat \subseteq S
<1>. DEFINE R == {p \in Nat \X Nat : p[1] < p[2]}
            T == Nat \ S
<1>. SUFFICES ASSUME T # {} PROVE FALSE
  OBVIOUS
<1>1. IsWellFoundedOn(R, Nat) /\ T \subseteq Nat
  BY NatIsWellFounded
<1>. HIDE DEF R
<1>2. PICK x \in T : \A y \in T : ~ (<<y, x>> \in R)
  BY <1>1, WFMin
<1>3. x \in Nat /\ x # 0 /\ x - 1 \in Nat /\ x - 1 < x
  BY <1>2
<1>4. x - 1 \notin T
  BY <1>2, <1>3 DEF R
<1>5. (x - 1) + 1 \in S
  BY <1>3, <1>4
<1>. QED  BY <1>2, <1>3, <1>5

LEMMA MinIn ==
  ASSUME NEW S, S \subseteq Nat, S # {}
  PROVE  Min(S) \in S
<1>. DEFINE R == {p \in Nat \X Nat : p[1] < p[2]}
<1>1. IsWellFoundedOn(R, Nat)
  BY NatIsWellFounded
<1>. HIDE DEF R
<1>2. PICK x \in S : \A y \in S : ~ (<<y, x>> \in R)
  BY <1>1, WFMin
<1>3. ASSUME NEW y \in S PROVE x <= y
  <2>1. x \in Nat /\ y \in Nat /\ ~ (<<y, x>> \in R)
    BY <1>2
  <2>2. ~ (y < x)
    BY <2>1 DEF R
  <2>. QED  BY <2>1, <2>2
<1>. QED  BY <1>3 DEF Min

LEMMA DropsIn ==
  ASSUME count \in Nat, NEW need
  PROVE  Drops(need) \in 0..count
<1>. DEFINE S == {k \in 0..count : EnoughFor(need, k)} \cup {count}
<1>1. S \subseteq Nat /\ S # {} /\ S \subseteq 0..count
  OBVIOUS
<1>2. Min(S) \in S
  BY <1>1, MinIn
<1>. QED  BY <1>1, <1>2 DEF Drops

--------------------------------------------------------------------------------
(* Sums.                                                                     *)

LEMMA TotalIs ==
  ASSUME NEW b \in [0..MaxEle - 1 -> Nat]
  PROVE  /\ Total(b, 0) = 0
         /\ \A k \in 0..MaxEle - 1 : Total(b, k + 1) = Total(b, k) + b[k]
         /\ \A k \in 0..MaxEle : Total(b, k) \in Nat
<1>. DEFINE Sum(g, n) == g = [i \in 0..n |-> IF i = 0 THEN 0 ELSE g[i - 1] + b[i - 1]]
            S == {n \in Nat : n <= MaxEle => \E g \in [0..n -> Nat] : Sum(g, n)}
            all == CHOOSE g : Sum(g, MaxEle)
<1>1. 0 \in S
  <2>1. Sum([i \in 0..0 |-> 0], 0) /\ [i \in 0..0 |-> 0] \in [0..0 -> Nat]
    OBVIOUS
  <2>. HIDE DEF Sum
  <2>. QED  BY <2>1
<1>2. ASSUME NEW n \in Nat, n \in S PROVE n + 1 \in S
  <2>. SUFFICES ASSUME n + 1 <= MaxEle
                PROVE  \E g \in [0..n + 1 -> Nat] : Sum(g, n + 1)
    OBVIOUS
  <2>1. PICK g \in [0..n -> Nat] : Sum(g, n)
    BY <1>2, RingIsThere
  <2>. DEFINE h == [i \in 0..n + 1 |-> IF i <= n THEN g[i] ELSE g[n] + b[n]]
  <2>2. h \in [0..n + 1 -> Nat]
    <3>1. b[n] \in Nat /\ g[n] \in Nat
      BY RingIsThere
    <3>. QED  BY <3>1
  <2>3. ASSUME NEW i \in 0..n + 1
        PROVE  h[i] = IF i = 0 THEN 0 ELSE h[i - 1] + b[i - 1]
    <3>1. CASE i <= n
      <4>1. i \in 0..n /\ g[i] = IF i = 0 THEN 0 ELSE g[i - 1] + b[i - 1]
        BY <2>1, <3>1
      <4>2. i # 0 => i - 1 \in 0..n + 1 /\ i - 1 <= n
        BY <3>1
      <4>. QED  BY <3>1, <4>1, <4>2
    <3>2. CASE ~ (i <= n)
      <4>1. i = n + 1 /\ i # 0 /\ i - 1 = n /\ n \in 0..n + 1
        BY <3>2
      <4>. QED  BY <4>1
    <3>. QED  BY <3>1, <3>2
  <2>. HIDE DEF h
  <2>4. h = [i \in 0..n + 1 |-> h[i]]
    BY <2>2
  <2>5. Sum(h, n + 1)
    BY <2>3, <2>4
  <2>. QED  BY <2>2, <2>5
<1>3. \E g \in [0..MaxEle -> Nat] : Sum(g, MaxEle)
  <2>1. Nat \subseteq S
    <3>. HIDE DEF S
    <3>. QED  BY <1>1, <1>2, AllNumbers
  <2>2. MaxEle \in S /\ MaxEle <= MaxEle
    <3>. HIDE DEF S
    <3>. QED  BY <2>1, RingIsThere
  <2>. HIDE DEF Sum
  <2>. QED  BY <2>2
<1>4. Sum(all, MaxEle)
  <2>. HIDE DEF Sum
  <2>. QED  BY <1>3
<1>5. \A k : Total(b, k) = all[k]
  BY DEF Total
<1>. HIDE DEF all
<1>6. \A k \in 0..MaxEle : all[k] = IF k = 0 THEN 0 ELSE all[k - 1] + b[k - 1]
  BY <1>4
<1>7. all[0] = 0 /\ \A k \in 0..MaxEle - 1 : all[k + 1] = all[k] + b[k]
  <2>1. all[0] = 0
    BY <1>6, RingIsThere
  <2>2. ASSUME NEW k \in 0..MaxEle - 1 PROVE all[k + 1] = all[k] + b[k]
    <3>1. k + 1 \in 0..MaxEle /\ k + 1 # 0 /\ (k + 1) - 1 = k
      BY RingIsThere
    <3>. QED  BY <3>1, <1>6
  <2>. QED  BY <2>1, <2>2
<1>8. \A k \in 0..MaxEle : all[k] \in Nat
  <2>. DEFINE Q == {k \in Nat : k <= MaxEle => all[k] \in Nat}
  <2>1. 0 \in Q
    BY <1>7
  <2>2. ASSUME NEW n \in Nat, n \in Q PROVE n + 1 \in Q
    <3>1. CASE n + 1 <= MaxEle
      <4>1. n \in 0..MaxEle - 1 /\ b[n] \in Nat /\ all[n] \in Nat
        BY <2>2, <3>1, RingIsThere
      <4>. QED  BY <1>7, <4>1
    <3>. QED  BY <3>1
  <2>3. Nat \subseteq Q
    <3>. HIDE DEF Q
    <3>. QED  BY <2>1, <2>2, AllNumbers
  <2>. QED  BY <2>3, RingIsThere
<1>. QED  BY <1>5, <1>7, <1>8

\* Sums do not fall.
LEMMA TotalRises ==
  ASSUME NEW b \in [0..MaxEle - 1 -> Nat], NEW j \in 0..MaxEle, NEW k \in 0..MaxEle, j <= k
  PROVE  Total(b, j) <= Total(b, k)
<1>. DEFINE S == {n \in Nat : j + n <= MaxEle => Total(b, j) <= Total(b, j + n)}
<1>1. 0 \in S
  BY TotalIs
<1>2. ASSUME NEW n \in Nat, n \in S PROVE n + 1 \in S
  <2>. SUFFICES ASSUME j + (n + 1) <= MaxEle
                PROVE  Total(b, j) <= Total(b, j + (n + 1))
    OBVIOUS
  <2>1. j + n \in 0..MaxEle - 1 /\ j + (n + 1) = (j + n) + 1
    BY RingIsThere
  <2>2. /\ Total(b, (j + n) + 1) = Total(b, j + n) + b[j + n]
        /\ Total(b, j) \in Nat /\ Total(b, j + n) \in Nat /\ b[j + n] \in Nat
    <3>1. Total(b, (j + n) + 1) = Total(b, j + n) + b[j + n]
      BY <2>1, TotalIs
    <3>2. Total(b, j) \in Nat /\ Total(b, j + n) \in Nat
      <4>1. j + n \in 0..MaxEle
        BY <2>1, RingIsThere
      <4>. QED  BY <4>1, TotalIs
    <3>3. b[j + n] \in Nat
      BY <2>1
    <3>. QED  BY <3>1, <3>2, <3>3
  <2>3. Total(b, j) <= Total(b, j + n)
    BY <1>2, <2>1, RingIsThere
  <2>. QED  BY <2>1, <2>2, <2>3
<1>3. Nat \subseteq S
  <2>. HIDE DEF S
  <2>. QED  BY <1>1, <1>2, AllNumbers
<1>4. k - j \in Nat /\ j + (k - j) = k
  BY RingIsThere
<1>5. k - j \in S
  BY <1>3, <1>4
<1>. QED  BY <1>4, <1>5, RingIsThere

\* The sum of the sizes from the k-th on.
LEMMA TotalMoves ==
  ASSUME NEW b \in [0..MaxEle - 1 -> Nat], NEW c \in [0..MaxEle - 1 -> Nat],
         NEW k \in Nat, NEW n \in Nat, k + n <= MaxEle,
         \A i \in 0..n - 1 : c[i] = b[k + i], NEW i \in 0..n
  PROVE  Total(b, k + i) = Total(b, k) + Total(c, i)
<1>. DEFINE S == {m \in Nat : m <= n => Total(b, k + m) = Total(b, k) + Total(c, m)}
<1>1. 0 \in S
  <2>1. k \in 0..MaxEle /\ k + 0 = k
    BY RingIsThere
  <2>2. Total(c, 0) = 0 /\ Total(b, k) \in Nat
    BY <2>1, TotalIs
  <2>. QED  BY <2>1, <2>2
<1>2. ASSUME NEW m \in Nat, m \in S PROVE m + 1 \in S
  <2>. SUFFICES ASSUME m + 1 <= n
                PROVE  Total(b, k + (m + 1)) = Total(b, k) + Total(c, m + 1)
    OBVIOUS
  <2>1. /\ k + m \in 0..MaxEle - 1 /\ m \in 0..MaxEle - 1 /\ m \in 0..n - 1
        /\ k \in 0..MaxEle /\ m \in 0..MaxEle /\ k + (m + 1) = (k + m) + 1
    BY RingIsThere
  <2>2. Total(b, k + m) = Total(b, k) + Total(c, m) /\ c[m] = b[k + m]
    BY <1>2, <2>1
  <2>3. /\ Total(b, (k + m) + 1) = Total(b, k + m) + b[k + m]
        /\ Total(c, m + 1) = Total(c, m) + c[m]
        /\ c[m] \in Nat
    BY <2>1, TotalIs
  <2>4. Total(b, k) \in Nat /\ Total(c, m) \in Nat
    BY <2>1, TotalIs
  <2>. QED  BY <2>2, <2>3, <2>4, <2>1
<1>3. Nat \subseteq S
  <2>. HIDE DEF S
  <2>. QED  BY <1>1, <1>2, AllNumbers
<1>. QED  BY <1>3

--------------------------------------------------------------------------------
(* Types, but for the free blocks, which only their accounting bounds.       *)

RingTypes ==
  /\ eles \in [Slot -> [num : Nat, blocks : Nat, bblock : Block]]
  /\ head \in Slot /\ tail \in Slot /\ fbstart \in Block /\ num \in Nat
  /\ count \in 0..MaxEle - 1
  /\ count = IF head <= tail THEN tail - head ELSE tail + MaxEle - head
UserTypes ==
  /\ valid \in [User -> BOOLEAN] /\ curele \in [User -> Slot \cup {BeforeRing}]
  /\ sem \in [User -> 0..SemMax] /\ upid \in [User -> Readers \cup {NoUser}]
  /\ lastUser \in User \cup {NoUser}
ReaderTypes ==
  /\ uno \in [Readers -> User \cup {NoUser}] /\ pc \in [Readers -> Step]
  /\ cur \in [Readers -> Slot \cup {BeforeRing}] /\ got \in [Readers -> Nat]
  /\ steady \in [Readers -> BOOLEAN] /\ used \in [Readers -> SUBSET Calls]
  /\ \A r \in Readers : pc[r] # "out" <=> uno[r] # NoUser
Types == RingTypes /\ UserTypes /\ ReaderTypes

LEMMA TypesInit == Init => Types
<1>. SUFFICES ASSUME Init PROVE Types
  OBVIOUS
<1>1. 0 \in Slot /\ 0 \in Block /\ 0 \in 0..SemMax
  BY RingAssumption, BlocksAssumption DEF Slot, Block
<1>2. RingTypes
  BY <1>1, RingIsThere DEF Init, RingTypes, NoElement, Slot
<1>3. UserTypes
  BY <1>1 DEF Init, UserTypes
<1>4. ReaderTypes
  BY <1>1 DEF Init, ReaderTypes, Step
<1>. QED  BY <1>2, <1>3, <1>4 DEF Types

\* The elements an add drops.
Gone(need) == IF NewerEle(tail) = Nth(Drops(need)) THEN Drops(need) + 1 ELSE Drops(need)

LEMMA WithoutIs ==
  ASSUME RingTypes, NEW k
  PROVE  /\ Without(k) \in [Slot -> [num : Nat, blocks : Nat, bblock : Block]]
         /\ \A s \in Slot : Without(k)[s].num = eles[s].num
  BY DEF RingTypes, Without

LEMMA AddFailsIs ==
  ASSUME RingTypes, NEW need \in Needs, AddFails(need)
  PROVE  RingTypes' /\ head' = tail /\ tail' = tail /\ num' = num
         /\ \A s \in Slot : eles'[s].num = eles[s].num
<1>1. head' = tail
  <2>1. /\ head \in 0..MaxEle - 1 /\ tail \in 0..MaxEle - 1 /\ head' = Nth(count)
        /\ count \in 0..MaxEle - 1
        /\ count = IF head <= tail THEN tail - head ELSE tail + MaxEle - head
    BY DEF AddFails, RingTypes, Slot
  <2>2. Nth(count) = IF head + count < MaxEle THEN head + count ELSE head + count - MaxEle
    BY <2>1, NthIs, RingIsThere DEF Slot
  <2>. QED  BY <2>1, <2>2, RingIsThere
<1>2. /\ eles' = Without(count) /\ count' = 0
      /\ UNCHANGED <<tail, fbstart, num>>
  BY DEF AddFails
<1>3. eles' \in [Slot -> [num : Nat, blocks : Nat, bblock : Block]]
  BY <1>2, WithoutIs
<1>4. count' \in 0..MaxEle - 1 /\ count' = tail' - head' /\ head' <= tail'
  BY <1>1, <1>2, RingIsThere DEF RingTypes, Slot
<1>5. RingTypes'
  BY <1>1, <1>2, <1>3, <1>4 DEF RingTypes
<1>. QED  BY <1>1, <1>2, <1>5, WithoutIs

LEMMA GoneIs ==
  ASSUME RingTypes, NEW need
  PROVE  /\ Drops(need) \in 0..count /\ Gone(need) \in 0..count
         /\ Drops(need) <= Gone(need) /\ Gone(need) <= MaxEle
         /\ count + 1 - Gone(need) \in 0..MaxEle - 1
<1>1. Drops(need) \in 0..count
  BY DropsIn DEF RingTypes
<1>2. Drops(need) \in 0..MaxEle
  BY <1>1, RingIsThere DEF RingTypes
<1>3. /\ NewerEle(tail) = (IF tail = MaxEle - 1 THEN 0 ELSE tail + 1)
      /\ Nth(Drops(need)) = (IF head + Drops(need) < MaxEle THEN head + Drops(need)
                             ELSE head + Drops(need) - MaxEle)
  BY <1>2, NthIs, RingSteps DEF RingTypes
<1>4. NewerEle(tail) = Nth(Drops(need)) <=> count = MaxEle - 1 /\ Drops(need) = 0
  <2>1. \A h, t, d \in Nat, c \in 0..MaxEle - 1 :
          /\ h < MaxEle /\ t < MaxEle /\ d <= c
          /\ c = IF h <= t THEN t - h ELSE t + MaxEle - h
          => ((IF t = MaxEle - 1 THEN 0 ELSE t + 1)
                = (IF h + d < MaxEle THEN h + d ELSE h + d - MaxEle)
                <=> c = MaxEle - 1 /\ d = 0)
    BY RingIsThere
  <2>2. /\ head \in Nat /\ tail \in Nat /\ Drops(need) \in Nat /\ count \in 0..MaxEle - 1
        /\ head < MaxEle /\ tail < MaxEle /\ Drops(need) <= count
        /\ count = IF head <= tail THEN tail - head ELSE tail + MaxEle - head
    BY <1>1, RingIsThere DEF RingTypes, Slot
  <2>. QED  BY <1>3, <2>1, <2>2
<1>5. Gone(need) = IF count = MaxEle - 1 /\ Drops(need) = 0 THEN Drops(need) + 1
                                                           ELSE Drops(need)
  BY <1>4 DEF Gone
<1>6. count \in 0..MaxEle - 1 /\ MaxEle > 2
  BY RingIsThere DEF RingTypes
<1>. QED  BY <1>1, <1>5, <1>6, RingIsThere

LEMMA AddFitsIs ==
  ASSUME RingTypes, NEW need \in Needs, AddFits(need)
  PROVE  /\ RingTypes' /\ tail' = NewerEle(tail) /\ num' = num + 1
         /\ \A s \in Slot : eles'[s].num = IF s = tail THEN num + 1 ELSE eles[s].num
<1>. DEFINE k == Gone(need)
<1>1. /\ num' = num + 1 /\ tail' = NewerEle(tail) /\ head' = Nth(k) /\ count' = count + 1 - k
      /\ eles' = [Without(k) EXCEPT ![tail] =
                    [num |-> num + 1, blocks |-> need, bblock |-> fbstart]]
      /\ fbstart' = (fbstart + need) % TBlocks
  BY DEF AddFits, Gone
<1>2. k \in 0..MaxEle /\ count + 1 - k \in 0..MaxEle - 1
  BY GoneIs DEF RingTypes
<1>3. need \in Nat /\ fbstart' \in Block
  BY <1>1, BlocksAssumption DEF RingTypes, Block
<1>. HIDE DEF k
<1>4. head' \in Slot /\ tail' \in Slot
  BY <1>1, <1>2, NthIs, RingSteps DEF RingTypes
<1>5. count' = IF head' <= tail' THEN tail' - head' ELSE tail' + MaxEle - head'
  <2>1. /\ tail' = (IF tail = MaxEle - 1 THEN 0 ELSE tail + 1)
        /\ head' = (IF head + k < MaxEle THEN head + k ELSE head + k - MaxEle)
    BY <1>1, <1>2, NthIs, RingSteps DEF RingTypes
  <2>. QED  BY <1>1, <1>2, <2>1, RingIsThere DEF RingTypes, Slot
<1>6. /\ eles' \in [Slot -> [num : Nat, blocks : Nat, bblock : Block]]
      /\ \A s \in Slot : eles'[s].num = IF s = tail THEN num + 1 ELSE eles[s].num
  BY <1>1, <1>3, WithoutIs DEF RingTypes
<1>. QED  BY <1>1, <1>2, <1>3, <1>4, <1>5, <1>6 DEF RingTypes

LEMMA CreateIs ==
  ASSUME Create
  PROVE  RingTypes' /\ head' = 0 /\ tail' = 0 /\ num' = 0 /\ \A s \in Slot : eles'[s].num = 0
<1>1. 0 \in Slot /\ 0 \in Block
  BY RingIsThere, BlocksAssumption DEF Slot, Block
<1>. QED  BY <1>1, RingIsThere DEF Create, RingTypes, NoElement

\* What a read changes: its reader's variables, its user's place and semaphore,
\* and that never upwards.
Reading(r) ==
  /\ UNCHANGED <<ringVars, valid, upid, lastUser, uno>> /\ uno[r] \in User
  /\ \E n \in 0..sem[uno[r]] : sem' = [sem EXCEPT ![uno[r]] = n]
  /\ \E s \in Slot \cup {BeforeRing} : curele' = [curele EXCEPT ![uno[r]] = s]
  /\ \E p \in Step \ {"out"} : pc' = [pc EXCEPT ![r] = p]
  /\ \E s \in Slot \cup {BeforeRing} : cur' = [cur EXCEPT ![r] = s]
  /\ \E n \in Nat : got' = [got EXCEPT ![r] = n]
  /\ \E b \in BOOLEAN : steady' = [steady EXCEPT ![r] = b] /\ (b => steady[r])
  /\ \E c \in SUBSET Calls : used' = [used EXCEPT ![r] = c]

LEMMA NoChange ==
  ASSUME NEW S, NEW T, NEW f \in [S -> T], NEW x \in S
  PROVE  f = [f EXCEPT ![x] = f[x]] /\ f[x] \in T
  OBVIOUS

LEMMA ReadReads ==
  ASSUME Types, NEW r \in Readers, Read(r)
  PROVE  Reading(r)
<1>1. uno[r] \in User
  <2>1. pc[r] # "out"
    BY DEF Read, ResourceSem, ResourceTake, Packet, PacketCall, PacketSem, PacketZero, PacketPeek,
           PacketRewind, PacketDrop, PacketLoop, PacketTake, Goes
  <2>. QED  BY <2>1 DEF Types, ReaderTypes
<1>. DEFINE u == uno[r]
<1>2. /\ curele = [curele EXCEPT ![u] = curele[u]] /\ curele[u] \in Slot \cup {BeforeRing}
      /\ cur = [cur EXCEPT ![r] = cur[r]] /\ cur[r] \in Slot \cup {BeforeRing}
      /\ got = [got EXCEPT ![r] = got[r]] /\ got[r] \in Nat
      /\ steady = [steady EXCEPT ![r] = steady[r]] /\ steady[r] \in BOOLEAN
      /\ used = [used EXCEPT ![r] = used[r]] /\ used[r] \in SUBSET Calls
      /\ sem = [sem EXCEPT ![u] = sem[u]] /\ sem[u] \in 0..SemMax
  BY <1>1, NoChange DEF Types, UserTypes, ReaderTypes
<1>3. sem[u] \in 0..sem[u] /\ 0 \in 0..sem[u] /\ (sem[u] > 0 => sem[u] - 1 \in 0..sem[u])
  BY <1>2, RingAssumption
<1>4. tail - 1 \in Slot \cup {BeforeRing} /\ 0 \in Slot
  BY RingIsThere DEF Types, RingTypes, Slot, BeforeRing
<1>. HIDE DEF u
<1>5. ASSUME NEW s \in Slot \cup {BeforeRing}, NEW p \in Slot \cup {BeforeRing}, Take(r, s, p)
      PROVE  /\ \E t \in Slot \cup {BeforeRing} : curele' = [curele EXCEPT ![u] = t]
             /\ pc' = [pc EXCEPT ![r] = "idle"]
             /\ cur' = [cur EXCEPT ![r] = 0]
             /\ \E n \in Nat : got' = [got EXCEPT ![r] = n]
             /\ \E b \in BOOLEAN : steady' = [steady EXCEPT ![r] = b] /\ (b => steady[r])
  <2>1. CASE /\ s \in Slot /\ curele' = [curele EXCEPT ![u] = NewerEle(s)]
             /\ got' = [got EXCEPT ![r] = eles[s].num] /\ steady' = steady
    <3>1. eles[s].num \in Nat /\ NewerEle(s) \in Slot
      BY <2>1, RingSteps DEF Types, RingTypes
    <3>. QED  BY <1>2, <1>5, <2>1, <3>1 DEF Take
  <2>2. CASE /\ curele' = [curele EXCEPT ![u] = p] /\ got' = got
             /\ steady' = [steady EXCEPT ![r] = FALSE]
    BY <1>2, <1>5, <2>2 DEF Take
  <2>3. CASE /\ \E t \in {p, 0} : curele' = [curele EXCEPT ![u] = t]
             /\ got' = got /\ steady' = [steady EXCEPT ![r] = FALSE]
    BY <1>2, <1>4, <1>5, <2>3 DEF Take
  <2>. QED  BY <1>5, <2>1, <2>2, <2>3 DEF Take, u
<1>6. ASSUME PacketTest(r)
      PROVE  /\ \E p \in Step \ {"out"} : pc' = [pc EXCEPT ![r] = p]
             /\ \E s \in Slot \cup {BeforeRing} : cur' = [cur EXCEPT ![r] = s]
  BY <1>2, <1>6 DEF PacketTest, Step, u
<1>7. CASE ResourceSem(r)
  BY <1>1, <1>2, <1>3, <1>7 DEF ResourceSem, Reading, Step, u
<1>8. CASE ResourceTake(r)
  <2>1. PICK s \in Slot \cup {BeforeRing} : Take(r, s, s)
    BY <1>2, <1>4, <1>8 DEF ResourceTake, Finds, Rewound, u
  <2>2. \E n \in 0..sem[u] : sem' = [sem EXCEPT ![u] = n]
    BY <1>2, <1>3, <1>8 DEF ResourceTake, u
  <2>3. UNCHANGED <<ringVars, valid, upid, lastUser, uno, used>>
    BY <1>8 DEF ResourceTake
  <2>4. /\ \E t \in Slot \cup {BeforeRing} : curele' = [curele EXCEPT ![u] = t]
        /\ \E p \in Step \ {"out"} : pc' = [pc EXCEPT ![r] = p]
        /\ \E t \in Slot \cup {BeforeRing} : cur' = [cur EXCEPT ![r] = t]
        /\ \E n \in Nat : got' = [got EXCEPT ![r] = n]
        /\ \E b \in BOOLEAN : steady' = [steady EXCEPT ![r] = b] /\ (b => steady[r])
    BY <1>4, <1>5, <2>1 DEF Step
  <2>5. \E c \in SUBSET Calls : used' = [used EXCEPT ![r] = c]
    BY <1>2, <2>3
  <2>. QED  BY <1>1, <2>2, <2>3, <2>4, <2>5 DEF Reading, u
<1>9. CASE PacketCall(r)
  <2>1. "GetPacket" \in Calls /\ used[r] \cup {"GetPacket"} \in SUBSET Calls
    BY <1>2, <1>9 DEF PacketCall
  <2>. QED  BY <1>1, <1>2, <1>3, <1>6, <1>9, <2>1 DEF PacketCall, Reading, userVars, u
<1>10. CASE PacketSem(r)
  BY <1>1, <1>2, <1>3, <1>10 DEF PacketSem, Goes, Reading, Step, u
<1>11. CASE PacketZero(r)
  BY <1>1, <1>2, <1>3, <1>11 DEF PacketZero, Goes, Reading, Step, u
<1>12. CASE PacketPeek(r)
  <2>1. \E p \in Step \ {"out"} : pc' = [pc EXCEPT ![r] = p]
    BY <1>12 DEF PacketPeek, Goes, Step
  <2>. QED  BY <1>1, <1>2, <1>3, <1>12, <2>1 DEF PacketPeek, Reading, userVars, u
<1>13. CASE PacketRewind(r)
  BY <1>1, <1>2, <1>3, <1>4, <1>13 DEF PacketRewind, Goes, Rewound, Reading, Step, u
<1>14. CASE PacketDrop(r)
  BY <1>1, <1>2, <1>3, <1>14 DEF PacketDrop, Goes, Reading, Step, u
<1>16. CASE PacketLoop(r)
  BY <1>1, <1>2, <1>3, <1>6, <1>16 DEF PacketLoop, Reading, userVars, u
<1>15. CASE PacketTake(r)
  <2>1. /\ \E t \in Slot \cup {BeforeRing} : curele' = [curele EXCEPT ![u] = t]
        /\ \E p \in Step \ {"out"} : pc' = [pc EXCEPT ![r] = p]
        /\ \E t \in Slot \cup {BeforeRing} : cur' = [cur EXCEPT ![r] = t]
        /\ \E n \in Nat : got' = [got EXCEPT ![r] = n]
        /\ \E b \in BOOLEAN : steady' = [steady EXCEPT ![r] = b] /\ (b => steady[r])
    <3>1. Take(r, cur[r], curele[u])
      BY <1>15 DEF PacketTake, u
    <3>. QED  BY <1>2, <1>4, <1>5, <3>1 DEF Step
  <2>2. /\ UNCHANGED <<ringVars, valid, upid, lastUser, uno>>
        /\ \E n \in 0..sem[u] : sem' = [sem EXCEPT ![u] = n]
        /\ \E c \in SUBSET Calls : used' = [used EXCEPT ![r] = c]
    BY <1>2, <1>3, <1>15 DEF PacketTake
  <2>. QED  BY <1>1, <2>1, <2>2 DEF Reading, u
<1>. QED  BY <1>7, <1>8, <1>9, <1>10, <1>11, <1>12, <1>13, <1>14, <1>15, <1>16 DEF Read, Packet

\* Every other step of a reader leaves the ring as it is.
Else(r) ==
  \/ \E u \in User : Req(r, u)
  \/ ReqFree(r) \/ Crash(r) \/ DelUsrByPid(r) \/ ReActiveUsr(r) \/ MvUsrPlace(r)

LEMMA NextIs ==
  ASSUME Next
  PROVE  \/ \E need \in Needs : AddFails(need) \/ AddFits(need)
         \/ Create \/ \E r \in Readers : Else(r) \/ Read(r)
  BY DEF Next, AddResource, Else

LEMMA ReqTypes ==
  ASSUME Types, NEW r \in Readers, NEW u \in User, Req(r, u)
  PROVE  Types'
<1>1. 0 \in Slot /\ 0 \in 0..SemMax /\ RingTypes'
  BY RingIsThere, RingAssumption DEF Req, ringVars, Types, RingTypes, Slot
<1>2. UserTypes'
  BY <1>1 DEF Req, Types, RingTypes, UserTypes
<1>3. u # NoUser
  BY DEF User, NoUser
<1>4. ReaderTypes'
  BY <1>1, <1>3 DEF Req, Types, ReaderTypes, Step
<1>. QED  BY <1>1, <1>2, <1>4 DEF Types

LEMMA LeaveTypes ==
  ASSUME Types, NEW r \in Readers, Leave(r), Disturb(uno[r]), valid' \in [User -> BOOLEAN]
  PROVE  Types'
<1>1. 0 \in Slot /\ RingTypes'
  BY RingIsThere DEF Leave, ringVars, Types, RingTypes, Slot
<1>2. UserTypes'
  BY DEF Leave, Types, UserTypes
<1>3. ReaderTypes'
  BY <1>1 DEF Leave, Disturb, Types, ReaderTypes, Step
<1>. QED  BY <1>1, <1>2, <1>3 DEF Types

LEMMA ReadingTypes ==
  ASSUME Types, NEW r \in Readers, Reading(r)
  PROVE  Types'
<1>1. RingTypes'
  BY DEF Reading, ringVars, Types, RingTypes
<1>2. UserTypes'
  <2>1. sem' \in [User -> 0..SemMax]
    BY RingAssumption DEF Reading, Types, UserTypes
  <2>2. curele' \in [User -> Slot \cup {BeforeRing}]
    BY DEF Reading, Types, UserTypes
  <2>. QED  BY <2>1, <2>2 DEF Reading, Types, UserTypes
<1>3. ReaderTypes'
  <2>1. pc' \in [Readers -> Step] /\ \A q \in Readers : pc'[q] = "out" <=> pc[q] = "out"
    <3>1. uno[r] # NoUser
      BY DEF Reading, User, NoUser
    <3>. QED  BY <3>1 DEF Reading, Types, ReaderTypes
  <2>2. cur' \in [Readers -> Slot \cup {BeforeRing}] /\ got' \in [Readers -> Nat]
    BY DEF Reading, Types, ReaderTypes
  <2>3. steady' \in [Readers -> BOOLEAN] /\ used' \in [Readers -> SUBSET Calls]
    BY DEF Reading, Types, ReaderTypes
  <2>. QED  BY <2>1, <2>2, <2>3 DEF Reading, Types, ReaderTypes
<1>. QED  BY <1>1, <1>2, <1>3 DEF Types

LEMMA TypesNext == Types /\ [Next]_vars => Types'
<1>. SUFFICES ASSUME Types, [Next]_vars PROVE Types'
  OBVIOUS
<1>1. ASSUME NEW need \in Needs, AddFails(need) PROVE Types'
  <2>1. RingTypes'
    BY <1>1, AddFailsIs DEF Types
  <2>. QED  BY <1>1, <2>1 DEF AddFails, Types, UserTypes, ReaderTypes, userVars, readerVars
<1>2. ASSUME NEW need \in Needs, AddFits(need) PROVE Types'
  <2>1. RingTypes'
    BY <1>2, AddFitsIs DEF Types
  <2>2. /\ UNCHANGED <<curele, upid, lastUser, uno, pc, cur, got, used>> /\ SemAddAll
    BY <1>2 DEF AddFits
  <2>3. \A u \in User : Posted(u) \in 0..SemMax
    BY RingAssumption DEF Posted, Types, UserTypes
  <2>4. /\ sem' \in [User -> 0..SemMax] /\ valid' \in [User -> BOOLEAN]
        /\ steady' \in [Readers -> BOOLEAN]
    BY <2>2, <2>3 DEF SemAddAll, Types, UserTypes, ReaderTypes
  <2>. QED  BY <2>1, <2>2, <2>4 DEF Types, UserTypes, ReaderTypes
<1>3. CASE Create
  <2>1. RingTypes' /\ 0 \in 0..SemMax
    BY <1>3, CreateIs, RingAssumption
  <2>. QED  BY <1>3, <2>1 DEF Create, Types, UserTypes, ReaderTypes
<1>4. ASSUME NEW r \in Readers, Else(r) PROVE Types'
  <2>1. CASE ReqFree(r) \/ Crash(r)
    BY <2>1, LeaveTypes DEF ReqFree, Crash, Types, UserTypes
  <2>2. CASE DelUsrByPid(r)
    BY <2>2 DEF DelUsrByPid, Disturb, ringVars, Types, RingTypes, UserTypes, ReaderTypes
  <2>3. CASE ReActiveUsr(r)
    BY <2>3 DEF ReActiveUsr, ringVars, readerVars, Types, RingTypes, UserTypes, ReaderTypes
  <2>4. CASE MvUsrPlace(r)
    <3>1. curele' \in [User -> Slot \cup {BeforeRing}]
      <4>1. PICK s \in {OlderEle(curele[uno[r]]), NewerEle(curele[uno[r]])} :
              curele' = [curele EXCEPT ![uno[r]] = s]
        BY <2>4 DEF MvUsrPlace
      <4>2. s \in Slot
        BY <2>4, <4>1, RingSteps DEF MvUsrPlace
      <4>. QED  BY <4>1, <4>2 DEF Types, UserTypes
    <3>. QED  BY <2>4, <3>1
              DEF MvUsrPlace, Disturb, ringVars, Types, RingTypes, UserTypes, ReaderTypes
  <2>. QED  BY <1>4, <2>1, <2>2, <2>3, <2>4, ReqTypes DEF Else
<1>5. ASSUME NEW r \in Readers, Read(r) PROVE Types'
  BY <1>5, ReadReads, ReadingTypes
<1>6. CASE UNCHANGED vars
  BY <1>6 DEF vars, ringVars, userVars, readerVars, Types, RingTypes, UserTypes, ReaderTypes
<1>. QED  BY <1>1, <1>2, <1>3, <1>4, <1>5, <1>6, NextIs

--------------------------------------------------------------------------------
(* User numbers.                                                             *)

\* A steady reader's user is in use, has few frames waiting, and is nobody else's.
Mine(r) ==
  steady[r] => /\ uno[r] \in User /\ valid[uno[r]] /\ sem[uno[r]] <= MaxSem
               /\ \A q \in Readers \ {r} : uno[q] # uno[r]
AllMine == \A r \in Readers : Mine(r)

LEMMA MineNext == Types /\ AllMine /\ [Next]_vars => AllMine'
<1>. SUFFICES ASSUME Types, AllMine, [Next]_vars PROVE AllMine'
  OBVIOUS
<1>1. ASSUME NEW need \in Needs, AddFails(need) PROVE AllMine'
  BY <1>1 DEF AddFails, userVars, readerVars, AllMine, Mine
<1>2. ASSUME NEW need \in Needs, AddFits(need) PROVE AllMine'
  <2>1. uno' = uno /\ SemAddAll
    BY <1>2 DEF AddFits
  <2>2. ASSUME NEW r \in Readers, steady'[r] PROVE Mine(r)'
    <3>1. steady[r] /\ ~ Strike(uno[r])
      BY <2>1, <2>2 DEF SemAddAll
    <3>2. valid[uno[r]] /\ uno[r] \in User /\ Posted(uno[r]) \in 0..SemMax
      BY <3>1, RingAssumption DEF AllMine, Mine, Posted, Types, UserTypes
    <3>3. valid'[uno[r]] /\ sem'[uno[r]] = Posted(uno[r])
      BY <2>1, <3>1, <3>2 DEF SemAddAll
    <3>4. Posted(uno[r]) <= MaxSem
      BY <3>1, <3>2, RingAssumption DEF Strike
    <3>. QED  BY <2>1, <3>1, <3>2, <3>3, <3>4 DEF AllMine, Mine
  <2>. QED  BY <2>2 DEF AllMine, Mine
<1>3. CASE Create
  BY <1>3 DEF Create, AllMine, Mine
<1>4. ASSUME NEW r \in Readers, NEW u \in User, Req(r, u) PROVE AllMine'
  <2>1. \A q \in Readers : steady[q] => uno[q] # u
    BY <1>4 DEF Req, NextUser, FreeUsers, AllMine, Mine
  <2>2. 0 <= MaxSem /\ u # NoUser
    BY RingAssumption DEF User, NoUser
  <2>. QED  BY <1>4, <2>1, <2>2 DEF Req, AllMine, Mine, Types, UserTypes, ReaderTypes
<1>5. ASSUME NEW r \in Readers, Leave(r), Disturb(uno[r]),
             valid' = valid \/ valid' = [valid EXCEPT ![uno[r]] = FALSE]
      PROVE  AllMine'
  <2>1. NoUser \notin User
    BY DEF User, NoUser
  <2>. QED  BY <1>5, <2>1 DEF Leave, Disturb, AllMine, Mine, Types, UserTypes, ReaderTypes
<1>6. ASSUME NEW r \in Readers, DelUsrByPid(r) \/ MvUsrPlace(r) \/ ReActiveUsr(r) PROVE AllMine'
  BY <1>6 DEF DelUsrByPid, MvUsrPlace, ReActiveUsr, Disturb, readerVars, AllMine, Mine,
              Types, UserTypes, ReaderTypes
<1>7. ASSUME NEW r \in Readers, Reading(r) PROVE AllMine'
  <2>1. \A v \in User : sem'[v] <= sem[v]
    BY <1>7, RingAssumption DEF Reading, Types, UserTypes
  <2>2. \A q \in Readers : steady'[q] => steady[q]
    BY <1>7 DEF Reading, Types, ReaderTypes
  <2>3. sem' \in [User -> 0..SemMax]
    BY <1>7, ReadingTypes DEF Types, UserTypes
  <2>. QED  BY <1>7, <2>1, <2>2, <2>3, RingAssumption DEF Reading, AllMine, Mine, Types, UserTypes
<1>8. CASE UNCHANGED vars
  BY <1>8 DEF vars, userVars, readerVars, AllMine, Mine
<1>. QED  BY <1>1, <1>2, <1>3, <1>4, <1>5, <1>6, <1>7, <1>8, NextIs, ReadReads
          DEF Else, ReqFree, Crash

LEMMA PoolInvariant == Spec => [](Types /\ AllMine)
<1>1. Init => AllMine
  BY DEF Init, AllMine, Mine
<1>. QED  BY <1>1, TypesInit, TypesNext, MineNext, PTL DEF Spec

--------------------------------------------------------------------------------
(* Numbers of elements.                                                      *)

\* The numbers of the elements, from how far they are behind the tail.
Numbered == \A s \in Slot : eles[s].num = IF Back(s) <= num THEN num - Back(s) + 1 ELSE 0

LEMMA NumberedInit == Init => Numbered
  BY RingIsThere DEF Init, NoElement, Numbered, Back, Slot

LEMMA NumberedNext == Types /\ Numbered /\ [Next]_vars => Numbered'
<1>. SUFFICES ASSUME Types, Numbered, [Next]_vars PROVE Numbered'
  OBVIOUS
<1>1. ASSUME UNCHANGED ringVars PROVE Numbered'
  BY <1>1 DEF ringVars, Numbered, Back
<1>2. ASSUME NEW need \in Needs, AddFails(need) PROVE Numbered'
  BY <1>2, AddFailsIs DEF Types, Numbered, Back
<1>3. ASSUME NEW need \in Needs, AddFits(need) PROVE Numbered'
  <2>. SUFFICES ASSUME NEW s \in Slot
                PROVE  eles'[s].num = IF Back(s)' <= num' THEN num' - Back(s)' + 1 ELSE 0
    BY DEF Numbered
  <2>1. /\ num' = num + 1 /\ tail' = (IF tail = MaxEle - 1 THEN 0 ELSE tail + 1)
        /\ eles'[s].num = IF s = tail THEN num + 1 ELSE eles[s].num
    BY <1>3, AddFitsIs, RingSteps DEF Types, RingTypes
  <2>2. s \in Int /\ 0 <= s /\ s < MaxEle /\ tail \in Int /\ 0 <= tail /\ tail < MaxEle
        /\ num \in Nat
    BY RingIsThere DEF Types, RingTypes, Slot
  <2>3. Back(s)' = IF s = tail THEN 1 ELSE Back(s) + 1
    BY <2>1, <2>2, RingIsThere DEF Back
  <2>4. eles[s].num = IF Back(s) <= num THEN num - Back(s) + 1 ELSE 0
    BY DEF Numbered
  <2>5. Back(s) \in Nat
    BY <2>2, RingIsThere DEF Back
  <2>. QED  BY <2>1, <2>2, <2>3, <2>4, <2>5
<1>4. CASE Create
  BY <1>4, CreateIs, RingIsThere DEF Numbered, Back, Slot
<1>. QED  BY <1>1, <1>2, <1>3, <1>4, NextIs, ReadReads
          DEF vars, Else, Req, ReqFree, Crash, Leave, DelUsrByPid, ReActiveUsr, MvUsrPlace, Reading

\* The element after an element is newer, unless the first is the newest.
LEMMA NextIsNewer ==
  ASSUME Types, Numbered, NEW s \in Slot
  PROVE  /\ eles[s].num \in 0..num
         /\ NewerEle(s) = tail \/ eles[s].num <= eles[NewerEle(s)].num
<1>1. s \in Int /\ 0 <= s /\ s < MaxEle /\ tail \in Int /\ 0 <= tail /\ tail < MaxEle /\ num \in Nat
  BY RingIsThere DEF Types, RingTypes, Slot
<1>2. Back(s) \in Nat /\ Back(s) >= 1
  BY <1>1, RingIsThere DEF Back
<1>3. eles[s].num = IF Back(s) <= num THEN num - Back(s) + 1 ELSE 0
  BY DEF Numbered
<1>4. NewerEle(s) = (IF s = MaxEle - 1 THEN 0 ELSE s + 1) /\ NewerEle(s) \in Slot
  BY RingSteps
<1>5. CASE NewerEle(s) # tail
  <2>1. Back(NewerEle(s)) = Back(s) - 1
    BY <1>1, <1>4, <1>5, RingIsThere DEF Back
  <2>2. eles[NewerEle(s)].num
          = IF Back(NewerEle(s)) <= num THEN num - Back(NewerEle(s)) + 1 ELSE 0
    BY <1>4 DEF Numbered
  <2>. QED  BY <1>1, <1>2, <1>3, <2>1, <2>2
<1>. QED  BY <1>1, <1>2, <1>3, <1>5

--------------------------------------------------------------------------------
(* Readers.                                                                  *)

Place(r)   == curele[uno[r]]
Pending(r) == sem[uno[r]] + InHand(r)
InPacket   == {"wait", "zero", "peek", "near", "behind", "rewind", "drop", "loop", "take"}

\* A reader is inside a call that it is said to have used.
Called(r) ==
  /\ pc[r] = "locked" => "GetResource" \in used[r]
  /\ pc[r] \in InPacket => "GetPacket" \in used[r]

\* With GetResource alone, the frames from the place to the tail are pending,
\* and what the reader took last is older than they.
Counted(r) ==
  steady[r] /\ Only(r, "GetResource") =>
    /\ Place(r) \in Slot
    /\ Place(r) + Pending(r) \in {tail, tail + MaxEle}
    /\ Pending(r) <= num /\ got[r] <= num - Pending(r)

\* With GetPacket alone, what the reader took last is no newer than what is at
\* its place, or at the place that the call has read.
Ahead(r) ==
  steady[r] /\ Only(r, "GetPacket") =>
    /\ Place(r) = tail \/ (Place(r) \in Slot => got[r] <= eles[Place(r)].num)
    /\ pc[r] = "take" /\ cur[r] \in Slot => got[r] <= eles[cur[r]].num

Wakes(r) ==
  steady[r] /\ pc[r] = "wait" /\ Place(r) # tail /\ head # tail => sem[uno[r]] > 0

Behind(r) == steady[r] => got[r] <= num

Reader(r)  == Called(r) /\ Counted(r) /\ Ahead(r) /\ Wakes(r) /\ Behind(r)
AllReaders == \A r \in Readers : Reader(r)

LEMMA ReadersInit == Init => AllReaders
  BY DEF Init, AllReaders, Reader, Called, Counted, Ahead, Wakes, Behind, InPacket

\* A reader whose own variables and whose user another one's step leaves alone.
LEMMA Bystander ==
  ASSUME NEW q \in Readers, Reader(q), UNCHANGED ringVars,
         <<uno[q], pc[q], cur[q], got[q], used[q]>>' = <<uno[q], pc[q], cur[q], got[q], used[q]>>,
         steady'[q] => /\ steady[q]
                       /\ curele'[uno[q]] = curele[uno[q]] /\ sem'[uno[q]] = sem[uno[q]]
  PROVE  Reader(q)'
<1>1. /\ eles' = eles /\ head' = head /\ tail' = tail /\ num' = num
      /\ uno'[q] = uno[q] /\ pc'[q] = pc[q] /\ cur'[q] = cur[q] /\ got'[q] = got[q]
      /\ used'[q] = used[q]
  BY DEF ringVars
<1>. QED  BY <1>1 DEF Reader, Called, Counted, Ahead, Wakes, Behind, Place, Pending, InHand, Only

\* A reader that is not steady any more has only its calls to account for.
LEMMA Disturbed ==
  ASSUME NEW q \in Readers, Called(q)', ~ steady'[q]
  PROVE  Reader(q)'
  BY DEF Reader, Counted, Ahead, Wakes, Behind

LEMMA CalledIs ==
  ASSUME NEW q \in Readers, Called(q), pc'[q] = pc[q], used'[q] = used[q]
  PROVE  Called(q)'
  BY DEF Called

LEMMA ReadersElse ==
  ASSUME Types, AllMine, AllReaders, NEW r \in Readers, Else(r)
  PROVE  AllReaders'
<1>. SUFFICES ASSUME NEW q \in Readers PROVE Reader(q)'
  BY DEF AllReaders
<1>. USE DEF AllReaders
<1>1. ASSUME NEW u \in User, Req(r, u) PROVE Reader(q)'
  <2>1. CASE q # r
    <3>1. steady[q] => uno[q] # u /\ uno[q] \in User
      BY <1>1 DEF Req, NextUser, FreeUsers, AllMine, Mine
    <3>. QED  BY <1>1, <2>1, <3>1, Bystander DEF Req, Types, UserTypes, ReaderTypes
  <2>2. CASE q = r
    <3>1. /\ uno'[r] = u /\ pc'[r] = "idle" /\ got'[r] = 0 /\ used'[r] = {}
          /\ curele'[u] = tail /\ sem'[u] = 0 /\ tail' = tail /\ num' = num
      BY <1>1 DEF Req, ringVars, Types, UserTypes, ReaderTypes
    <3>2. tail \in Slot /\ tail \in Nat /\ num \in Nat
      BY RingIsThere DEF Types, RingTypes, Slot
    <3>. QED  BY <2>2, <3>1, <3>2 DEF Reader, Called, Counted, Ahead, Wakes, Behind, Place,
                                      Pending, InHand, InPacket
  <2>. QED  BY <2>1, <2>2
<1>2. CASE ReqFree(r) \/ Crash(r)
  <2>1. Leave(r) /\ Disturb(uno[r])
    BY <1>2 DEF ReqFree, Crash
  <2>2. CASE q # r
    BY <2>1, <2>2, Bystander DEF Leave, Disturb, Types, ReaderTypes
  <2>3. CASE q = r
    <3>1. pc'[r] = "out" /\ used'[r] = {} /\ ~ steady'[r]
      BY <2>1 DEF Leave, Disturb, Types, ReaderTypes
    <3>. QED  BY <2>3, <3>1, Disturbed DEF Called, InPacket
  <2>. QED  BY <2>2, <2>3
<1>3. CASE DelUsrByPid(r)
  BY <1>3, Bystander DEF DelUsrByPid, Disturb
<1>4. CASE ReActiveUsr(r)
  BY <1>4, Bystander DEF ReActiveUsr, readerVars
<1>5. CASE MvUsrPlace(r)
  <2>1. PICK s : curele' = [curele EXCEPT ![uno[r]] = s]
    BY <1>5 DEF MvUsrPlace
  <2>2. steady'[q] => steady[q] /\ uno[q] # uno[r]
    BY <1>5 DEF MvUsrPlace, Disturb
  <2>3. steady'[q] => curele'[uno[q]] = curele[uno[q]]
    BY <2>1, <2>2 DEF AllMine, Mine, Types, UserTypes
  <2>. QED  BY <1>5, <2>2, <2>3, Bystander DEF MvUsrPlace
<1>. QED  BY <1>1, <1>2, <1>3, <1>4, <1>5 DEF Else

LEMMA ReadersAdd ==
  ASSUME Types, AllMine, AllReaders, Numbered, NEW need \in Needs,
         AddFails(need) \/ AddFits(need)
  PROVE  AllReaders'
<1>. SUFFICES ASSUME NEW r \in Readers PROVE Reader(r)'
  BY DEF AllReaders
<1>. USE DEF AllReaders
<1>1. CASE AddFails(need)
  <2>1. head' = tail /\ tail' = tail /\ num' = num /\ \A s \in Slot : eles'[s].num = eles[s].num
    BY <1>1, AddFailsIs DEF Types
  <2>. QED  BY <1>1, <2>1 DEF AddFails, userVars, readerVars, Reader, Called, Counted, Ahead,
                              Wakes, Behind, Place, Pending, InHand, Only
<1>2. CASE AddFits(need)
  <2>1. /\ tail' = (IF tail = MaxEle - 1 THEN 0 ELSE tail + 1) /\ num' = num + 1
        /\ \A s \in Slot : eles'[s].num = IF s = tail THEN num + 1 ELSE eles[s].num
    BY <1>2, AddFitsIs, RingSteps DEF Types, RingTypes
  <2>2. /\ UNCHANGED <<curele, upid, lastUser, uno, pc, cur, got, used>> /\ SemAddAll
    BY <1>2 DEF AddFits
  <2>3. Called(r)'
    BY <2>2, CalledIs DEF Reader
  <2>4. CASE steady'[r]
    <3>1. steady[r] /\ uno[r] \in User /\ valid[uno[r]] /\ sem[uno[r]] \in 0..MaxSem
      <4>1. steady[r]
        BY <2>2, <2>4 DEF SemAddAll
      <4>2. uno[r] \in User /\ valid[uno[r]] /\ sem[uno[r]] <= MaxSem
        BY <4>1 DEF AllMine, Mine
      <4>3. sem[uno[r]] \in 0..SemMax
        BY <4>2 DEF Types, UserTypes
      <4>. QED  BY <4>1, <4>2, <4>3, RingAssumption
    <3>2. sem'[uno'[r]] = sem[uno[r]] + 1
      BY <2>2, <3>1, RingAssumption DEF SemAddAll, Posted
    <3>3. /\ tail \in Int /\ 0 <= tail /\ tail < MaxEle /\ num \in Nat /\ got[r] \in Nat
          /\ \A s \in Slot : eles[s].num \in 0..num
      BY RingIsThere, NextIsNewer DEF Types, RingTypes, ReaderTypes, Slot
    <3>4. Place(r)' = Place(r) /\ Pending(r)' = Pending(r) + 1 /\ Pending(r) \in 0..MaxSem + 1
      BY <2>2, <3>1, <3>2, RingAssumption DEF Place, Pending, InHand
    <3>5. Counted(r)'
      <4>. SUFFICES ASSUME Only(r, "GetResource")' PROVE Counted(r)'
        BY DEF Counted
      <4>1. /\ Place(r) \in Slot /\ Place(r) + Pending(r) \in {tail, tail + MaxEle}
            /\ Pending(r) <= num /\ got[r] <= num - Pending(r)
        BY <2>2, <3>1 DEF Reader, Counted, Only
      <4>2. Place(r) + Pending(r) < 2 * MaxEle - 1
        BY <3>4, <4>1, RingAssumption DEF Slot
      <4>3. Place(r)' + Pending(r)' \in {tail', tail' + MaxEle}
        BY <2>1, <3>3, <3>4, <4>1, <4>2, RingIsThere DEF Slot
      <4>. QED  BY <2>1, <2>2, <3>3, <3>4, <4>1, <4>3, RingAssumption DEF Counted
    <3>6. Ahead(r)'
      <4>. SUFFICES ASSUME Only(r, "GetPacket")' PROVE Ahead(r)'
        BY DEF Ahead
      <4>1. /\ Place(r) = tail \/ (Place(r) \in Slot => got[r] <= eles[Place(r)].num)
            /\ pc[r] = "take" /\ cur[r] \in Slot => got[r] <= eles[cur[r]].num
            /\ got[r] <= num
        BY <2>2, <3>1 DEF Reader, Ahead, Behind, Only
      <4>2. \A s \in Slot : got[r] <= eles[s].num \/ s = tail => got[r] <= eles'[s].num
        BY <2>1, <3>3, <4>1
      <4>. QED  BY <2>2, <3>4, <4>1, <4>2 DEF Ahead
    <3>7. Wakes(r)' /\ Behind(r)'
      BY <2>1, <2>2, <3>1, <3>2, <3>3, RingAssumption DEF Reader, Wakes, Behind
    <3>. QED  BY <2>3, <3>5, <3>6, <3>7 DEF Reader
  <2>. QED  BY <2>3, <2>4, Disturbed
<1>. QED  BY <1>1, <1>2

\* What NoStepBack says of one reader.
Forward(r) ==
  steady[r] /\ steady'[r] /\ pc[r] \in {"locked", "take"} /\ pc'[r] = "idle"
    => \/ Only(r, "GetPacket") /\ got'[r] >= got[r]
       \/ Only(r, "GetResource") /\ got'[r] > got[r]
       \/ Cardinality(used[r]) = 2

LEMMA BothUsed ==
  ASSUME Types, NEW r \in Readers, "GetPacket" \in used[r], "GetResource" \in used[r]
  PROVE  Cardinality(used[r]) = 2
<1>1. used[r] = {"GetResource"} \cup {"GetPacket"}
  <2>1. used[r] \subseteq {"GetResource", "GetPacket"}
    BY UsersAssumption DEF Types, ReaderTypes
  <2>. QED  BY <2>1
<1>2. IsFiniteSet({"GetResource"}) /\ Cardinality({"GetResource"}) = 1
  BY FS_Singleton
<1>3. Cardinality({"GetResource"} \cup {"GetPacket"}) = 2
  <2>1. "GetPacket" \notin {"GetResource"}
    OBVIOUS
  <2>2. Cardinality({"GetResource"} \cup {"GetPacket"}) = Cardinality({"GetResource"}) + 1
    BY <1>2, <2>1, FS_AddElement, Zenon
  <2>. QED  BY <1>2, <2>2
<1>. QED  BY <1>1, <1>3

LEMMA UsedIs ==
  ASSUME Types, NEW r \in Readers
  PROVE  /\ "GetPacket" \notin used[r] => Only(r, "GetResource")
         /\ "GetResource" \notin used[r] => Only(r, "GetPacket")
  BY UsersAssumption DEF Types, ReaderTypes, Only

\* GetResource takes the oldest frame that is pending, or the newest of a pool
\* that looks new.
LEMMA ReadersResourceTake ==
  ASSUME Types, AllMine, AllReaders, Numbered, NEW r \in Readers, ResourceTake(r)
  PROVE  Reader(r)' /\ Forward(r)
<1>1. /\ pc[r] = "locked" /\ "GetResource" \in used[r] /\ pc'[r] = "idle"
      /\ UNCHANGED <<ringVars, uno, used>>
  <2>1. pc[r] = "locked" /\ pc' = [pc EXCEPT ![r] = "idle"] /\ UNCHANGED <<ringVars, uno, used>>
    BY DEF ResourceTake, Take
  <2>. QED  BY <2>1 DEF AllReaders, Reader, Called, Types, ReaderTypes
<1>2. Called(r)' /\ Wakes(r)'
  BY <1>1 DEF Called, Wakes, InPacket
<1>3. ~ Only(r, "GetPacket")'
  BY <1>1 DEF Only
<1>. DEFINE c == Place(r)
            p == Pending(r)
<1>4. ASSUME steady[r], steady'[r]
      PROVE  /\ got'[r] \in 0..num
             /\ Only(r, "GetResource") => Counted(r)' /\ got'[r] > got[r]
  <2>1. PICK s \in Slot \cup {BeforeRing} :
          /\ Take(r, s, s)
          /\ s = IF LooksNew(uno[r]) THEN Rewound ELSE c
          /\ sem' = IF LooksNew(uno[r]) THEN [sem EXCEPT ![uno[r]] = 0] ELSE sem
    <3>1. c \in Slot \cup {BeforeRing} /\ Rewound \in Slot \cup {BeforeRing}
      <4>1. uno[r] \in User
        BY <1>4 DEF AllMine, Mine
      <4>. QED  BY <4>1, RingIsThere DEF Place, Types, RingTypes, UserTypes, Rewound, Slot, BeforeRing
    <3>. QED  BY <3>1 DEF ResourceTake, Finds, Place
  <2>2. /\ s \in Slot /\ curele' = [curele EXCEPT ![uno[r]] = NewerEle(s)]
        /\ got' = [got EXCEPT ![r] = eles[s].num]
    BY <1>4, <2>1 DEF Take, Types, ReaderTypes
  <2>3. uno[r] \in User /\ sem[uno[r]] \in 0..MaxSem
    <3>1. uno[r] \in User /\ sem[uno[r]] <= MaxSem
      BY <1>4 DEF AllMine, Mine
    <3>. QED  BY <3>1, RingAssumption DEF Types, UserTypes
  <2>4. /\ got'[r] = eles[s].num /\ Place(r)' = NewerEle(s)
        /\ Pending(r)' = IF LooksNew(uno[r]) THEN 0 ELSE p - 1
        /\ p = sem[uno[r]] + 1
    BY <1>1, <2>1, <2>2, <2>3 DEF Place, Pending, InHand, Types, UserTypes, ReaderTypes
  <2>5. got'[r] \in 0..num
    BY <2>2, <2>4, NextIsNewer
  <2>6. ASSUME Only(r, "GetResource") PROVE Counted(r)' /\ got'[r] > got[r]
    <3>1. /\ c \in Slot /\ c + p \in {tail, tail + MaxEle} /\ p <= num /\ got[r] <= num - p
      BY <1>4, <2>6 DEF AllReaders, Reader, Counted
    <3>2. /\ s \in Int /\ 0 <= s /\ s < MaxEle /\ tail \in Int /\ 0 <= tail /\ tail < MaxEle
          /\ num \in Nat /\ got[r] \in Nat /\ p \in 1..MaxSem + 1
          /\ c \in Int /\ 0 <= c /\ c < MaxEle
      <4>1. s \in Slot /\ c \in Slot /\ tail \in Slot /\ num \in Nat /\ got[r] \in Nat
        BY <2>2, <3>1 DEF Types, RingTypes, ReaderTypes
      <4>2. p \in 1..MaxSem + 1
        BY <2>3, <2>4, RingAssumption
      <4>. HIDE DEF c, p
      <4>. QED  BY <4>1, <4>2, RingIsThere DEF Slot
    <3>3. /\ eles[s].num = IF Back(s) <= num THEN num - Back(s) + 1 ELSE 0
          /\ NewerEle(s) = (IF s = MaxEle - 1 THEN 0 ELSE s + 1) /\ NewerEle(s) \in Slot
      BY <2>2, RingSteps DEF Numbered
    <3>. HIDE DEF c, p
    <3>4. CASE LooksNew(uno[r])
      <4>1. s = tail - 1 /\ Back(s) = 1
        BY <2>1, <3>2, <3>4 DEF Rewound, Back
      <4>2. got'[r] = num /\ NewerEle(s) = tail /\ Pending(r)' = 0
        BY <2>4, <3>1, <3>2, <3>3, <3>4, <4>1, RingIsThere
      <4>. QED  BY <1>1, <2>4, <3>1, <3>2, <3>3, <4>2 DEF Counted, ringVars
    <3>5. CASE ~ LooksNew(uno[r])
      <4>1. s = c
        BY <2>1, <3>5
      <4>2. Back(s) = p
        BY <3>1, <3>2, <4>1, RingAssumption DEF Back
      <4>3. got'[r] = num - p + 1 /\ Pending(r)' = p - 1
        BY <2>4, <3>1, <3>3, <3>5, <4>2
      <4>4. NewerEle(s) + (p - 1) \in {tail, tail + MaxEle}
        BY <3>1, <3>2, <3>3, <4>1, RingAssumption
      <4>. QED  BY <1>1, <2>4, <3>1, <3>2, <3>3, <4>3, <4>4 DEF Counted, ringVars
    <3>. QED  BY <3>4, <3>5
  <2>. QED  BY <2>5, <2>6
<1>5. steady'[r] => steady[r]
  BY DEF ResourceTake, Take, Types, ReaderTypes
<1>6. Reader(r)'
  <2>1. CASE steady'[r]
    <3>1. Behind(r)'
      BY <1>1, <1>4, <1>5, <2>1 DEF Behind, ringVars, Types, RingTypes
    <3>2. Counted(r)'
      BY <1>1, <1>4, <1>5, <2>1 DEF Counted, Only
    <3>. QED  BY <1>2, <1>3, <3>1, <3>2 DEF Reader, Ahead
  <2>. QED  BY <1>2, <2>1, Disturbed
<1>7. Forward(r)
  BY <1>1, <1>4, UsedIs, BothUsed DEF Forward
<1>. QED  BY <1>6, <1>7

LEMMA ReadersPacketTake ==
  ASSUME Types, AllMine, AllReaders, Numbered, NEW r \in Readers, PacketTake(r)
  PROVE  Reader(r)' /\ Forward(r)
<1>1. /\ pc[r] = "take" /\ "GetPacket" \in used[r] /\ pc'[r] = "idle"
      /\ UNCHANGED <<ringVars, uno, used>> /\ Take(r, cur[r], Place(r))
  BY DEF PacketTake, Take, Place, AllReaders, Reader, Called, InPacket, Types, ReaderTypes
<1>2. Called(r)' /\ Wakes(r)' /\ Counted(r)'
  BY <1>1 DEF Called, Wakes, InPacket, Counted, Only
<1>3. ASSUME steady[r], steady'[r]
      PROVE  /\ got'[r] \in 0..num
             /\ Only(r, "GetPacket") => Ahead(r)' /\ got'[r] >= got[r]
  <2>1. /\ cur[r] \in Slot /\ curele' = [curele EXCEPT ![uno[r]] = NewerEle(cur[r])]
        /\ got' = [got EXCEPT ![r] = eles[cur[r]].num]
    BY <1>1, <1>3 DEF Take, Types, ReaderTypes
  <2>2. uno[r] \in User
    BY <1>3 DEF AllMine, Mine
  <2>3. got'[r] = eles[cur[r]].num /\ Place(r)' = NewerEle(cur[r])
    BY <1>1, <2>1, <2>2 DEF Place, Types, UserTypes, ReaderTypes
  <2>4. /\ eles[cur[r]].num \in 0..num
        /\ NewerEle(cur[r]) = tail \/ eles[cur[r]].num <= eles[NewerEle(cur[r])].num
    BY <2>1, NextIsNewer
  <2>5. ASSUME Only(r, "GetPacket") PROVE Ahead(r)' /\ got'[r] >= got[r]
    <3>1. got[r] <= eles[cur[r]].num
      BY <1>1, <1>3, <2>1, <2>5 DEF AllReaders, Reader, Ahead
    <3>2. got[r] \in Nat
      BY DEF Types, ReaderTypes
    <3>. QED  BY <1>1, <2>3, <2>4, <3>1, <3>2 DEF Ahead, ringVars
  <2>. QED  BY <2>3, <2>4, <2>5
<1>4. steady'[r] => steady[r]
  BY <1>1 DEF Take, Types, ReaderTypes
<1>5. Reader(r)'
  <2>1. CASE steady'[r]
    <3>1. Behind(r)'
      BY <1>1, <1>3, <1>4, <2>1 DEF Behind, ringVars, Types, RingTypes
    <3>2. Ahead(r)'
      BY <1>1, <1>3, <1>4, <2>1 DEF Ahead, Only
    <3>. QED  BY <1>2, <3>1, <3>2 DEF Reader
  <2>. QED  BY <1>2, <2>1, Disturbed
<1>6. Forward(r)
  BY <1>1, <1>3, UsedIs, BothUsed DEF Forward
<1>. QED  BY <1>5, <1>6

LEMMA ReadersResourceSem ==
  ASSUME Types, AllMine, AllReaders, NEW r \in Readers, ResourceSem(r)
  PROVE  Reader(r)'
<1>1. /\ pc[r] = "idle" /\ pc'[r] = "locked" /\ "GetResource" \in used'[r]
      /\ UNCHANGED <<ringVars, curele, uno, cur, got, steady>>
      /\ used'[r] \in SUBSET Calls /\ used[r] \subseteq used'[r]
      /\ used'[r] \subseteq used[r] \cup {"GetResource"}
  BY DEF ResourceSem, Types, ReaderTypes
<1>2. Called(r)' /\ Wakes(r)' /\ Ahead(r)'
  BY <1>1 DEF Called, Wakes, InPacket, Ahead, Only
<1>3. Behind(r)'
  BY <1>1 DEF AllReaders, Reader, Behind, ringVars
<1>4. ASSUME steady[r], Only(r, "GetResource")' PROVE Counted(r)'
  <2>1. uno[r] \in User
    BY <1>4 DEF AllMine, Mine
  <2>2. sem'[uno[r]] = sem[uno[r]] - 1 /\ sem[uno[r]] \in Nat
    BY <2>1, RingAssumption DEF ResourceSem, Types, UserTypes
  <2>3. Pending(r)' = Pending(r) /\ Place(r)' = Place(r)
    BY <1>1, <2>2 DEF Pending, Place, InHand
  <2>4. Only(r, "GetResource")
    BY <1>1, <1>4 DEF Only
  <2>. QED  BY <1>1, <1>4, <2>3, <2>4 DEF AllReaders, Reader, Counted, ringVars
<1>5. Counted(r)'
  BY <1>1, <1>4 DEF Counted
<1>. QED  BY <1>2, <1>3, <1>5 DEF Reader

\* A reader in GetPacket is not counted; what it took is older than what is at
\* its place.
LEMMA ReadersPacketTest ==
  ASSUME Types, AllMine, AllReaders, NEW r \in Readers, PacketTest(r),
         UNCHANGED <<ringVars, curele, uno, got, steady>>,
         used' = [used EXCEPT ![r] = @ \cup {"GetPacket"}]
  PROVE  Reader(r)'
<1>1. /\ "GetPacket" \in used'[r] /\ used[r] \subseteq used'[r]
      /\ tail' = tail /\ head' = head /\ eles' = eles /\ num' = num
  BY DEF Types, ReaderTypes, ringVars
<1>2. \/ pc'[r] = "wait" /\ cur' = cur /\ (tail = head \/ Place(r) = tail)
      \/ pc'[r] = "take" /\ cur'[r] = Place(r) /\ Place(r) # tail
  BY DEF PacketTest, Place, Types, ReaderTypes
<1>3. Called(r)' /\ Counted(r)' /\ Wakes(r)'
  BY <1>1, <1>2 DEF Called, Counted, Only, Wakes, Place
<1>4. Ahead(r)' /\ Behind(r)'
  BY <1>1, <1>2 DEF AllReaders, Reader, Ahead, Behind, Only, Place
<1>. QED  BY <1>3, <1>4 DEF Reader

\* The steps of GetPacket between its tests.
LEMMA ReadersInPacket ==
  ASSUME Types, AllMine, AllReaders, NEW r \in Readers,
         pc[r] \in InPacket, pc'[r] \in InPacket \ {"wait", "take"},
         UNCHANGED <<ringVars, curele, uno, cur, got, steady, used>>
  PROVE  Reader(r)'
<1>1. Called(r)' /\ Counted(r)' /\ Wakes(r)'
  BY DEF AllReaders, Reader, Called, Counted, Only, Wakes, InPacket
<1>2. Ahead(r)' /\ Behind(r)'
  BY DEF AllReaders, Reader, Ahead, Behind, Only, Place, ringVars
<1>. QED  BY <1>1, <1>2 DEF Reader

\* The place is moved to the newest frame.
LEMMA ReadersRewind ==
  ASSUME Types, AllMine, AllReaders, Numbered, NEW r \in Readers, PacketRewind(r)
  PROVE  Reader(r)'
<1>1. /\ pc[r] = "rewind" /\ pc'[r] = "drop"
      /\ UNCHANGED <<ringVars, uno, cur, got, steady, used>>
  BY DEF PacketRewind, Goes, Types, ReaderTypes
<1>2. Called(r)' /\ Counted(r)' /\ Wakes(r)'
  BY <1>1 DEF AllReaders, Reader, Called, Counted, Only, Wakes, InPacket
<1>3. Behind(r)'
  BY <1>1 DEF AllReaders, Reader, Behind, ringVars
<1>4. ASSUME steady[r] PROVE Ahead(r)'
  <2>1. uno[r] \in User
    BY <1>4 DEF AllMine, Mine
  <2>2. Place(r)' = tail - 1
    BY <1>1, <2>1 DEF PacketRewind, Rewound, Place, Types, UserTypes
  <2>3. ASSUME tail - 1 \in Slot PROVE got[r] <= eles[tail - 1].num
    <3>1. Back(tail - 1) = 1 /\ num \in Nat /\ got[r] \in Nat /\ got[r] <= num
      BY <1>4, RingIsThere DEF Back, AllReaders, Reader, Behind, Types, RingTypes, ReaderTypes, Slot
    <3>2. eles[tail - 1].num = IF 1 <= num THEN num - 1 + 1 ELSE 0
      BY <2>3, <3>1 DEF Numbered
    <3>. QED  BY <3>1, <3>2
  <2>. QED  BY <1>1, <2>2, <2>3 DEF Ahead, ringVars
<1>. QED  BY <1>1, <1>2, <1>3, <1>4 DEF Reader, Ahead

LEMMA ReadersRead ==
  ASSUME Types, AllMine, AllReaders, Numbered, NEW r \in Readers, Read(r)
  PROVE  AllReaders'
<1>1. ASSUME NEW q \in Readers \ {r} PROVE Reader(q)'
  <2>1. Reading(r)
    BY ReadReads
  <2>2. /\ UNCHANGED ringVars
        /\ <<uno[q], pc[q], cur[q], got[q], used[q]>>' = <<uno[q], pc[q], cur[q], got[q], used[q]>>
        /\ steady'[q] = steady[q]
    BY <2>1 DEF Reading, Types, ReaderTypes
  <2>3. steady[q] => uno[q] \in User /\ uno[q] # uno[r]
    BY DEF AllMine, Mine
  <2>4. steady[q] => curele'[uno[q]] = curele[uno[q]] /\ sem'[uno[q]] = sem[uno[q]]
    BY <2>1, <2>3 DEF Reading, Types, UserTypes
  <2>. QED  BY <2>2, <2>4, Bystander DEF AllReaders
<1>2. Reader(r)'
  <2>0. ASSUME "GetPacket" \in used[r] PROVE used = [used EXCEPT ![r] = @ \cup {"GetPacket"}]
    BY <2>0 DEF Types, ReaderTypes
  <2>1. pc[r] \in InPacket => "GetPacket" \in used[r]
    BY DEF AllReaders, Reader, Called
  <2>2. CASE PacketCall(r)
    BY <2>2, ReadersPacketTest DEF PacketCall, userVars
  <2>3. CASE PacketSem(r) \/ PacketZero(r) \/ PacketPeek(r) \/ PacketDrop(r)
    BY <2>3, ReadersInPacket
       DEF PacketSem, PacketZero, PacketPeek, PacketDrop, Goes, InPacket, userVars, Types, ReaderTypes
  <2>4. CASE PacketLoop(r)
    <3>1. pc[r] \in InPacket /\ UNCHANGED <<ringVars, curele, uno, got, steady, used>>
      BY <2>4 DEF PacketLoop, InPacket, userVars
    <3>. QED  BY <2>0, <2>1, <2>4, <3>1, ReadersPacketTest DEF PacketLoop
  <2>. QED  BY <2>2, <2>3, <2>4, ReadersResourceSem, ReadersResourceTake,
               ReadersPacketTake, ReadersRewind DEF Read, Packet
<1>. QED  BY <1>1, <1>2 DEF AllReaders

LEMMA ReadersNext ==
  Types /\ AllMine /\ AllReaders /\ Numbered /\ [Next]_vars => AllReaders'
<1>. SUFFICES ASSUME Types, AllMine, AllReaders, Numbered, [Next]_vars PROVE AllReaders'
  OBVIOUS
<1>1. CASE Create
  BY <1>1, CalledIs, Disturbed DEF Create, AllReaders, Reader
<1>2. CASE UNCHANGED vars
  BY <1>2, Bystander DEF vars, userVars, readerVars, AllReaders
<1>. QED  BY <1>1, <1>2, NextIs, ReadersAdd, ReadersElse, ReadersRead

\* Only the end of a read takes a reader from inside a call to the outside.
LEMMA ForwardNext ==
  Types /\ AllMine /\ AllReaders /\ Numbered /\ [Next]_vars => NoStepBack
<1>. SUFFICES ASSUME Types, AllMine, AllReaders, Numbered, [Next]_vars,
                     NEW r \in Readers, pc[r] \in {"locked", "take"}, pc'[r] = "idle"
              PROVE  Forward(r)
  BY DEF NoStepBack, Forward
<1>1. \E q \in Readers : Else(q) \/ Read(q)
  BY NextIs DEF AddFails, AddFits, Create, readerVars, vars
<1>2. ASSUME NEW q \in Readers, Else(q) PROVE FALSE
  BY <1>2 DEF Else, Req, ReqFree, Crash, Leave, DelUsrByPid, ReActiveUsr, MvUsrPlace, readerVars,
              Types, ReaderTypes
<1>3. ASSUME NEW q \in Readers \ {r}, Read(q) PROVE FALSE
  <2>1. Reading(q)
    BY <1>3, ReadReads
  <2>. QED  BY <2>1 DEF Reading, Types, ReaderTypes
<1>4. Read(r)
  BY <1>1, <1>2, <1>3
<1>5. ResourceTake(r) \/ PacketTake(r)
  BY <1>4 DEF Read, ResourceSem, Packet, PacketCall, PacketSem, PacketZero, PacketPeek,
              PacketRewind, PacketDrop, PacketLoop, PacketTest, Goes, Types, ReaderTypes
<1>. QED  BY <1>5, ReadersResourceTake, ReadersPacketTake

LEMMA ReadersInvariant == Spec => [](Types /\ AllMine /\ Numbered /\ AllReaders)
<1>1. Init => AllMine
  BY DEF Init, AllMine, Mine
<1>. QED  BY <1>1, TypesInit, NumberedInit, ReadersInit, TypesNext, MineNext, NumberedNext,
             ReadersNext, PTL DEF Spec

\* The semaphore of a user that only GetResource moves counts exactly the
\* frames between its place and the tail.
THEOREM SemaphoreCounts == Spec => []SemCountsFrames
<1>. SUFFICES Types /\ AllMine /\ AllReaders => SemCountsFrames
  BY ReadersInvariant, PTL
<1>. SUFFICES ASSUME Types, AllMine, AllReaders, NEW r \in Readers, steady[r],
                     Only(r, "GetResource")
              PROVE  (curele[uno[r]] + sem[uno[r]] + InHand(r)) % MaxEle = tail
  BY DEF SemCountsFrames
<1>1. /\ curele[uno[r]] \in Slot /\ curele[uno[r]] + Pending(r) \in {tail, tail + MaxEle}
      /\ Pending(r) = sem[uno[r]] + InHand(r)
  BY DEF AllReaders, Reader, Counted, Place, Pending
<1>2. sem[uno[r]] \in Nat /\ InHand(r) \in Nat
  BY RingAssumption DEF AllMine, Mine, InHand, Types, UserTypes
<1>3. curele[uno[r]] + sem[uno[r]] + InHand(r) \in {tail, tail + MaxEle}
  BY <1>1, <1>2, RingIsThere DEF Slot
<1>4. tail % MaxEle = tail /\ (tail + MaxEle) % MaxEle = tail
  BY AroundTheRing DEF Types, RingTypes
<1>. QED  BY <1>3, <1>4

\* GetPacket never sleeps on a frame: a reader in SemReq has no frame to read,
\* or a semaphore to wake it, although it throws its semaphores away.
THEOREM WakeupsKept == Spec => []NoLostWakeup
<1>1. AllReaders => NoLostWakeup
  BY DEF AllReaders, Reader, Wakes, Place, NoLostWakeup
<1>. QED  BY <1>1, ReadersInvariant, PTL

\* A reader that nobody disturbs is never led back to a frame older than the
\* last it took, and with GetResource never to the same one.
THEOREM ReadsForward == Spec => NeverBackwards
<1>1. Types /\ AllMine /\ Numbered /\ AllReaders /\ [Next]_vars => [NoStepBack]_vars
  BY ForwardNext
<1>. QED  BY <1>1, ReadersInvariant, PTL DEF Spec, NeverBackwards

--------------------------------------------------------------------------------
(* Numbers that readers share: counted is a promise about the user, whoever   *)
(* reads with it, and what it says of the semaphore is preserved with the     *)
(* semaphores that readers have in hand.                                      *)

LEMMA LockedIs ==
  ASSUME NEW u \in User
  PROVE  IsFiniteSet(Locked(u)) /\ Cardinality(Locked(u)) \in Nat
<1>1. IsFiniteSet(Readers) /\ Locked(u) \subseteq Readers
  BY UsersAssumption DEF Locked
<1>. QED  BY <1>1, FS_Subset, FS_CardinalityType

LEMMA LockedNone ==
  ASSUME NEW u \in User, \A q \in Readers : uno[q] = u => pc[q] # "locked"
  PROVE  Cardinality(Locked(u)) = 0
<1>1. Locked(u) = {}
  BY DEF Locked
<1>. QED  BY <1>1, FS_EmptySet

\* A counted user is in use, has few frames waiting and stands in the ring.
UserCounts(u) ==
  counted[u] =>
    /\ valid[u] /\ sem[u] <= MaxSem /\ curele[u] \in Slot
    /\ (curele[u] + sem[u] + Cardinality(Locked(u))) % MaxEle = tail
AllCounted == counted \in [User -> BOOLEAN] /\ \A u \in User : UserCounts(u)

LEMMA CountedInit == Init => AllCounted
  BY DEF Init, AllCounted, UserCounts

\* A user that a step leaves alone, or no longer counts.
LEMMA CountedKept ==
  ASSUME NEW u \in User, UserCounts(u),
         counted'[u] => /\ counted[u] /\ valid'[u] = valid[u] /\ sem'[u] = sem[u]
                        /\ curele'[u] = curele[u] /\ tail' = tail
                        /\ Locked(u)' = Locked(u)
  PROVE  UserCounts(u)'
  BY DEF UserCounts

\* One frame more, or a place that goes around.
LEMMA OneMore ==
  ASSUME NEW n \in Nat, n % MaxEle = tail, tail \in Slot
  PROVE  (n + 1) % MaxEle = NewerEle(tail)
  BY NumbersGoOn, RingSteps

LEMMA OneRound ==
  ASSUME NEW n \in Nat, n >= MaxEle
  PROVE  (n - MaxEle) % MaxEle = n % MaxEle
<1>. DEFINE q == n \div MaxEle
            t == n % MaxEle
<1>1. q \in Nat /\ t \in 0..MaxEle - 1 /\ n = q * MaxEle + t
  BY RingIsThere
<1>. HIDE DEF q, t
<1>2. q # 0
  BY <1>1, RingIsThere
<1>3. q - 1 \in Nat /\ n - MaxEle = (q - 1) * MaxEle + t /\ n - MaxEle \in Nat
  BY <1>1, <1>2, RingIsThere
<1>. QED  BY <1>1, <1>3, Remainder DEF t

\* A frame is added: whoever it does not strike off has one more waiting.
LEMMA CountedAdd ==
  ASSUME Types, AllCounted, NEW need \in Needs, AddFits(need)
  PROVE  AllCounted'
<1>1. /\ SemAddAll /\ curele' = curele /\ uno' = uno /\ pc' = pc /\ tail' = NewerEle(tail)
  BY DEF AddFits
<1>2. ASSUME NEW u \in User, counted'[u] PROVE UserCounts(u)'
  <2>. DEFINE k == Cardinality(Locked(u))
  <2>1. counted[u] /\ ~ Strike(u)
    BY <1>1, <1>2 DEF SemAddAll
  <2>2. /\ valid[u] /\ sem[u] <= MaxSem /\ curele[u] \in Slot
        /\ (curele[u] + sem[u] + k) % MaxEle = tail
    BY <2>1 DEF AllCounted, UserCounts
  <2>3. sem[u] \in Nat /\ curele[u] \in Nat /\ k \in Nat /\ tail \in Slot
    BY <2>2, LockedIs, RingAssumption DEF Types, UserTypes, RingTypes, Slot
  <2>4. Posted(u) = sem[u] + 1 /\ Posted(u) <= MaxSem
    BY <2>1, <2>2, <2>3, RingAssumption DEF Posted, Strike
  <2>5. valid'[u] /\ sem'[u] = sem[u] + 1
    BY <1>1, <2>1, <2>2, <2>4 DEF SemAddAll
  <2>6. Locked(u)' = Locked(u)
    BY <1>1 DEF Locked
  <2>. HIDE DEF k
  <2>7. ((curele[u] + sem[u] + k) + 1) % MaxEle = NewerEle(tail)
    BY <2>2, <2>3, OneMore
  <2>8. (curele[u] + (sem[u] + 1) + k) = (curele[u] + sem[u] + k) + 1
    BY <2>3
  <2>9. (curele'[u] + sem'[u] + Cardinality(Locked(u)')) % MaxEle = tail'
    BY <1>1, <2>5, <2>6, <2>7, <2>8 DEF k
  <2>. QED  BY <1>1, <2>2, <2>4, <2>5, <2>9 DEF UserCounts
<1>3. counted' \in [User -> BOOLEAN]
  BY <1>1 DEF SemAddAll, AllCounted
<1>. QED  BY <1>2, <1>3 DEF AllCounted, UserCounts

\* The number is given out, with no frame waiting: whoever still has it is idle.
LEMMA CountedReq ==
  ASSUME Types, AllCounted, NEW r \in Readers, NEW u \in User, Req(r, u)
  PROVE  AllCounted'
<1>1. /\ counted' \in [User -> BOOLEAN] /\ tail' = tail /\ tail \in Slot
      /\ uno' = [uno EXCEPT ![r] = u] /\ pc' = [pc EXCEPT ![r] = "idle"] /\ pc[r] = "out"
      /\ uno \in [Readers -> User \cup {NoUser}] /\ pc \in [Readers -> Step]
  BY DEF Req, ringVars, AllCounted, Types, RingTypes, ReaderTypes
<1>2. ASSUME NEW v \in User \ {u} PROVE UserCounts(v)'
  <2>1. uno[r] # v
    <3>1. uno[r] = NoUser
      BY <1>1 DEF Types, ReaderTypes
    <3>. QED  BY <3>1 DEF User, NoUser
  <2>2. Locked(v)' = Locked(v)
    BY <1>1, <1>2, <2>1 DEF Locked
  <2>3. /\ counted'[v] = counted[v] /\ valid'[v] = valid[v] /\ sem'[v] = sem[v]
        /\ curele'[v] = curele[v]
    BY <1>2 DEF Req, AllCounted, Types, UserTypes
  <2>. QED  BY <1>1, <2>2, <2>3, CountedKept DEF AllCounted
<1>3. ASSUME counted'[u] PROVE UserCounts(u)'
  <2>1. \A q \in Readers : uno[q] = u => pc[q] = "idle"
    BY <1>3 DEF Req, AllCounted
  <2>2. \A q \in Readers : uno'[q] = u => pc'[q] # "locked"
    BY <1>1, <2>1
  <2>3. Cardinality(Locked(u)') = 0
    <3>1. Locked(u)' = {}
      BY <2>2 DEF Locked
    <3>. QED  BY <3>1, FS_EmptySet
  <2>4. valid'[u] /\ sem'[u] = 0 /\ curele'[u] = tail
    BY DEF Req, Types, UserTypes
  <2>5. tail + 0 + 0 = tail /\ tail % MaxEle = tail
    BY <1>1, AroundTheRing, RingIsThere DEF Slot
  <2>. QED  BY <1>1, <2>3, <2>4, <2>5, RingAssumption DEF UserCounts
<1>. QED  BY <1>1, <1>2, <1>3 DEF AllCounted, UserCounts

\* Every other step but a read.
LEMMA CountedElse ==
  ASSUME Types, AllCounted, NEW r \in Readers,
         ReqFree(r) \/ Crash(r) \/ DelUsrByPid(r) \/ ReActiveUsr(r) \/ MvUsrPlace(r)
  PROVE  AllCounted'
<1>1. uno \in [Readers -> User \cup {NoUser}] /\ pc \in [Readers -> Step] /\ NoUser \notin User
  BY DEF Types, ReaderTypes, User, NoUser
<1>2. ASSUME Leave(r), NEW u \in User, u # uno[r] \/ pc[r] # "locked"
      PROVE  Locked(u)' = Locked(u)
  BY <1>1, <1>2 DEF Leave, Locked
<1>3. CASE ReqFree(r)
  <2>1. counted' = [counted EXCEPT ![uno[r]] = FALSE] /\ Leave(r) /\ tail' = tail
        /\ valid' = [valid EXCEPT ![uno[r]] = FALSE] /\ pc[r] = "idle"
        /\ curele' = curele /\ sem' = sem
    BY <1>3 DEF ReqFree, Miscount, Leave, ringVars
  <2>2. ASSUME NEW u \in User PROVE UserCounts(u)'
    BY <1>2, <2>1, CountedKept DEF AllCounted, Types, UserTypes
  <2>. QED  BY <2>1, <2>2 DEF AllCounted
<1>4. CASE Crash(r)
  <2>1. counted' = [counted EXCEPT ![uno[r]] = @ /\ pc[r] = "idle"] /\ Leave(r) /\ tail' = tail
        /\ valid' = valid /\ curele' = curele /\ sem' = sem
    BY <1>4 DEF Crash, Leave, ringVars
  <2>2. ASSUME NEW u \in User PROVE UserCounts(u)'
    <3>1. counted'[u] => counted[u] /\ (u = uno[r] => pc[r] = "idle")
      BY <2>1 DEF AllCounted
    <3>. QED  BY <1>2, <2>1, <3>1, CountedKept DEF AllCounted
  <2>3. counted' \in [User -> BOOLEAN]
    BY <2>1 DEF AllCounted
  <2>. QED  BY <2>2, <2>3 DEF AllCounted
<1>5. CASE DelUsrByPid(r)
  <2>1. PICK w \in User : /\ counted' = [counted EXCEPT ![w] = FALSE]
                          /\ valid' = [valid EXCEPT ![w] = FALSE]
    BY <1>5 DEF DelUsrByPid, Miscount
  <2>2. tail' = tail /\ UNCHANGED <<curele, sem, uno, pc>>
    BY <1>5 DEF DelUsrByPid, ringVars
  <2>3. ASSUME NEW u \in User PROVE UserCounts(u)'
    BY <2>1, <2>2, <2>3, CountedKept DEF AllCounted, Locked, Types, UserTypes
  <2>. QED  BY <2>1, <2>3 DEF AllCounted
<1>6. CASE ReActiveUsr(r)
  <2>1. /\ valid' = [valid EXCEPT ![uno[r]] = TRUE] /\ ~ valid[uno[r]]
        /\ tail' = tail /\ UNCHANGED <<curele, sem, uno, pc, counted>>
    BY <1>6 DEF ReActiveUsr, ringVars, readerVars
  <2>2. ASSUME NEW u \in User PROVE UserCounts(u)'
    <3>1. counted[u] => u # uno[r]
      BY <2>1 DEF AllCounted, UserCounts
    <3>. QED  BY <2>1, <3>1, CountedKept DEF AllCounted, Locked, Types, UserTypes
  <2>. QED  BY <2>1, <2>2 DEF AllCounted
<1>7. CASE MvUsrPlace(r)
  <2>1. /\ counted' = [counted EXCEPT ![uno[r]] = FALSE]
        /\ tail' = tail /\ UNCHANGED <<valid, sem, uno, pc>>
    BY <1>7 DEF MvUsrPlace, Miscount, ringVars
  <2>2. PICK s : curele' = [curele EXCEPT ![uno[r]] = s]
    BY <1>7 DEF MvUsrPlace
  <2>3. ASSUME NEW u \in User PROVE UserCounts(u)'
    BY <2>1, <2>2, CountedKept DEF AllCounted, Locked, Types, UserTypes
  <2>. QED  BY <2>1, <2>3 DEF AllCounted
<1>. QED  BY <1>3, <1>4, <1>5, <1>6, <1>7

\* A semaphore goes from the user into a reader's hand.
LEMMA CountedSem ==
  ASSUME Types, AllCounted, NEW r \in Readers, ResourceSem(r)
  PROVE  AllCounted'
<1>1. /\ pc[r] = "idle" /\ pc' = [pc EXCEPT ![r] = "locked"] /\ uno' = uno /\ tail' = tail
      /\ sem' = [sem EXCEPT ![uno[r]] = @ - 1] /\ sem[uno[r]] > 0
      /\ UNCHANGED <<valid, curele, counted>>
  BY DEF ResourceSem, ringVars
<1>2. uno[r] \in User /\ pc \in [Readers -> Step]
  BY <1>1 DEF Types, ReaderTypes
<1>3. ASSUME NEW u \in User, u # uno[r] PROVE UserCounts(u)'
  <2>1. Locked(u)' = Locked(u)
    BY <1>1, <1>2, <1>3 DEF Locked
  <2>. QED  BY <1>1, <1>3, <2>1, CountedKept DEF AllCounted, Types, UserTypes
<1>. DEFINE u == uno[r]
            k == Cardinality(Locked(u))
<1>4. ASSUME counted[u] PROVE UserCounts(u)'
  <2>1. /\ valid[u] /\ sem[u] <= MaxSem /\ curele[u] \in Slot
        /\ (curele[u] + sem[u] + k) % MaxEle = tail
    BY <1>2, <1>4 DEF AllCounted, UserCounts
  <2>2. Locked(u)' = Locked(u) \cup {r} /\ r \notin Locked(u)
    BY <1>1, <1>2 DEF Locked
  <2>3. IsFiniteSet(Locked(u)) /\ k \in Nat
    BY <1>2, LockedIs
  <2>4. Cardinality(Locked(u)') = k + 1
    BY <2>2, <2>3, FS_AddElement
  <2>5. sem'[u] = sem[u] - 1 /\ sem[u] \in Nat /\ curele[u] \in Nat
    BY <1>1, <1>2, <2>1, RingAssumption DEF Types, UserTypes, Slot
  <2>. HIDE DEF k
  <2>6. curele[u] + (sem[u] - 1) + (k + 1) = curele[u] + sem[u] + k /\ sem[u] - 1 <= MaxSem
    BY <2>1, <2>3, <2>5, RingAssumption
  <2>7. uno'[r] = u
    BY <1>1
  <2>. QED  BY <1>1, <2>1, <2>4, <2>5, <2>6 DEF UserCounts
<1>. QED  BY <1>1, <1>3, <1>4 DEF AllCounted, UserCounts

\* The frame of a semaphore in hand is taken.
LEMMA CountedTake ==
  ASSUME Types, AllCounted, NEW r \in Readers, ResourceTake(r)
  PROVE  AllCounted'
<1>. DEFINE u == uno[r]
            k == Cardinality(Locked(u))
            s == Finds(u)
<1>1. /\ pc[r] = "locked" /\ pc' = [pc EXCEPT ![r] = "idle"] /\ uno' = uno /\ valid' = valid
      /\ tail' = tail /\ StillCounted(r)
      /\ sem' = IF LooksNew(u) THEN [sem EXCEPT ![u] = 0] ELSE sem
      /\ \E t : curele' = [curele EXCEPT ![u] = t]
  BY DEF ResourceTake, Take, ringVars
<1>2. u \in User /\ pc \in [Readers -> Step] /\ uno \in [Readers -> User \cup {NoUser}]
  BY <1>1 DEF Types, ReaderTypes
<1>3. ASSUME NEW v \in User \ {u} PROVE UserCounts(v)'
  <2>1. Locked(v)' = Locked(v)
    BY <1>1, <1>2, <1>3 DEF Locked
  <2>2. counted'[v] = counted[v] /\ sem'[v] = sem[v] /\ curele'[v] = curele[v]
    <3>1. PICK b : counted' = [counted EXCEPT ![u] = b]
      BY <1>1 DEF StillCounted
    <3>2. PICK t : curele' = [curele EXCEPT ![u] = t]
      BY <1>1
    <3>3. v \in User /\ v # u
      BY <1>3
    <3>4. sem' = sem \/ sem' = [sem EXCEPT ![u] = 0]
      BY <1>1
    <3>5. counted'[v] = counted[v]
      <4>. HIDE DEF u
      <4>. QED  BY <3>1, <3>3 DEF AllCounted
    <3>6. sem'[v] = sem[v] /\ curele'[v] = curele[v]
      <4>. HIDE DEF u
      <4>. QED  BY <3>2, <3>3, <3>4 DEF Types, UserTypes
    <3>. QED  BY <3>5, <3>6
  <2>. QED  BY <1>1, <2>1, <2>2, CountedKept DEF AllCounted
<1>4. ASSUME counted'[u] PROVE UserCounts(u)'
  <2>1. /\ counted[u] /\ curele'[u] = NewerEle(s)
        /\ LooksNew(u) => \A q \in Readers \ {r} : uno[q] = u => pc[q] # "locked"
    <3>. DEFINE alone == \A q \in Readers \ {r} : uno[q] = u => pc[q] # "locked"
                still == counted[u] /\ curele'[u] = NewerEle(s) /\ (LooksNew(u) => alone)
    <3>1. counted' = [counted EXCEPT ![u] = still]
      BY <1>1 DEF StillCounted
    <3>2. u \in DOMAIN counted
      BY <1>2 DEF AllCounted
    <3>. HIDE DEF still
    <3>3. counted'[u] = still
      BY <3>1, <3>2
    <3>4. still
      BY <1>4, <3>3
    <3>. QED  BY <3>4 DEF still
  <2>2. /\ valid[u] /\ sem[u] <= MaxSem /\ curele[u] \in Slot
        /\ (curele[u] + sem[u] + k) % MaxEle = tail
    BY <1>2, <2>1 DEF AllCounted, UserCounts
  <2>3. /\ sem[u] \in Nat /\ k \in Nat /\ tail \in Slot
        /\ curele[u] \in Int /\ 0 <= curele[u] /\ curele[u] < MaxEle
        /\ tail \in Int /\ 0 <= tail /\ tail < MaxEle
    BY <1>2, <2>2, LockedIs, RingIsThere, RingAssumption DEF Types, UserTypes, RingTypes, Slot
  <2>4. CASE LooksNew(u)
    <3>1. s = tail - 1 /\ sem'[u] = 0
      BY <1>1, <1>2, <2>4 DEF Finds, Rewound, Types, UserTypes
    <3>2. NewerEle(s) = tail
      <4>1. (tail - 1) + 1 = tail /\ tail % MaxEle = tail
        BY <2>3, AroundTheRing
      <4>. QED  BY <3>1, <4>1 DEF NewerEle
    <3>3. Locked(u)' = {}
      BY <1>1, <1>2, <2>1, <2>4 DEF Locked
    <3>4. tail + 0 + 0 = tail /\ tail % MaxEle = tail /\ 0 <= MaxSem
      BY <2>3, AroundTheRing, RingAssumption
    <3>5. Cardinality(Locked(u)') = 0
      BY <3>3, FS_EmptySet
    <3>. HIDE DEF u, k, s
    <3>6. (curele'[u] + sem'[u] + Cardinality(Locked(u)')) % MaxEle = tail'
      BY <1>1, <2>1, <3>1, <3>2, <3>4, <3>5
    <3>. QED  BY <1>1, <2>1, <2>2, <2>3, <3>1, <3>2, <3>4, <3>6 DEF UserCounts, u
  <2>5. CASE ~ LooksNew(u)
    <3>1. s = curele[u] /\ sem'[u] = sem[u]
      BY <1>1, <2>5 DEF Finds
    <3>2. Locked(u)' = Locked(u) \ {r} /\ r \in Locked(u)
      BY <1>1, <1>2 DEF Locked
    <3>3. Cardinality(Locked(u)') = k - 1 /\ k \in 1..k
      <4>1. IsFiniteSet(Locked(u))
        BY <1>2, LockedIs
      <4>2. Cardinality(Locked(u) \ {r}) = k - 1
        BY <3>2, <4>1, FS_RemoveElement
      <4>3. k # 0
        BY <3>2, <4>1, FS_EmptySet
      <4>. QED  BY <2>3, <3>2, <4>2, <4>3
    <3>4. NewerEle(s) = (IF s = MaxEle - 1 THEN 0 ELSE s + 1) /\ NewerEle(s) \in Slot
      BY <2>2, <3>1, RingSteps
    <3>. DEFINE n == curele[u] + sem[u] + k
                m == NewerEle(s) + sem[u] + (k - 1)
    <3>5. m = n \/ (m = n - MaxEle /\ n >= MaxEle)
      <4>. HIDE DEF u, k, s
      <4>. QED  BY <2>3, <3>1, <3>3, <3>4, RingIsThere
    <3>6. n \in Nat
      <4>. HIDE DEF u, k, s
      <4>. QED  BY <2>3
    <3>7. m % MaxEle = tail
      <4>. HIDE DEF n, m
      <4>1. n % MaxEle = tail
        BY <2>2 DEF n
      <4>. QED  BY <3>5, <3>6, <4>1, OneRound
    <3>8. (curele'[u] + sem'[u] + Cardinality(Locked(u)')) % MaxEle = tail'
      BY <1>1, <2>1, <3>1, <3>3, <3>7
    <3>. QED  BY <1>1, <2>1, <2>2, <3>1, <3>4, <3>8 DEF UserCounts
  <2>. QED  BY <2>4, <2>5
<1>5. counted' \in [User -> BOOLEAN]
  BY <1>1, <1>2 DEF StillCounted, AllCounted
<1>. HIDE DEF u, k, s
<1>6. ASSUME NEW v \in User, v = u PROVE UserCounts(v)'
  <2>1. CASE counted'[u]
    BY <1>1, <1>4, <1>6, <2>1 DEF UserCounts, Locked, u
  <2>2. CASE ~ counted'[u]
    BY <1>6, <2>2 DEF UserCounts
  <2>. QED  BY <2>1, <2>2
<1>. QED  BY <1>3, <1>5, <1>6 DEF AllCounted

LEMMA CountedNext == Types /\ AllCounted /\ [Next]_vars => AllCounted'
<1>. SUFFICES ASSUME Types, AllCounted, [Next]_vars PROVE AllCounted'
  OBVIOUS
<1>1. ASSUME NEW need \in Needs, AddFails(need) PROVE AllCounted'
  <2>1. tail' = tail /\ UNCHANGED <<valid, sem, curele, uno, pc, counted>>
    BY <1>1 DEF AddFails, userVars, readerVars
  <2>. QED  BY <2>1, CountedKept DEF AllCounted, Locked
<1>2. CASE Create
  BY <1>2 DEF Create, AllCounted, UserCounts
<1>3. ASSUME NEW r \in Readers, Packet(r) PROVE AllCounted'
  <2>1. Reading(r) /\ counted' = [counted EXCEPT ![uno[r]] = FALSE] /\ pc[r] # "locked"
    BY <1>3, ReadReads
       DEF Read, Packet, Miscount, PacketCall, PacketSem, PacketZero, PacketPeek,
           PacketRewind, PacketDrop, PacketLoop, PacketTake, Goes
  <2>2. ASSUME NEW u \in User, u # uno[r] PROVE UserCounts(u)'
    <3>1. Locked(u)' = Locked(u)
      BY <2>1, <2>2 DEF Reading, Locked, Types, ReaderTypes
    <3>2. valid'[u] = valid[u] /\ sem'[u] = sem[u] /\ curele'[u] = curele[u] /\ tail' = tail
      BY <2>1, <2>2 DEF Reading, ringVars, Types, UserTypes
    <3>. QED  BY <2>1, <2>2, <3>1, <3>2, CountedKept DEF AllCounted
  <2>. QED  BY <2>1, <2>2 DEF AllCounted, UserCounts
<1>4. CASE UNCHANGED vars
  <2>1. tail' = tail /\ UNCHANGED <<valid, sem, curele, uno, pc, counted>>
    BY <1>4 DEF vars, ringVars, userVars, readerVars
  <2>. QED  BY <2>1, CountedKept DEF AllCounted, Locked
<1>. QED  BY <1>1, <1>2, <1>3, <1>4, CountedAdd, CountedReq, CountedElse, CountedSem, CountedTake,
             NextIs DEF Else, Read

LEMMA CountedInvariant == Spec => [](Types /\ AllCounted)
  BY PoolInvariant, CountedInit, CountedNext, PTL DEF Spec

\* A user number that was struck off and given out again, while the reader that
\* had it reads on, counts for both: its semaphore and those the readers have in
\* hand are the frames between its place and the tail.
THEOREM NumbersCount == Spec => []NumberCountsFrames
<1>1. AllCounted => NumberCountsFrames
  BY DEF AllCounted, UserCounts, NumberCountsFrames
<1>. QED  BY <1>1, CountedInvariant, PTL

--------------------------------------------------------------------------------
(* Frames in turn: the pool implements FrameStream.  Followed here is a       *)
(* steady reader that uses one call; its stand is worked out from how far its *)
(* place is behind the tail (Lag), which each step changes by one or by the   *)
(* length of the ring.                                                        *)

\* The number after the last frame that a reader has behind it.
Next1(r) == num + 1 - Lag(r)

\* The tail is where the numbers of the frames have come to.
InRing == tail = num % MaxEle

\* A reader takes from the place it is at, and is due a frame of this pool.
Standing(r) ==
  steady[r] /\ OneCall(r) =>
    /\ pc[r] = "take" => cur[r] = Place(r)
    /\ pc[r] = "rewind" => Place(r) \in Slot
    /\ Place(r) \in Slot => Lag(r) <= num
AllStand == InRing /\ \A r \in Readers : Standing(r)

LEMMA StandInit == Init => AllStand /\ Stream!Init
<1>1. Init => InRing
  BY RingIsThere DEF Init, InRing
<1>. QED  BY <1>1 DEF Init, AllStand, Standing, Stand, Followed, Stream!Init, Stream!Off, Stream!At

LEMMA StandIs ==
  ASSUME NEW r \in Readers
  PROVE  /\ Followed(r) => Stand(r) = Stream!At(got[r], Next1(r), used[r], Hand(r))
         /\ ~Followed(r) => Stand(r) = Stream!Off
         /\ Followed(r)' => Stand(r)' = Stream!At(got'[r], Next1(r)', used'[r], Hand(r)')
         /\ ~Followed(r)' => Stand(r)' = Stream!Off
  BY DEF Stand, Next1, Stream!Off, Stream!At

LEMMA LagIs ==
  ASSUME Types, NEW r \in Readers, Place(r) \in Slot
  PROVE  /\ Lag(r) \in 0..MaxEle
         /\ Lag(r) = 0 <=> Place(r) = tail /\ pc[r] # "take"
         /\ Lag(r) # 0 => Lag(r) = Back(Place(r))
<1>. DEFINE c == Place(r)
<1>1. /\ c \in Int /\ 0 <= c /\ c < MaxEle /\ tail \in Int /\ 0 <= tail /\ tail < MaxEle
  BY RingIsThere DEF Types, RingTypes, Slot
<1>2. Back(c) \in 1..MaxEle
  BY <1>1, RingIsThere DEF Back
<1>3. Lag(r) = IF c = tail /\ pc[r] # "take" THEN 0 ELSE Back(c)
  BY DEF Lag, Place
<1>. HIDE DEF c
<1>. QED  BY <1>2, <1>3, RingIsThere DEF c

--------------------------------------------------------------------------------
(* Steps of the stream, from what they do to the stands of the readers.      *)

OthersStand(r) == \A q \in Readers \ {r} : Stand(q)' = Stand(q)

\* Readers may be lost at any step.
LEMMA LoseStream ==
  ASSUME num' = num, \A q \in Readers : Stand(q)' \in {Stand(q), Stream!Off}
  PROVE  Stream!Lose
<1>. DEFINE Lost == {q \in Readers : Stand(q)' = Stream!Off}
<1>1. /\ Lost \in SUBSET Readers
      /\ \A q \in Readers : Stand(q)' = IF q \in Lost THEN Stream!Off ELSE Stand(q)
  OBVIOUS
<1>. HIDE DEF Lost
<1>. QED  BY <1>1 DEF Stream!Lose

LEMMA OneStand ==
  ASSUME NEW r \in Readers, OthersStand(r), NEW x, Stand(r)' = x
  PROVE  /\ [q \in Readers |-> Stand(q)][r] = Stand(r)
         /\ [q \in Readers |-> Stand(q)'] = [[q \in Readers |-> Stand(q)] EXCEPT ![r] = x]
<1>. DEFINE f == [q \in Readers |-> Stand(q)]
            g == [q \in Readers |-> Stand(q)']
<1>1. \A q \in Readers : g[q] = [f EXCEPT ![r] = x][q]
  BY DEF OthersStand
<1>2. /\ g = [q \in Readers |-> g[q]]
      /\ [f EXCEPT ![r] = x] = [q \in Readers |-> [f EXCEPT ![r] = x][q]]
  OBVIOUS
<1>3. g = [f EXCEPT ![r] = x]
  <2>. HIDE DEF f, g
  <2>. QED  BY <1>1, <1>2
<1>. QED  BY <1>3

LEMMA JoinStream ==
  ASSUME NEW r \in Readers, OthersStand(r), num' = num, Stand(r) = Stream!Off,
         Stand(r)' = Stream!At(0, num + 1, {}, 0)
  PROVE  Stream!Next
<1>1. /\ [q \in Readers |-> Stand(q)][r] = Stream!Off
      /\ [q \in Readers |-> Stand(q)']
           = [[q \in Readers |-> Stand(q)] EXCEPT ![r] = Stream!At(0, num + 1, {}, 0)]
  BY OneStand
<1>2. Stream!Due(r, num + 1) = Stream!At(0, num + 1, {}, 0)
  BY <1>1 DEF Stream!Due, Stream!Off, Stream!At
<1>3. Stream!Join(r)
  BY <1>1, <1>2 DEF Stream!Join
<1>. QED  BY <1>3 DEF Stream!Next

\* The steps of a reader that stands at frame t, is due d, uses the calls in c
\* and has h in hand.
LEMMA ReaderStream ==
  ASSUME NEW r \in Readers, OthersStand(r), num' = num,
         NEW t, NEW d, NEW c, NEW h, Stand(r) = Stream!At(t, d, c, h),
         \/ Stand(r)' \in {Stand(r), Stream!Off}
         \/ h = 1 /\ Stand(r)' = Stream!At(d, d + 1, c, 0)
         \/ /\ h = 1 /\ c = {"GetResource"} /\ Stand(r)' = Stream!At(num, num + 1, c, 0)
            /\ num >= MaxEle /\ num % MaxEle < NearStart
         \/ h = 0 /\ c = {"GetPacket"} /\ num > 0 /\ Stand(r)' = Stream!At(t, num, c, h)
         \/ /\ h = 0 /\ d # 0
            /\ \E k \in {"GetResource", "GetPacket"}, g \in {0, 1} :
                 c \subseteq {k} /\ (g = 1 => d \in 1..num) /\ Stand(r)' = Stream!At(t, d, {k}, g)
  PROVE  Stream!Next
<1>1. /\ [q \in Readers |-> Stand(q)][r] = Stream!At(t, d, c, h)
      /\ \A x : Stand(r)' = x => [q \in Readers |-> Stand(q)']
                                 = [[q \in Readers |-> Stand(q)] EXCEPT ![r] = x]
  BY OneStand
<1>2. LET a == Stream!At(t, d, c, h) IN
      a.took = t /\ a.due = d /\ a.calls = c /\ a.hand = h /\ (d # 0 => a # Stream!Off)
  BY DEF Stream!At, Stream!Off
<1>3. \A n : /\ Stream!Took(r, n) = Stream!At(n, n + 1, c, 0)
             /\ Stream!Due(r, n) = Stream!At(t, n, c, h)
  BY <1>1, <1>2 DEF Stream!Took, Stream!Due
<1>4. CASE Stand(r)' \in {Stand(r), Stream!Off}
  <2>1. Stream!Lose
    BY <1>4, LoseStream DEF OthersStand
  <2>. QED  BY <2>1 DEF Stream!Next
<1>5. CASE h = 1 /\ Stand(r)' = Stream!At(d, d + 1, c, 0)
  <2>1. Stream!Deliver(r)
    BY <1>1, <1>2, <1>3, <1>5 DEF Stream!Deliver
  <2>. QED  BY <2>1 DEF Stream!Next
<1>6. CASE /\ h = 1 /\ c = {"GetResource"} /\ Stand(r)' = Stream!At(num, num + 1, c, 0)
           /\ num >= MaxEle /\ num % MaxEle < NearStart
  <2>1. Stream!Skip(r)
    BY <1>1, <1>2, <1>3, <1>6 DEF Stream!Skip
  <2>. QED  BY <2>1 DEF Stream!Next
<1>7. CASE h = 0 /\ c = {"GetPacket"} /\ num > 0 /\ Stand(r)' = Stream!At(t, num, c, h)
  <2>1. Stream!Turn(r)
    BY <1>1, <1>2, <1>3, <1>7 DEF Stream!Turn
  <2>. QED  BY <2>1 DEF Stream!Next
<1>8. ASSUME NEW k \in {"GetResource", "GetPacket"}, NEW g \in {0, 1}, h = 0, d # 0,
             c \subseteq {k}, g = 1 => d \in 1..num, Stand(r)' = Stream!At(t, d, {k}, g)
      PROVE  Stream!Next
  <2>1. Stream!Call(r, k)
    BY <1>1, <1>2, <1>8 DEF Stream!Call
  <2>. QED  BY <2>1 DEF Stream!Next
<1>. QED  BY <1>4, <1>5, <1>6, <1>7, <1>8

LEMMA LostStream ==
  ASSUME NEW r \in Readers, OthersStand(r), num' = num, Stand(r)' = Stream!Off
  PROVE  Stream!Next
<1>1. Stream!Lose
  BY LoseStream DEF OthersStand
<1>. QED  BY <1>1 DEF Stream!Next

LEMMA AddStream ==
  ASSUME num' = num + 1,
         \A r \in Readers :
           \/ Stand(r)' \in {Stand(r), Stream!Off}
           \/ /\ "GetPacket" \in Stand(r).calls
              /\ Stand(r).due + MaxEle = num + 2 - Stand(r).hand
              /\ Stand(r)' = Stream!At(Stand(r).took, Stand(r).due + MaxEle, Stand(r).calls,
                                       Stand(r).hand)
  PROVE  Stream!Add
<1>. DEFINE f    == [q \in Readers |-> Stand(q)]
            Lost == {r \in Readers : Stand(r)' = Stream!Off}
            Laps == {r \in Readers : Stand(r)' \notin {Stand(r), Stream!Off}}
<1>1. ASSUME NEW r \in Readers
      PROVE  /\ r \in Laps => Stream!Lapped(r)
             /\ Stand(r)' = IF r \in Lost THEN Stream!Off
                            ELSE IF r \in Laps THEN Stream!Due(r, f[r].due + MaxEle)
                            ELSE f[r]
  <2>1. f[r] = Stand(r)
    OBVIOUS
  <2>2. /\ Stream!Due(r, f[r].due + MaxEle)
             = Stream!At(Stand(r).took, Stand(r).due + MaxEle, Stand(r).calls, Stand(r).hand)
        /\ Stream!Lapped(r) <=> /\ "GetPacket" \in Stand(r).calls
                                /\ Stand(r).due + MaxEle = num + 2 - Stand(r).hand
    BY <2>1 DEF Stream!Due, Stream!Lapped
  <2>. HIDE DEF f
  <2>. QED  BY <2>1, <2>2
<1>2. Lost \in SUBSET Readers /\ Laps \in SUBSET {r \in Readers : Stream!Lapped(r)}
  BY <1>1
<1>3. [r \in Readers |-> Stand(r)']
        = [r \in Readers |-> IF r \in Lost THEN Stream!Off
                             ELSE IF r \in Laps THEN Stream!Due(r, f[r].due + MaxEle)
                             ELSE f[r]]
  <2>. HIDE DEF Lost, Laps, f
  <2>. QED  BY <1>1
<1>. HIDE DEF Lost, Laps
<1>. QED  BY <1>2, <1>3 DEF Stream!Add

--------------------------------------------------------------------------------
(* Steps of the pool.                                                        *)

LEMMA OneCallIs ==
  ASSUME Types, NEW r \in Readers, OneCall(r)
  PROVE  used[r] \in {{}, {"GetResource"}, {"GetPacket"}}
  BY DEF OneCall, Only

LEMMA FollowedIs ==
  ASSUME Types, AllMine, NEW r \in Readers, Followed(r)
  PROVE  uno[r] \in User /\ Place(r) \in Slot
<1>1. uno[r] \in User
  BY DEF Followed, AllMine, Mine
<1>. QED  BY <1>1 DEF Followed, Place, Types, UserTypes

\* With GetResource alone, the lag is what is pending.
LEMMA LagPending ==
  ASSUME Types, AllMine, AllReaders, NEW r \in Readers, steady[r], Only(r, "GetResource")
  PROVE  Lag(r) = Pending(r) /\ Pending(r) \in 0..MaxSem + 1 /\ Place(r) \in Slot /\ pc[r] # "take"
<1>1. /\ Place(r) \in Slot /\ Place(r) + Pending(r) \in {tail, tail + MaxEle}
      /\ "GetPacket" \notin used[r]
  BY DEF AllReaders, Reader, Counted, Only
<1>2. pc[r] # "take"
  BY <1>1 DEF AllReaders, Reader, Called, InPacket
<1>3. Pending(r) \in 0..MaxSem + 1
  <2>1. uno[r] \in User /\ sem[uno[r]] <= MaxSem
    BY DEF AllMine, Mine
  <2>. QED  BY <2>1, RingAssumption DEF Pending, InHand, Types, UserTypes
<1>4. /\ Place(r) \in Int /\ 0 <= Place(r) /\ Place(r) < MaxEle
      /\ tail \in Int /\ 0 <= tail /\ tail < MaxEle
  BY <1>1, RingIsThere DEF Types, RingTypes, Slot
<1>5. Lag(r) = IF Place(r) = tail THEN 0 ELSE IF Place(r) < tail THEN tail - Place(r)
                                              ELSE tail + MaxEle - Place(r)
  BY <1>2 DEF Lag, Back, Place
<1>. QED  BY <1>1, <1>2, <1>3, <1>4, <1>5, RingAssumption

\* A frame more makes every lag one longer, or laps the reader.
LEMMA StandAdd ==
  ASSUME Types, AllMine, AllReaders, AllStand, NEW need \in Needs, AddFits(need)
  PROVE  AllStand' /\ Stream!Add
<1>1. /\ tail' = (IF tail = MaxEle - 1 THEN 0 ELSE tail + 1) /\ num' = num + 1
      /\ tail \in Int /\ 0 <= tail /\ tail < MaxEle /\ num \in Nat
  <2>1. tail' = (IF tail = MaxEle - 1 THEN 0 ELSE tail + 1) /\ num' = num + 1
    BY AddFitsIs, RingSteps DEF Types, RingTypes
  <2>. QED  BY <2>1, RingIsThere DEF Types, RingTypes, Slot
<1>2. /\ UNCHANGED <<curele, uno, pc, cur, got, used>>
      /\ \A r \in Readers : steady'[r] => steady[r]
  BY DEF AddFits, SemAddAll
<1>3. InRing'
  BY <1>1, NumbersGoOn DEF AllStand, InRing
<1>4. ASSUME NEW r \in Readers, Place(r) \in Slot
      PROVE  /\ Lag(r) \in 0..MaxEle
             /\ \/ Lag(r)' = Lag(r) + 1
                \/ /\ Lag(r)' = Lag(r) + 1 - MaxEle
                   /\ Lag(r) = IF pc[r] = "take" THEN MaxEle ELSE MaxEle - 1
  <2>. DEFINE s == Place(r)
  <2>1. s \in Int /\ 0 <= s /\ s < MaxEle
    BY <1>4, RingIsThere DEF Slot
  <2>2. /\ Lag(r) = IF s = tail /\ pc[r] # "take" THEN 0
                    ELSE IF s < tail THEN tail - s ELSE tail + MaxEle - s
        /\ Lag(r)' = IF s = tail' /\ pc[r] # "take" THEN 0
                     ELSE IF s < tail' THEN tail' - s ELSE tail' + MaxEle - s
    BY <1>2 DEF Lag, Back, Place
  <2>. HIDE DEF s
  <2>. QED  BY <1>1, <2>1, <2>2, RingIsThere
<1>5. ASSUME NEW r \in Readers PROVE Standing(r)'
  <2>1. Standing(r) /\ Place(r)' = Place(r) /\ OneCall(r)' = OneCall(r)
    BY <1>2 DEF AllStand, Place, OneCall, Only
  <2>. QED  BY <1>1, <1>2, <1>4, <2>1, RingIsThere DEF Standing
<1>6. ASSUME NEW r \in Readers, Followed(r)'
      PROVE  \/ Stand(r)' = Stand(r)
             \/ /\ "GetPacket" \in Stand(r).calls
                /\ Stand(r).due + MaxEle = num + 2 - Stand(r).hand
                /\ Stand(r)' = Stream!At(Stand(r).took, Stand(r).due + MaxEle, Stand(r).calls,
                                         Stand(r).hand)
  <2>1. Followed(r) /\ steady[r] /\ OneCall(r)
    BY <1>2, <1>6 DEF Followed, OneCall, Only
  <2>2. Place(r) \in Slot
    BY <2>1, FollowedIs
  <2>3. /\ Stand(r) = Stream!At(got[r], num + 1 - Lag(r), used[r], Hand(r))
        /\ Stand(r)' = Stream!At(got[r], num + 2 - Lag(r)', used[r], Hand(r))
    <3>1. num' + 1 - Lag(r)' = num + 2 - Lag(r)'
      BY <1>1, <1>4, <2>2, RingIsThere
    <3>2. Hand(r)' = Hand(r)
      BY <1>2 DEF Hand
    <3>. QED  BY <1>2, <1>6, <2>1, <3>1, <3>2, StandIs DEF Next1
  <2>4. CASE Lag(r)' = Lag(r) + 1
    <3>1. num + 2 - Lag(r)' = num + 1 - Lag(r)
      BY <1>1, <1>4, <2>2, <2>4, RingIsThere
    <3>. QED  BY <2>3, <3>1
  <2>5. CASE /\ Lag(r)' = Lag(r) + 1 - MaxEle
             /\ Lag(r) = IF pc[r] = "take" THEN MaxEle ELSE MaxEle - 1
    <3>1. "GetPacket" \in used[r]
      <4>. SUFFICES ASSUME "GetPacket" \notin used[r] PROVE FALSE
        OBVIOUS
      <4>1. Only(r, "GetResource")
        BY UsedIs
      <4>. QED  BY <2>1, <2>5, <4>1, LagPending, RingAssumption
    <3>2. /\ num + 2 - Lag(r)' = (num + 1 - Lag(r)) + MaxEle
          /\ (num + 1 - Lag(r)) + MaxEle = num + 2 - Hand(r)
      <4>1. Hand(r) = IF pc[r] = "take" THEN 1 ELSE 0
        <5>1. pc[r] # "locked"
          <6>. SUFFICES ASSUME pc[r] = "locked" PROVE FALSE
            OBVIOUS
          <6>1. "GetResource" \in used[r]
            BY DEF AllReaders, Reader, Called
          <6>. QED  BY <2>1, <3>1, <6>1, OneCallIs
        <5>. QED  BY <5>1 DEF Hand
      <4>. QED  BY <1>1, <1>4, <2>2, <2>5, <4>1, RingIsThere
    <3>3. /\ Stand(r).took = got[r] /\ Stand(r).due = num + 1 - Lag(r)
          /\ Stand(r).calls = used[r] /\ Stand(r).hand = Hand(r)
      BY <2>3 DEF Stream!At
    <3>. QED  BY <2>3, <3>1, <3>2, <3>3
  <2>. QED  BY <1>4, <2>2, <2>4, <2>5
<1>7. Stream!Add
  BY <1>1, <1>6, StandIs, AddStream
<1>. QED  BY <1>3, <1>5, <1>7 DEF AllStand

\* A reader whose own variables and whose user a step leaves alone, unless the
\* step disturbs it.
LEMMA StandKept ==
  ASSUME NEW q \in Readers, Types, Standing(q), tail' = tail, num' = num,
         <<uno[q], pc[q], cur[q], got[q], used[q]>>' = <<uno[q], pc[q], cur[q], got[q], used[q]>>,
         steady'[q] => steady[q] /\ curele'[uno[q]] = curele[uno[q]]
  PROVE  /\ Standing(q)'
         /\ Stand(q)' \in {Stand(q), Stream!Off}
         /\ steady'[q] = steady[q] => Stand(q)' = Stand(q)
<1>1. steady[q] \in BOOLEAN /\ steady'[q] => steady[q]
  BY DEF Types, ReaderTypes
<1>2. CASE steady'[q]
  <2>1. /\ uno'[q] = uno[q] /\ pc'[q] = pc[q] /\ cur'[q] = cur[q] /\ got'[q] = got[q]
        /\ used'[q] = used[q] /\ steady[q] /\ curele'[uno'[q]] = curele[uno[q]]
    BY <1>1, <1>2
  <2>2. /\ Place(q)' = Place(q) /\ Lag(q)' = Lag(q) /\ OneCall(q)' = OneCall(q)
        /\ Hand(q)' = Hand(q) /\ (Followed(q)' <=> Followed(q))
    BY <1>2, <2>1 DEF Place, Lag, Back, OneCall, Only, Hand, Followed
  <2>3. Stand(q)' = Stand(q)
    BY <2>1, <2>2, StandIs DEF Next1
  <2>4. Standing(q)'
    BY <2>1, <2>2 DEF Standing
  <2>. QED  BY <2>3, <2>4
<1>3. CASE ~ steady'[q]
  <2>1. ~ Followed(q)' /\ Standing(q)' /\ (steady'[q] = steady[q] => ~ Followed(q))
    BY <1>3 DEF Followed, Standing
  <2>. QED  BY <2>1, StandIs
<1>. QED  BY <1>2, <1>3

\* A registration is a new reader of the stream, or one that is not followed.
LEMMA StandElse ==
  ASSUME Types, AllMine, AllReaders, AllStand, NEW r \in Readers, Else(r)
  PROVE  AllStand' /\ Stream!Next
<1>1. tail' = tail /\ num' = num
  BY DEF Else, Req, ReqFree, Crash, Leave, DelUsrByPid, ReActiveUsr, MvUsrPlace, ringVars
<1>2. InRing' /\ \A q \in Readers : Standing(q)
  BY <1>1 DEF AllStand, InRing
<1>3. CASE \A q \in Readers : Standing(q)' /\ Stand(q)' \in {Stand(q), Stream!Off}
  <2>1. Stream!Lose
    BY <1>1, <1>3, LoseStream
  <2>. QED  BY <1>2, <1>3, <2>1 DEF AllStand, Stream!Next
<1>4. ASSUME NEW u \in User, Req(r, u) PROVE AllStand' /\ Stream!Next
  <2>1. ASSUME NEW q \in Readers \ {r} PROVE Standing(q)' /\ Stand(q)' = Stand(q)
    <3>1. steady[q] => uno[q] # u /\ uno[q] \in User
      BY <1>4 DEF Req, NextUser, FreeUsers, AllMine, Mine
    <3>. QED  BY <1>1, <1>2, <1>4, <3>1, StandKept DEF Req, Types, UserTypes, ReaderTypes
  <2>2. /\ uno'[r] = u /\ pc'[r] = "idle" /\ got'[r] = 0 /\ used'[r] = {}
        /\ curele'[u] = tail /\ tail \in Slot /\ num \in Nat
    BY <1>4 DEF Req, Types, RingTypes, UserTypes, ReaderTypes
  <2>3. /\ Place(r)' = tail /\ Lag(r)' = 0 /\ num' + 1 - Lag(r)' = num + 1
        /\ Followed(r)' => Stand(r)' = Stream!At(0, num + 1, {}, 0)
    <3>1. Place(r)' = tail /\ Lag(r)' = 0 /\ num' + 1 - Lag(r)' = num + 1 /\ Hand(r)' = 0
      BY <1>1, <2>2 DEF Place, Lag, Hand
    <3>. QED  BY <2>2, <3>1, StandIs DEF Next1
  <2>4. Standing(r)'
    BY <1>1, <2>2, <2>3 DEF Standing
  <2>5. AllStand' /\ OthersStand(r)
    BY <1>2, <2>1, <2>4 DEF AllStand, OthersStand
  <2>6. Stand(r) = Stream!Off
    <3>1. NoUser \notin User /\ pc[r] = "out"
      BY <1>4 DEF User, NoUser, Req
    <3>2. ~ Followed(r)
      BY <3>1 DEF AllMine, Mine, Followed, Types, ReaderTypes
    <3>. QED  BY <3>2, StandIs
  <2>7. CASE Followed(r)'
    BY <1>1, <2>3, <2>5, <2>6, <2>7, JoinStream
  <2>8. CASE ~ Followed(r)'
    BY <1>1, <2>5, <2>8, StandIs, LostStream
  <2>. QED  BY <2>5, <2>7, <2>8
<1>5. CASE ReqFree(r) \/ Crash(r)
  <2>1. Leave(r) /\ Disturb(uno[r])
    BY <1>5 DEF ReqFree, Crash
  <2>2. ASSUME NEW q \in Readers \ {r}
        PROVE  Standing(q)' /\ Stand(q)' \in {Stand(q), Stream!Off}
    BY <1>1, <1>2, <2>1, StandKept DEF Leave, Disturb, Types, ReaderTypes
  <2>3. ~ steady'[r]
    BY <2>1 DEF Disturb, Types, ReaderTypes
  <2>4. Standing(r)' /\ Stand(r)' = Stream!Off
    BY <2>3, StandIs DEF Standing, Followed
  <2>. QED  BY <1>3, <2>2, <2>4
<1>6. CASE DelUsrByPid(r) \/ ReActiveUsr(r)
  <2>1. ASSUME NEW q \in Readers PROVE Standing(q)' /\ Stand(q)' \in {Stand(q), Stream!Off}
    BY <1>1, <1>2, <1>6, StandKept DEF DelUsrByPid, ReActiveUsr, Disturb, readerVars
  <2>. QED  BY <1>3, <2>1
<1>7. CASE MvUsrPlace(r)
  <2>1. PICK s : curele' = [curele EXCEPT ![uno[r]] = s]
    BY <1>7 DEF MvUsrPlace
  <2>2. ASSUME NEW q \in Readers PROVE Standing(q)' /\ Stand(q)' \in {Stand(q), Stream!Off}
    <3>1. steady'[q] => steady[q] /\ uno[q] # uno[r]
      BY <1>7 DEF MvUsrPlace, Disturb
    <3>2. steady'[q] => curele'[uno[q]] = curele[uno[q]]
      BY <2>1, <3>1 DEF AllMine, Mine, Types, UserTypes
    <3>. QED  BY <1>1, <1>2, <1>7, <3>1, <3>2, StandKept DEF MvUsrPlace
  <2>. QED  BY <1>3, <2>2
<1>. QED  BY <1>4, <1>5, <1>6, <1>7 DEF Else

LEMMA StandOthers ==
  ASSUME Types, AllMine, AllStand, NEW r \in Readers, Read(r)
  PROVE  /\ UNCHANGED ringVars /\ InRing' /\ OthersStand(r)
         /\ \A q \in Readers \ {r} : Standing(q)'
<1>1. Reading(r)
  BY ReadReads
<1>2. UNCHANGED ringVars /\ tail' = tail /\ num' = num
  BY <1>1 DEF Reading, ringVars
<1>3. ASSUME NEW q \in Readers \ {r} PROVE Stand(q)' = Stand(q) /\ Standing(q)'
  <2>1. /\ <<uno[q], pc[q], cur[q], got[q], used[q]>>' = <<uno[q], pc[q], cur[q], got[q], used[q]>>
        /\ steady'[q] = steady[q]
    BY <1>1 DEF Reading, Types, ReaderTypes
  <2>2. steady[q] => uno[q] \in User /\ uno[q] # uno[r]
    BY DEF AllMine, Mine
  <2>3. steady[q] => curele'[uno[q]] = curele[uno[q]]
    BY <1>1, <2>2 DEF Reading, Types, UserTypes
  <2>. QED  BY <1>2, <2>1, <2>3, StandKept DEF AllStand
<1>. QED  BY <1>2, <1>3 DEF AllStand, InRing, OthersStand

\* The steps of a call c before a frame is taken, when the place stays.
LEMMA StandCall ==
  ASSUME Types, AllMine, NEW r \in Readers, Standing(r), OthersStand(r), UNCHANGED ringVars,
         UNCHANGED <<curele, uno, got, steady>>,
         NEW c \in {"GetResource", "GetPacket"}, used' = [used EXCEPT ![r] = @ \cup {c}],
         pc[r] \notin {"locked", "take"},
         pc'[r] = "take" => Place(r) # tail /\ cur'[r] = Place(r),
         pc'[r] = "locked" /\ Followed(r)' => Lag(r) # 0,
         pc'[r] = "rewind" /\ steady[r] => Place(r) \in Slot
  PROVE  Standing(r)' /\ Stream!Next
<1>1. /\ tail' = tail /\ num' = num /\ Place(r)' = Place(r) /\ Lag(r)' = Lag(r)
      /\ used'[r] = used[r] \cup {c} /\ (OneCall(r)' => OneCall(r))
  BY DEF ringVars, Place, Lag, Back, Types, ReaderTypes, OneCall, Only
<1>2. Standing(r)'
  BY <1>1 DEF Standing
<1>3. CASE Followed(r)'
  <2>1. Followed(r) /\ steady[r] /\ OneCall(r) /\ used'[r] = {c} /\ used[r] \subseteq {c}
    <3>1. steady[r] /\ OneCall(r)' /\ curele[uno[r]] # BeforeRing
      BY <1>3 DEF Followed
    <3>2. used'[r] = {c} /\ used[r] \subseteq {c}
      BY <1>1, <3>1 DEF OneCall, Only
    <3>. QED  BY <1>1, <3>1, <3>2 DEF Followed
  <2>2. /\ Stand(r) = Stream!At(got[r], Next1(r), used[r], 0)
        /\ Stand(r)' = Stream!At(got[r], Next1(r), {c}, Hand(r)')
    <3>1. Hand(r) = 0 /\ Next1(r)' = Next1(r)
      BY <1>1 DEF Hand, Next1
    <3>. QED  BY <1>1, <1>3, <2>1, <3>1, StandIs
  <2>3. Next1(r) # 0 /\ (Lag(r) # 0 => Next1(r) \in 1..num)
    <3>1. Place(r) \in Slot
      BY <2>1, FollowedIs
    <3>2. Lag(r) \in 0..MaxEle /\ Lag(r) <= num /\ num \in Nat
      BY <2>1, <3>1, LagIs DEF Standing, Types, RingTypes
    <3>. QED  BY <3>2, RingIsThere DEF Next1
  <2>4. Hand(r)' \in {0, 1} /\ (Hand(r)' = 1 => Lag(r) # 0)
    <3>1. Place(r) \in Slot
      BY <2>1, FollowedIs
    <3>2. pc'[r] = "take" => Lag(r) # 0
      BY <3>1, LagIs
    <3>. QED  BY <1>3, <3>2 DEF Hand
  <2>. QED  BY <1>1, <1>2, <2>1, <2>2, <2>3, <2>4, ReaderStream
<1>4. CASE ~ Followed(r)'
  BY <1>1, <1>2, <1>4, StandIs, LostStream
<1>. QED  BY <1>2, <1>3, <1>4

\* A reader that takes the frame at its place s, or the newest one.
LEMMA TakesDue ==
  ASSUME Types, Numbered, NEW r \in Readers, NEW s \in Slot, uno[r] \in User,
         UNCHANGED ringVars, uno' = uno, curele' = [curele EXCEPT ![uno[r]] = NewerEle(s)],
         pc'[r] = "idle", Back(s) <= num
  PROVE  /\ Back(s) \in 1..MaxEle /\ Lag(r)' = Back(s) - 1 /\ Place(r)' = NewerEle(s)
         /\ Place(r)' \in Slot /\ eles[s].num = num - Back(s) + 1
<1>1. /\ s \in Int /\ 0 <= s /\ s < MaxEle /\ tail \in Int /\ 0 <= tail /\ tail < MaxEle
      /\ num \in Nat /\ tail' = tail /\ num' = num
  BY RingIsThere DEF Types, RingTypes, Slot, ringVars
<1>2. NewerEle(s) = (IF s = MaxEle - 1 THEN 0 ELSE s + 1) /\ NewerEle(s) \in Slot
  BY RingSteps
<1>3. Place(r)' = NewerEle(s)
  BY DEF Place, Types, UserTypes
<1>4. Lag(r)' = IF NewerEle(s) = tail THEN 0
                ELSE IF NewerEle(s) < tail THEN tail - NewerEle(s)
                     ELSE tail + MaxEle - NewerEle(s)
  BY <1>1, <1>3 DEF Lag, Back, Place
<1>5. Back(s) = IF s < tail THEN tail - s ELSE tail + MaxEle - s
  BY DEF Back
<1>6. Back(s) \in 1..MaxEle /\ Lag(r)' = Back(s) - 1
  BY <1>1, <1>2, <1>4, <1>5, RingIsThere
<1>7. eles[s].num = num - Back(s) + 1
  BY DEF Numbered
<1>. QED  BY <1>2, <1>3, <1>6, <1>7

\* GetResource takes the frame that is due; it skips to the newest only where the
\* numbers of the pool have been around, for else its place were ahead of the tail.
LEMMA StandResourceTake ==
  ASSUME Types, AllMine, AllReaders, Numbered, AllStand, NEW r \in Readers, OthersStand(r),
         UNCHANGED ringVars, ResourceTake(r)
  PROVE  Standing(r)' /\ Stream!Next
<1>1. /\ pc[r] = "locked" /\ "GetResource" \in used[r] /\ pc'[r] = "idle"
      /\ uno' = uno /\ used' = used /\ tail' = tail /\ num' = num
  <2>1. pc[r] = "locked" /\ pc' = [pc EXCEPT ![r] = "idle"] /\ UNCHANGED <<ringVars, uno, used>>
    BY DEF ResourceTake, Take
  <2>. QED  BY <2>1 DEF AllReaders, Reader, Called, Types, ReaderTypes, ringVars
<1>2. CASE steady'[r] /\ OneCall(r)'
  <2>1. steady[r] /\ used[r] = {"GetResource"} /\ Only(r, "GetResource")
    <3>1. steady[r]
      BY <1>2 DEF ResourceTake, Take, Types, ReaderTypes
    <3>2. used[r] = {"GetResource"} /\ Only(r, "GetResource")
      BY <1>1, <1>2 DEF OneCall, Only
    <3>. QED  BY <3>1, <3>2
  <2>. DEFINE c == Place(r)
              s == IF LooksNew(uno[r]) THEN Rewound ELSE c
  <2>2. /\ c \in Slot /\ uno[r] \in User /\ Lag(r) = Pending(r) /\ Pending(r) \in 1..MaxSem + 1
        /\ c # tail /\ Lag(r) = Back(c) /\ Lag(r) <= num /\ Followed(r) /\ num \in Nat
    <3>1. Lag(r) = Pending(r) /\ Pending(r) \in 0..MaxSem + 1 /\ c \in Slot /\ pc[r] # "take"
      BY <2>1, LagPending
    <3>2. uno[r] \in User /\ sem[uno[r]] \in Nat
      BY <2>1, RingAssumption DEF AllMine, Mine, Types, UserTypes
    <3>3. Pending(r) # 0
      BY <1>1, <3>2 DEF Pending, InHand
    <3>4. Followed(r)
      <4>1. c # BeforeRing
        BY <3>1, RingIsThere DEF Slot, BeforeRing
      <4>. QED  BY <2>1, <4>1 DEF Followed, OneCall, Place
    <3>5. Lag(r) <= num
      BY <2>1, <3>1 DEF AllStand, Standing, OneCall
    <3>6. c # tail /\ Lag(r) = Back(c)
      BY <3>1, <3>3, LagIs
    <3>7. Pending(r) \in 1..MaxSem + 1
      BY <3>1, <3>3, RingAssumption
    <3>. QED  BY <3>1, <3>2, <3>4, <3>5, <3>6, <3>7 DEF Types, RingTypes
  <2>3. /\ s \in Slot /\ curele' = [curele EXCEPT ![uno[r]] = NewerEle(s)]
        /\ got'[r] = eles[s].num
    <3>1. Take(r, s, s) /\ s \in Slot \cup {BeforeRing}
      <4>1. Rewound \in Slot \cup {BeforeRing}
        BY RingIsThere DEF Types, RingTypes, Rewound, Slot, BeforeRing
      <4>. QED  BY <2>2, <4>1 DEF ResourceTake, Finds, Place
    <3>2. s \in Slot /\ curele' = [curele EXCEPT ![uno[r]] = NewerEle(s)]
          /\ got' = [got EXCEPT ![r] = eles[s].num]
      <4>. HIDE DEF s
      <4>. QED  BY <1>2, <3>1 DEF Take, Types, ReaderTypes
    <3>. QED  BY <3>2 DEF Types, ReaderTypes
  <2>4. /\ c \in Int /\ 0 <= c /\ c < MaxEle /\ tail \in Int /\ 0 <= tail /\ tail < MaxEle
    BY <2>2, RingIsThere DEF Types, RingTypes, Slot
  <2>5. Back(s) <= num
    <3>1. LooksNew(uno[r]) => s = tail - 1 /\ Back(tail - 1) = 1
      BY <2>4 DEF Rewound, Back
    <3>. QED  BY <2>2, <3>1, RingAssumption
  <2>. HIDE DEF s
  <2>6. /\ Back(s) \in 1..MaxEle /\ Lag(r)' = Back(s) - 1 /\ Place(r)' \in Slot
        /\ eles[s].num = num - Back(s) + 1
    BY <1>1, <2>2, <2>3, <2>5, TakesDue
  <2>7. Standing(r)'
    BY <1>1, <2>2, <2>5, <2>6, RingIsThere DEF Standing
  <2>8. /\ Stand(r) = Stream!At(got[r], num + 1 - Lag(r), {"GetResource"}, 1)
        /\ Stand(r)' = Stream!At(num - Back(s) + 1, num + 1 - (Back(s) - 1), {"GetResource"}, 0)
    <3>1. Followed(r)'
      <4>1. Place(r)' # BeforeRing
        BY <2>6, RingIsThere DEF Slot, BeforeRing
      <4>. QED  BY <1>2, <4>1 DEF Followed, Place
    <3>2. Hand(r) = 1 /\ Hand(r)' = 0
      BY <1>1 DEF Hand
    <3>. QED  BY <1>1, <2>1, <2>2, <2>3, <2>6, <3>1, <3>2, StandIs DEF Next1
  <2>9. CASE ~ LooksNew(uno[r])
    <3>1. Back(s) = Lag(r)
      BY <2>2, <2>9 DEF s
    <3>2. /\ num - Back(s) + 1 = num + 1 - Lag(r)
          /\ num + 1 - (Back(s) - 1) = (num + 1 - Lag(r)) + 1
      BY <2>2, <2>6, <3>1, RingIsThere
    <3>. QED  BY <1>1, <2>7, <2>8, <3>2, ReaderStream
  <2>10. CASE LooksNew(uno[r])
    <3>1. Back(s) = 1
      BY <2>4, <2>10 DEF s, Rewound, Back
    <3>2. num - Back(s) + 1 = num /\ num + 1 - (Back(s) - 1) = num + 1
      BY <2>2, <3>1
    <3>3. num % MaxEle < NearStart
      BY <2>10 DEF LooksNew, AllStand, InRing
    <3>4. num >= MaxEle
      <4>. SUFFICES ASSUME num < MaxEle PROVE FALSE
        BY <2>2, RingIsThere
      <4>1. tail = num
        BY <2>2, RingIsThere DEF AllStand, InRing
      <4>2. c > tail
        BY <2>2, <2>4, <2>10 DEF LooksNew, Place
      <4>. QED  BY <2>2, <2>4, <4>1, <4>2, RingIsThere DEF Back
    <3>. QED  BY <1>1, <2>7, <2>8, <3>2, <3>3, <3>4, ReaderStream
  <2>. QED  BY <2>9, <2>10
<1>3. CASE ~ (steady'[r] /\ OneCall(r)')
  <2>1. Standing(r)' /\ Stand(r)' = Stream!Off
    BY <1>3, StandIs DEF Standing, Followed
  <2>. QED  BY <1>1, <2>1, LostStream
<1>. QED  BY <1>2, <1>3

LEMMA StandPacketTake ==
  ASSUME Types, AllMine, AllReaders, Numbered, AllStand, NEW r \in Readers, OthersStand(r),
         UNCHANGED ringVars, PacketTake(r)
  PROVE  Standing(r)' /\ Stream!Next
<1>1. /\ pc[r] = "take" /\ "GetPacket" \in used[r] /\ pc'[r] = "idle"
      /\ uno' = uno /\ used' = used /\ tail' = tail /\ num' = num /\ Take(r, cur[r], Place(r))
  BY DEF PacketTake, Take, Place, AllReaders, Reader, Called, InPacket, Types, ReaderTypes, ringVars
<1>2. CASE steady'[r] /\ OneCall(r)'
  <2>. DEFINE s == cur[r]
  <2>1. /\ steady[r] /\ s \in Slot /\ curele' = [curele EXCEPT ![uno[r]] = NewerEle(s)]
        /\ got' = [got EXCEPT ![r] = eles[s].num]
    BY <1>1, <1>2 DEF Take, Types, ReaderTypes
  <2>2. got'[r] = eles[s].num /\ uno[r] \in User /\ OneCall(r)
    BY <1>1, <1>2, <2>1 DEF OneCall, Only, AllMine, Mine, Types, ReaderTypes
  <2>3. s = Place(r) /\ Lag(r) <= num
    BY <1>1, <2>1, <2>2 DEF AllStand, Standing
  <2>4. Followed(r)
    <3>1. s # BeforeRing
      BY <2>1, RingIsThere DEF Slot, BeforeRing
    <3>. QED  BY <2>1, <2>2, <2>3, <3>1 DEF Followed, Place
  <2>5. Lag(r) = Back(s) /\ Lag(r) \in 1..MaxEle /\ num \in Nat
    <3>1. Lag(r) \in 0..MaxEle /\ Lag(r) # 0 /\ Lag(r) = Back(s)
      BY <1>1, <2>1, <2>3, LagIs
    <3>. QED  BY <3>1, RingIsThere DEF Types, RingTypes
  <2>. HIDE DEF s
  <2>6. /\ Lag(r)' = Back(s) - 1 /\ Place(r)' \in Slot /\ eles[s].num = num - Back(s) + 1
    BY <1>1, <2>1, <2>2, <2>3, <2>5, TakesDue
  <2>7. Standing(r)'
    BY <1>1, <2>3, <2>5, <2>6, RingIsThere DEF Standing
  <2>8. Followed(r)'
    <3>1. Place(r)' # BeforeRing
      BY <2>6, RingIsThere DEF Slot, BeforeRing
    <3>. QED  BY <1>2, <3>1 DEF Followed, Place
  <2>9. /\ num - Back(s) + 1 = num + 1 - Lag(r)
        /\ num + 1 - (Back(s) - 1) = (num + 1 - Lag(r)) + 1
        /\ Hand(r) = 1 /\ Hand(r)' = 0
    BY <1>1, <2>3, <2>5, RingIsThere DEF Hand
  <2>10. /\ Stand(r) = Stream!At(got[r], num + 1 - Lag(r), used[r], 1)
         /\ Stand(r)' = Stream!At(num + 1 - Lag(r), (num + 1 - Lag(r)) + 1, used[r], 0)
    BY <1>1, <2>2, <2>4, <2>6, <2>8, <2>9, StandIs DEF Next1
  <2>. QED  BY <1>1, <2>7, <2>9, <2>10, ReaderStream
<1>3. CASE ~ (steady'[r] /\ OneCall(r)')
  <2>1. Standing(r)' /\ Stand(r)' = Stream!Off
    BY <1>3, StandIs DEF Standing, Followed
  <2>. QED  BY <1>1, <2>1, LostStream
<1>. QED  BY <1>2, <1>3

LEMMA StandPacketRewind ==
  ASSUME Types, AllMine, AllReaders, AllStand, NEW r \in Readers, OthersStand(r),
         UNCHANGED ringVars, PacketRewind(r)
  PROVE  Standing(r)' /\ Stream!Next
<1>1. /\ pc[r] = "rewind" /\ "GetPacket" \in used[r] /\ pc'[r] = "drop"
      /\ UNCHANGED <<uno, got, steady, used>> /\ tail' = tail /\ num' = num
  BY DEF PacketRewind, Goes, AllReaders, Reader, Called, InPacket, Types, ReaderTypes, ringVars
<1>2. OneCall(r)' => OneCall(r)
  BY <1>1 DEF OneCall, Only
<1>3. steady[r] => Place(r)' = tail - 1
  BY <1>1 DEF PacketRewind, Rewound, Place, AllMine, Mine, Types, UserTypes
<1>4. tail \in Int /\ 0 <= tail /\ tail < MaxEle /\ num \in Nat /\ (tail > 0 => num > 0)
  <2>1. tail \in Int /\ 0 <= tail /\ tail < MaxEle /\ num \in Nat
    BY RingIsThere DEF Types, RingTypes, Slot
  <2>2. num = 0 => tail = 0
    BY RingIsThere DEF AllStand, InRing
  <2>. QED  BY <2>1, <2>2
<1>5. steady[r] /\ Place(r)' \in Slot => Lag(r)' = 1 /\ num > 0
  BY <1>1, <1>3, <1>4, RingIsThere DEF Lag, Back, Place, Slot
<1>6. Standing(r)'
  BY <1>1, <1>4, <1>5 DEF Standing
<1>7. CASE Followed(r)'
  <2>1. steady[r] /\ OneCall(r) /\ Place(r)' # BeforeRing
    BY <1>1, <1>2, <1>7 DEF Followed, Place
  <2>2. Place(r)' \in Slot
    BY <1>3, <1>4, <2>1, RingIsThere DEF Slot, BeforeRing
  <2>3. Place(r) \in Slot
    BY <1>1, <2>1 DEF AllStand, Standing
  <2>4. Followed(r)
    <3>1. Place(r) # BeforeRing
      BY <2>3, RingIsThere DEF Slot, BeforeRing
    <3>. QED  BY <2>1, <3>1 DEF Followed, Place
  <2>5. used[r] = {"GetPacket"}
    BY <1>1, <2>1, OneCallIs
  <2>6. /\ Stand(r) = Stream!At(got[r], Next1(r), used[r], 0)
        /\ Stand(r)' = Stream!At(got[r], num, used[r], 0)
    <3>1. Next1(r)' = num
      BY <1>1, <1>4, <1>5, <2>1, <2>2 DEF Next1
    <3>2. Hand(r) = 0 /\ Hand(r)' = 0
      BY <1>1 DEF Hand
    <3>. QED  BY <1>1, <1>7, <2>4, <3>1, <3>2, StandIs
  <2>. QED  BY <1>1, <1>5, <1>6, <2>1, <2>2, <2>5, <2>6, ReaderStream
<1>8. CASE ~ Followed(r)'
  BY <1>1, <1>6, <1>8, StandIs, LostStream
<1>. QED  BY <1>7, <1>8

LEMMA StandRead ==
  ASSUME Types, AllMine, AllReaders, Numbered, AllStand, NEW r \in Readers, Read(r)
  PROVE  AllStand' /\ Stream!Next
<1>1. /\ UNCHANGED ringVars /\ InRing' /\ OthersStand(r) /\ Standing(r)
      /\ \A q \in Readers \ {r} : Standing(q)'
  BY StandOthers DEF AllStand
<1>2. SUFFICES Standing(r)' /\ Stream!Next
  BY <1>1 DEF AllStand
<1>3. /\ pc \in [Readers -> Step] /\ cur \in [Readers -> Slot \cup {BeforeRing}]
      /\ tail \in Slot
  BY DEF Types, ReaderTypes, RingTypes
<1>4. ASSUME "GetPacket" \in used[r] PROVE used = [used EXCEPT ![r] = @ \cup {"GetPacket"}]
  BY <1>4 DEF Types, ReaderTypes
<1>5. pc[r] \in InPacket => "GetPacket" \in used[r]
  BY DEF AllReaders, Reader, Called
<1>6. ASSUME PacketTest(r)
      PROVE  /\ pc'[r] \in {"wait", "take"}
             /\ pc'[r] = "take" => Place(r) # tail /\ cur'[r] = Place(r)
  BY <1>3, <1>6 DEF PacketTest, Place
<1>7. CASE ResourceSem(r)
  <2>1. pc[r] = "idle" /\ pc'[r] = "locked" /\ UNCHANGED <<curele, uno, got, steady>>
    BY <1>3, <1>7 DEF ResourceSem
  <2>2. ASSUME Followed(r)' PROVE Lag(r) # 0
    <3>1. steady[r] /\ Only(r, "GetResource")
      BY <1>7, <2>1, <2>2 DEF ResourceSem, Followed, OneCall, Only, Types, ReaderTypes
    <3>2. Lag(r) = Pending(r) /\ sem[uno[r]] > 0 /\ sem[uno[r]] \in Nat
      BY <1>7, <3>1, LagPending, RingAssumption
         DEF ResourceSem, AllMine, Mine, Types, UserTypes
    <3>. QED  BY <2>1, <3>2 DEF Pending, InHand
  <2>. QED  BY <1>1, <1>7, <2>1, <2>2, StandCall DEF ResourceSem
<1>8. CASE PacketCall(r)
  <2>1. pc[r] = "idle" /\ PacketTest(r) /\ UNCHANGED <<curele, uno, got, steady>>
    BY <1>8 DEF PacketCall, userVars
  <2>. QED  BY <1>1, <1>6, <1>8, <2>1, StandCall DEF PacketCall
<1>9. CASE PacketSem(r) \/ PacketZero(r) \/ PacketDrop(r)
  <2>1. /\ pc[r] \in InPacket /\ pc[r] \notin {"locked", "take"}
        /\ pc'[r] \in {"zero", "peek", "loop"}
        /\ UNCHANGED <<curele, uno, got, steady, used>>
    BY <1>3, <1>9 DEF PacketSem, PacketZero, PacketDrop, Goes, InPacket
  <2>. QED  BY <1>1, <1>4, <1>5, <2>1, StandCall
<1>10. CASE PacketPeek(r)
  <2>1. /\ pc[r] \in InPacket /\ pc[r] \notin {"locked", "take"}
        /\ pc'[r] \in {"near", "behind", "loop", "rewind"}
        /\ pc'[r] = "rewind" => curele[uno[r]] >= tail
        /\ UNCHANGED <<curele, uno, got, steady, used>>
    BY <1>3, <1>10 DEF PacketPeek, Goes, InPacket, userVars
  <2>2. ASSUME steady[r], pc'[r] = "rewind" PROVE Place(r) \in Slot
    <3>1. Place(r) \in Slot \cup {BeforeRing} /\ Place(r) >= tail
      BY <2>1, <2>2 DEF Place, AllMine, Mine, Types, UserTypes
    <3>. QED  BY <1>3, <3>1, RingIsThere DEF Slot, BeforeRing
  <2>. QED  BY <1>1, <1>4, <1>5, <2>1, <2>2, StandCall
<1>11. CASE PacketLoop(r)
  <2>1. /\ pc[r] \in InPacket /\ pc[r] \notin {"locked", "take"} /\ PacketTest(r)
        /\ UNCHANGED <<curele, uno, got, steady, used>>
    BY <1>11 DEF PacketLoop, InPacket, userVars
  <2>. QED  BY <1>1, <1>4, <1>5, <1>6, <2>1, StandCall
<1>12. CASE ResourceTake(r) \/ PacketTake(r) \/ PacketRewind(r)
  BY <1>1, <1>12, StandResourceTake, StandPacketTake, StandPacketRewind
<1>. QED  BY <1>7, <1>8, <1>9, <1>10, <1>11, <1>12 DEF Read, Packet

LEMMA StandNext ==
  Types /\ AllMine /\ AllReaders /\ Numbered /\ AllStand /\ [Next]_vars
    => AllStand' /\ [Stream!Next]_(Stream!vars)
<1>. SUFFICES ASSUME Types, AllMine, AllReaders, Numbered, AllStand, [Next]_vars
              PROVE  AllStand' /\ [Stream!Next]_(Stream!vars)
  OBVIOUS
<1>1. CASE UNCHANGED <<tail, num, userVars, readerVars>>
  <2>1. ASSUME NEW q \in Readers PROVE Standing(q)' /\ Stand(q)' = Stand(q)
    BY <1>1, StandKept DEF AllStand, userVars, readerVars
  <2>2. AllStand'
    BY <1>1, <2>1 DEF AllStand, InRing
  <2>3. UNCHANGED Stream!vars
    BY <1>1, <2>1 DEF Stream!vars
  <2>. QED  BY <2>2, <2>3
<1>2. CASE Create
  <2>1. num' = 0 /\ tail' = 0 /\ \A q \in Readers : ~ steady'[q]
    BY <1>2 DEF Create
  <2>2. \A q \in Readers : Standing(q)' /\ Stand(q)' = Stream!Off
    BY <2>1, StandIs DEF Standing, Followed
  <2>3. AllStand'
    BY <2>1, <2>2, RingIsThere DEF AllStand, InRing
  <2>4. Stream!Restart
    BY <2>1, <2>2 DEF Stream!Restart
  <2>. QED  BY <2>3, <2>4 DEF Stream!Next
<1>3. ASSUME NEW need \in Needs, AddFits(need) PROVE AllStand' /\ Stream!Next
  BY <1>3, StandAdd DEF Stream!Next
<1>4. ASSUME NEW need \in Needs, AddFails(need)
      PROVE  UNCHANGED <<tail, num, userVars, readerVars>>
  BY <1>4 DEF AddFails
<1>5. ASSUME UNCHANGED vars PROVE UNCHANGED <<tail, num, userVars, readerVars>>
  BY <1>5 DEF vars, ringVars
<1>. QED  BY <1>1, <1>2, <1>3, <1>4, <1>5, NextIs, StandElse, StandRead

\* A reader is given each frame in its turn, whatever else happens to the pool,
\* except where the pool looks new or has lapped it: the pool implements FrameStream.
THEOREM PoolStreams == Spec => FramesInTurn
<1>1. Init => AllStand /\ Stream!Init
  BY StandInit
<1>2. Types /\ AllMine /\ Numbered /\ AllReaders /\ AllStand /\ [Next]_vars
        => AllStand' /\ [Stream!Next]_(Stream!vars)
  BY StandNext
<1>. QED  BY <1>1, <1>2, ReadersInvariant, PTL DEF Spec, FramesInTurn, Stream!Spec

--------------------------------------------------------------------------------
(* The blocks.                                                               *)

\* From fbstart on, the ring of blocks has the free ones, and then those of the
\* elements from the oldest to the newest.
Around(b, o) == (b + o) % TBlocks
Laid ==
  /\ data \in [Block -> Nat]
  /\ fblocks \in 1..TBlocks /\ fblocks + Held(count) = TBlocks
  /\ \A i \in 0..count - 1 : eles[Nth(i)].bblock = Around(fbstart, fblocks + Held(i))
  /\ \A s \in Slot : eles[s].blocks > 0 => \E i \in 0..count - 1 : s = Nth(i)

LEMMA AroundIs ==
  ASSUME NEW b \in Block, NEW o \in 0..TBlocks
  PROVE  /\ Around(b, o) = (IF b + o < TBlocks THEN b + o ELSE b + o - TBlocks)
         /\ Around(b, o) \in Block
  BY BlocksAssumption DEF Around, Block

LEMMA AroundTwice ==
  ASSUME NEW b \in Block, NEW o \in 0..TBlocks, NEW p \in 0..TBlocks, o + p <= TBlocks
  PROVE  Around(Around(b, o), p) = Around(b, o + p)
<1>1. o + p \in 0..TBlocks /\ TBlocks \in Nat
  BY BlocksAssumption
<1>2. /\ Around(b, o) = (IF b + o < TBlocks THEN b + o ELSE b + o - TBlocks)
      /\ Around(b, o) \in Block
      /\ Around(b, o + p) = (IF b + (o + p) < TBlocks THEN b + (o + p) ELSE b + (o + p) - TBlocks)
  BY <1>1, AroundIs
<1>3. Around(Around(b, o), p)
        = (IF Around(b, o) + p < TBlocks THEN Around(b, o) + p ELSE Around(b, o) + p - TBlocks)
  BY <1>2, AroundIs
<1>. QED  BY <1>1, <1>2, <1>3 DEF Block

\* How far a block is from where the frame is written.
LEMMA AroundBack ==
  ASSUME NEW b \in Block, NEW o \in 0..TBlocks - 1
  PROVE  (Around(b, o) + TBlocks - b) % TBlocks = o
<1>1. TBlocks \in Nat \ {0} /\ o \in 0..TBlocks /\ b \in Nat /\ b < TBlocks
  BY BlocksAssumption DEF Block
<1>2. Around(b, o) = (IF b + o < TBlocks THEN b + o ELSE b + o - TBlocks)
  BY <1>1, AroundIs
<1>3. Around(b, o) + TBlocks - b = o + TBlocks \/ Around(b, o) + TBlocks - b = o
  BY <1>1, <1>2
<1>4. o % TBlocks = o /\ (o + TBlocks) % TBlocks = o
  BY <1>1
<1>. QED  BY <1>3, <1>4

\* The place of an element, for any head.
LEMMA PlaceIs ==
  ASSUME NEW h \in Slot, NEW i \in 0..MaxEle
  PROVE  /\ (h + i) % MaxEle = (IF h + i < MaxEle THEN h + i ELSE h + i - MaxEle)
         /\ (h + i) % MaxEle \in Slot
  BY RingIsThere DEF Slot

LEMMA SizesType ==
  ASSUME RingTypes
  PROVE  Sizes \in [0..MaxEle - 1 -> Nat]
<1>1. ASSUME NEW i \in 0..MaxEle - 1 PROVE eles[Nth(i)].blocks \in Nat
  <2>1. Nth(i) \in Slot
    BY NthIs, RingIsThere DEF RingTypes
  <2>. QED  BY <2>1 DEF RingTypes
<1>. QED  BY <1>1 DEF Sizes

LEMMA SizesTypeNext ==
  ASSUME RingTypes'
  PROVE  Sizes' \in [0..MaxEle - 1 -> Nat]
<1>1. ASSUME NEW i \in 0..MaxEle - 1 PROVE eles'[(head' + i) % MaxEle].blocks \in Nat
  <2>1. i \in 0..MaxEle /\ head' \in Slot
    BY RingIsThere DEF RingTypes
  <2>2. (head' + i) % MaxEle \in Slot
    BY <2>1, PlaceIs
  <2>. QED  BY <2>2 DEF RingTypes
<1>. QED  BY <1>1 DEF Sizes, Nth

LEMMA HeldIs ==
  ASSUME RingTypes
  PROVE  /\ Held(0) = 0 /\ \A k \in 0..MaxEle : Held(k) \in Nat
         /\ \A k \in 0..MaxEle - 1 : Held(k + 1) = Held(k) + eles[Nth(k)].blocks
         /\ \A j, k \in 0..MaxEle : j <= k => Held(j) <= Held(k)
<1>1. Sizes \in [0..MaxEle - 1 -> Nat]
  BY SizesType
<1>2. \A k \in 0..MaxEle - 1 : Sizes[k] = eles[Nth(k)].blocks
  BY DEF Sizes
<1>. QED  BY <1>1, <1>2, TotalIs, TotalRises DEF Held

\* Room for a frame is more than the frame, or none is added.
LEMMA RoomIs ==
  ASSUME RingTypes, fblocks \in Nat, NEW need \in Needs, Fits(need)
  PROVE  fblocks + Held(Drops(need)) > need
<1>1. need \in Nat /\ need >= 1 /\ count \in Nat
  BY BlocksAssumption DEF RingTypes
<1>2. CASE fblocks > need
  <2>1. Held(0) = 0
    BY HeldIs
  <2>. QED  BY <1>1, <1>2, <2>1 DEF Drops
<1>3. CASE ~ (fblocks > need)
  <2>. DEFINE S == {k \in 0..count : EnoughFor(need, k)} \cup {count}
  <2>1. Min(S) \in S
    BY <1>1, MinIn
  <2>2. \A k \in S : EnoughFor(need, k) /\ k \in 0..count
    <3>1. EnoughFor(need, count) /\ count \in 0..count
      BY <1>1, <1>3 DEF Fits
    <3>. QED  BY <3>1
  <2>3. Drops(need) = Min(S)
    BY <1>3 DEF Drops
  <2>. HIDE DEF S
  <2>4. fblocks + Held(Drops(need)) >= need * 2 /\ Drops(need) \in 0..count
    BY <2>1, <2>2, <2>3 DEF EnoughFor
  <2>5. Held(Drops(need)) \in Nat
    <3>1. Drops(need) \in 0..MaxEle
      BY <2>4, RingIsThere DEF RingTypes
    <3>. QED  BY <3>1, HeldIs
  <2>. QED  BY <1>1, <2>4, <2>5
<1>. QED  BY <1>2, <1>3

\* The elements in the ring, by age.
LEMMA NthOnce ==
  ASSUME RingTypes
  PROVE  /\ Nth(count) = tail
         /\ \A i, j \in 0..count : i # j => Nth(i) # Nth(j)
<1>1. /\ MaxEle \in Nat /\ count \in 0..MaxEle - 1 /\ head \in 0..MaxEle - 1
      /\ tail \in 0..MaxEle - 1
      /\ count = IF head <= tail THEN tail - head ELSE tail + MaxEle - head
  BY RingIsThere DEF RingTypes, Slot
<1>2. \A i \in 0..count : Nth(i) = IF head + i < MaxEle THEN head + i ELSE head + i - MaxEle
  <2>1. ASSUME NEW i \in 0..count PROVE i \in 0..MaxEle
    BY <1>1
  <2>. QED  BY <2>1, NthIs DEF RingTypes
<1>. QED  BY <1>1, <1>2

\* What an add leaves: the elements from the k-th on, and the new one behind them.
LEMMA AddLeaves ==
  ASSUME RingTypes, NEW need \in Needs, AddFits(need)
  PROVE  /\ Gone(need) \in 0..count /\ count' = (count - Gone(need)) + 1
         /\ \A i \in 0..count - Gone(need) : (head' + i) % MaxEle = Nth(Gone(need) + i)
         /\ \A i \in 0..(count - Gone(need)) - 1 : eles'[Nth(Gone(need) + i)] = eles[Nth(Gone(need) + i)]
         /\ eles'[tail] = [num |-> num + 1, blocks |-> need, bblock |-> fbstart]
         /\ \A s \in Slot :
              s # tail => \/ eles'[s].blocks = 0
                          \/ eles'[s] = eles[s] /\ \A i \in 0..Gone(need) - 1 : s # Nth(i)
<1>. DEFINE k == Gone(need)
<1>1. /\ head' = Nth(k) /\ count' = count + 1 - k
      /\ eles' = [Without(k) EXCEPT ![tail] =
                    [num |-> num + 1, blocks |-> need, bblock |-> fbstart]]
  BY DEF AddFits, Gone
<1>2. /\ k \in 0..count /\ count \in 0..MaxEle - 1 /\ tail \in Slot /\ head \in Slot
      /\ MaxEle \in Nat
  BY GoneIs, RingIsThere DEF RingTypes
<1>. HIDE DEF k
<1>3. ASSUME NEW i \in 0..count - k PROVE (head' + i) % MaxEle = Nth(k + i)
  <2>1. k \in 0..MaxEle /\ i \in 0..MaxEle /\ k + i \in 0..MaxEle /\ k + i < MaxEle
    BY <1>2
  <2>2. /\ Nth(k) \in Slot
        /\ Nth(k) = IF head + k < MaxEle THEN head + k ELSE head + k - MaxEle
        /\ Nth(k + i) = IF head + (k + i) < MaxEle THEN head + (k + i)
                        ELSE head + (k + i) - MaxEle
    BY <1>2, <2>1, NthIs
  <2>3. (head' + i) % MaxEle = IF head' + i < MaxEle THEN head' + i ELSE head' + i - MaxEle
    BY <1>1, <2>1, <2>2, PlaceIs
  <2>. QED  BY <1>1, <1>2, <2>1, <2>2, <2>3 DEF Slot
<1>4. eles'[tail] = [num |-> num + 1, blocks |-> need, bblock |-> fbstart]
  <2>1. Without(k) \in [Slot -> [num : Nat, blocks : Nat, bblock : Block]]
    BY WithoutIs
  <2>. QED  BY <1>1, <1>2, <2>1
<1>5. \A s \in Slot : s # tail => eles'[s] = Without(k)[s]
  BY <1>1 DEF Without
<1>6. ASSUME NEW i \in 0..(count - k) - 1 PROVE eles'[Nth(k + i)] = eles[Nth(k + i)]
  <2>1. k + i \in 0..count /\ k + i # count /\ k + i \in 0..MaxEle
    BY <1>2
  <2>2. Nth(k + i) # tail /\ Nth(k + i) \in Slot
    BY <1>2, <2>1, NthOnce, NthIs
  <2>3. \A j \in 0..k - 1 : Nth(k + i) # Nth(j)
    <3>1. ASSUME NEW j \in 0..k - 1 PROVE j \in 0..count /\ j # k + i /\ count \in 0..count
      BY <1>2
    <3>. QED  BY <2>1, <3>1, NthOnce
  <2>. QED  BY <1>5, <2>2, <2>3 DEF Without
<1>7. ASSUME NEW s \in Slot, s # tail
      PROVE  \/ eles'[s].blocks = 0
             \/ eles'[s] = eles[s] /\ \A i \in 0..k - 1 : s # Nth(i)
  <2>1. CASE \E i \in 0..k - 1 : s = Nth(i)
    <3>1. eles'[s] = [eles[s] EXCEPT !.blocks = 0]
      BY <1>5, <1>7, <2>1 DEF Without
    <3>2. eles[s] \in [num : Nat, blocks : Nat, bblock : Block]
      BY DEF RingTypes
    <3>. QED  BY <3>1, <3>2
  <2>2. CASE ~ \E i \in 0..k - 1 : s = Nth(i)
    BY <1>5, <1>7, <2>2 DEF Without
  <2>. QED  BY <2>1, <2>2
<1>8. count' = (count - k) + 1
  BY <1>1, <1>2
<1>. QED  BY <1>2, <1>3, <1>4, <1>6, <1>7, <1>8 DEF k

\* Their sums.
LEMMA AddHeld ==
  ASSUME RingTypes, NEW need \in Needs, AddFits(need)
  PROVE  /\ \A i \in 0..count - Gone(need) :
              /\ Total(Sizes', i) \in Nat
              /\ Held(Gone(need) + i) = Held(Gone(need)) + Total(Sizes', i)
         /\ Held(count)' = Total(Sizes', count - Gone(need)) + need
<1>. DEFINE k == Gone(need)
            n == count - k
            b == Sizes
            c == Sizes'
<1>1. /\ k \in 0..count /\ count' = n + 1
      /\ \A i \in 0..n : (head' + i) % MaxEle = Nth(k + i)
      /\ \A i \in 0..n - 1 : eles'[Nth(k + i)] = eles[Nth(k + i)]
      /\ eles'[tail].blocks = need
  <2>1. k \in 0..count /\ count' = n + 1
    BY AddLeaves
  <2>2. \A i \in 0..n : (head' + i) % MaxEle = Nth(k + i)
    BY AddLeaves
  <2>3. \A i \in 0..n - 1 : eles'[Nth(k + i)] = eles[Nth(k + i)]
    BY AddLeaves
  <2>4. eles'[tail].blocks = need
    <3>1. eles'[tail] = [num |-> num + 1, blocks |-> need, bblock |-> fbstart]
      BY AddLeaves
    <3>. QED  BY <3>1
  <2>. QED  BY <2>1, <2>2, <2>3, <2>4
<1>. HIDE DEF k
<1>2. /\ k \in 0..count /\ count \in 0..MaxEle - 1 /\ MaxEle \in Nat /\ n \in 0..MaxEle - 1
      /\ k + n = count /\ n \in Nat /\ k \in Nat /\ need \in Nat
  BY <1>1, RingIsThere, BlocksAssumption DEF RingTypes
<1>3. RingTypes'
  BY AddFitsIs
<1>4. b \in [0..MaxEle - 1 -> Nat]
  BY SizesType
<1>5. c \in [0..MaxEle - 1 -> Nat]
  BY <1>3, SizesTypeNext
<1>6. ASSUME NEW i \in 0..n - 1 PROVE c[i] = b[k + i]
  <2>1. i \in 0..MaxEle - 1 /\ k + i \in 0..MaxEle - 1 /\ i \in 0..n
    BY <1>2
  <2>2. c[i] = eles'[(head' + i) % MaxEle].blocks /\ b[k + i] = eles[Nth(k + i)].blocks
    BY <2>1 DEF Sizes, Nth
  <2>. QED  BY <1>1, <2>1, <2>2
<1>7. c[n] = need
  <2>1. c[n] = eles'[(head' + n) % MaxEle].blocks
    BY <1>2 DEF Sizes, Nth
  <2>2. (head' + n) % MaxEle = tail
    <3>1. n \in 0..n
      BY <1>2
    <3>. QED  BY <1>1, <1>2, <3>1, NthOnce
  <2>. QED  BY <1>1, <2>1, <2>2
<1>. HIDE DEF b, c, n
<1>8. ASSUME NEW i \in 0..n PROVE Total(b, k + i) = Total(b, k) + Total(c, i)
  <2>1. k + n <= MaxEle /\ \A j \in 0..n - 1 : c[j] = b[k + j]
    BY <1>2, <1>6
  <2>2. k \in Nat /\ n \in Nat
    BY <1>2
  <2>. QED  BY <1>4, <1>5, <2>1, <2>2, TotalMoves
<1>9. \A i \in 0..n : Total(c, i) \in Nat
  <2>1. ASSUME NEW i \in 0..n PROVE i \in 0..MaxEle
    BY <1>2
  <2>. QED  BY <1>5, <2>1, TotalIs
<1>10. Total(c, n + 1) = Total(c, n) + need
  BY <1>2, <1>5, <1>7, TotalIs
<1>11. Held(count)' = Total(c, n + 1) /\ \A i : Held(i) = Total(b, i)
  BY <1>1 DEF Held, b, c
<1>12. ASSUME NEW i \in 0..n
       PROVE  Total(c, i) \in Nat /\ Held(k + i) = Held(k) + Total(c, i)
  BY <1>8, <1>9, <1>11
<1>13. Held(count)' = Total(c, n) + need
  BY <1>10, <1>11
<1>. QED  BY <1>12, <1>13 DEF n, k, c

LEMMA LaidAdd ==
  ASSUME RingTypes, Laid, NEW need \in Needs, AddFits(need)
  PROVE  Laid'
<1>. DEFINE k == Gone(need)
            n == count - k
            c == Sizes'
<1>1. /\ need \in 1..TBlocks /\ TBlocks \in Nat /\ fbstart \in Block /\ count \in 0..MaxEle - 1
      /\ MaxEle \in Nat
  BY BlocksAssumption, RingIsThere DEF RingTypes
<1>2. /\ fbstart' = Around(fbstart, need) /\ fblocks' = fblocks + Held(k) - need
      /\ Fits(need) /\ num' = num + 1
      /\ data' = [b \in Block |->
                    IF (b + TBlocks - fbstart) % TBlocks < need THEN num + 1 ELSE data[b]]
  BY DEF AddFits, Gone, Around
<1>3. k \in 0..count /\ count' = n + 1
  BY AddLeaves
<1>4. /\ k \in 0..count /\ n \in 0..count /\ k + n = count /\ n \in Nat
      /\ Drops(need) \in 0..count /\ Drops(need) <= k
      /\ count \in 0..MaxEle /\ k \in 0..MaxEle /\ Drops(need) \in 0..MaxEle
  BY <1>1, <1>3, GoneIs
<1>5. /\ \A i \in 0..n : Total(c, i) \in Nat /\ Held(k + i) = Held(k) + Total(c, i)
      /\ Held(count)' = Total(c, n) + need
  BY AddHeld
<1>6. /\ \A i \in 0..n : (head' + i) % MaxEle = Nth(k + i)
      /\ \A i \in 0..n - 1 : eles'[Nth(k + i)] = eles[Nth(k + i)]
      /\ \A s \in Slot : s # tail => \/ eles'[s].blocks = 0
                                     \/ /\ eles'[s] = eles[s]
                                        /\ \A i \in 0..k - 1 : s # Nth(i)
  <2>1. \A i \in 0..n : (head' + i) % MaxEle = Nth(k + i)
    BY AddLeaves
  <2>2. \A i \in 0..n - 1 : eles'[Nth(k + i)] = eles[Nth(k + i)]
    BY AddLeaves
  <2>3. \A s \in Slot : s # tail => \/ eles'[s].blocks = 0
                                     \/ /\ eles'[s] = eles[s]
                                        /\ \A i \in 0..k - 1 : s # Nth(i)
    BY AddLeaves
  <2>. QED  BY <2>1, <2>2, <2>3
<1>7. eles'[tail].bblock = fbstart
  <2>1. eles'[tail] = [num |-> num + 1, blocks |-> need, bblock |-> fbstart]
    BY AddLeaves
  <2>. QED  BY <2>1
<1>. HIDE DEF k, c
<1>8. /\ Held(k) \in Nat /\ Held(count) \in Nat /\ Held(Drops(need)) \in Nat
      /\ Held(Drops(need)) <= Held(k) /\ Held(k) <= Held(count)
  BY <1>4, HeldIs
<1>9. fblocks \in 1..TBlocks /\ fblocks + Held(count) = TBlocks /\ fblocks + Held(k) > need
  <2>1. fblocks \in 1..TBlocks /\ fblocks + Held(count) = TBlocks /\ fblocks \in Nat
    BY DEF Laid
  <2>2. fblocks + Held(Drops(need)) > need
    BY <1>2, <2>1, RoomIs
  <2>. QED  BY <1>1, <1>8, <2>1, <2>2
<1>10. Total(c, n) \in Nat /\ Held(count) = Held(k) + Total(c, n)
  BY <1>4, <1>5
<1>11. fblocks' \in 1..TBlocks /\ fblocks' + Held(count)' = TBlocks
  BY <1>1, <1>2, <1>5, <1>8, <1>9, <1>10
<1>12. data' \in [Block -> Nat]
  BY <1>2 DEF Laid, RingTypes
<1>13. ASSUME NEW i \in 0..n
      PROVE  eles'[(head' + i) % MaxEle].bblock = Around(fbstart', fblocks' + Total(c, i))
  <2>1. Total(c, i) \in Nat /\ Held(k + i) = Held(k) + Total(c, i) /\ (head' + i) % MaxEle = Nth(k + i)
    BY <1>5, <1>6
  <2>2. k + i \in 0..count /\ k + i \in 0..MaxEle
    BY <1>1, <1>4
  <2>3. Held(k + i) \in Nat /\ Held(k + i) <= Held(count)
    BY <1>4, <2>2, HeldIs
  <2>. DEFINE o == fblocks + Held(k + i)
  <2>4. /\ o \in 0..TBlocks /\ o - need \in 0..TBlocks /\ need + (o - need) = o
        /\ fblocks' + Total(c, i) = o - need /\ need \in 0..TBlocks
    BY <1>1, <1>2, <1>8, <1>9, <2>1, <2>3
  <2>. HIDE DEF o
  <2>5. Around(fbstart', fblocks' + Total(c, i)) = Around(fbstart, o)
    BY <1>1, <1>2, <2>4, AroundTwice
  <2>6. CASE i < n
    <3>1. i \in 0..n - 1 /\ k + i \in 0..count - 1
      BY <1>4, <2>6
    <3>2. eles'[Nth(k + i)] = eles[Nth(k + i)]
      BY <1>6, <3>1
    <3>3. eles[Nth(k + i)].bblock = Around(fbstart, o)
      BY <3>1 DEF Laid, o
    <3>. QED  BY <2>1, <2>5, <3>2, <3>3
  <2>7. CASE ~ (i < n)
    <3>1. k + i = count
      BY <1>4, <2>7
    <3>2. (head' + i) % MaxEle = tail /\ eles'[tail].bblock = fbstart
      BY <1>7, <2>1, <3>1, NthOnce
    <3>3. o = TBlocks
      BY <1>9, <3>1 DEF o
    <3>4. Around(fbstart, TBlocks) = fbstart
      <4>1. fbstart \in Nat /\ fbstart < TBlocks /\ TBlocks \in 0..TBlocks
        BY <1>1 DEF Block
      <4>. QED  BY <1>1, <4>1, AroundIs
    <3>. QED  BY <2>5, <3>2, <3>3, <3>4
  <2>. QED  BY <2>6, <2>7
<1>14. ASSUME NEW s \in Slot, eles'[s].blocks > 0
       PROVE  \E i \in 0..n : s = (head' + i) % MaxEle
  <2>1. CASE s = tail
    <3>1. (head' + n) % MaxEle = tail
      BY <1>4, <1>6, NthOnce
    <3>. QED  BY <1>4, <2>1, <3>1
  <2>2. CASE s # tail
    <3>1. eles'[s] = eles[s] /\ \A i \in 0..k - 1 : s # Nth(i)
      BY <1>6, <1>14, <2>2
    <3>2. PICK j \in 0..count - 1 : s = Nth(j)
      BY <1>14, <3>1 DEF Laid
    <3>3. j - k \in 0..n /\ k + (j - k) = j
      BY <1>4, <3>1, <3>2
    <3>. QED  BY <1>6, <3>2, <3>3
  <2>. QED  BY <2>1, <2>2
<1>15. 0..count' - 1 = 0..n
  BY <1>4, <1>3
<1>16. ASSUME NEW i \in 0..count' - 1
       PROVE  /\ i \in 0..n /\ Nth(i)' = (head' + i) % MaxEle
              /\ (eles[Nth(i)].bblock = Around(fbstart, fblocks + Held(i)))'
  <2>1. Nth(i)' = (head' + i) % MaxEle /\ Held(i)' = Total(c, i)
    BY DEF Nth, Held, c
  <2>2. i \in 0..n
    BY <1>15
  <2>. QED  BY <1>13, <2>1, <2>2
<1>17. ASSUME NEW s \in Slot, eles'[s].blocks > 0
       PROVE  \E i \in 0..count' - 1 : s = Nth(i)'
  BY <1>14, <1>15, <1>17 DEF Nth
<1>. QED  BY <1>11, <1>12, <1>16, <1>17 DEF Laid

\* An add that fails and a new creation leave a ring without data.
Bare == /\ count = 0 /\ fblocks = TBlocks /\ data \in [Block -> Nat]
        /\ \A s \in Slot : eles[s].blocks = 0

LEMMA BareIsLaid ==
  ASSUME RingTypes', Bare'
  PROVE  Laid' /\ ElementsIntact'
<1>1. Sizes' \in [0..MaxEle - 1 -> Nat]
  BY SizesTypeNext
<1>2. Total(Sizes', 0) = 0
  BY <1>1, TotalIs
<1>3. count' = 0 /\ fblocks' = TBlocks /\ \A s \in Slot : eles'[s].blocks = 0
  BY DEF Bare
<1>4. Held(count)' = 0
  BY <1>2, <1>3 DEF Held
<1>5. fblocks' \in 1..TBlocks /\ fblocks' + Held(count)' = TBlocks
  BY <1>3, <1>4, BlocksAssumption
<1>6. 0..count' - 1 = {} /\ 0..0 - 1 = {}
  BY <1>3
<1>7. Laid'
  BY <1>3, <1>5, <1>6 DEF Laid, Bare
<1>8. ElementsIntact'
  BY <1>3, <1>6 DEF ElementsIntact
<1>. QED  BY <1>7, <1>8

LEMMA LaidFails ==
  ASSUME RingTypes, Laid, NEW need \in Needs, AddFails(need)
  PROVE  Laid' /\ ElementsIntact'
<1>1. RingTypes' /\ count' = 0 /\ fblocks' = TBlocks /\ data' \in [Block -> Nat]
  BY AddFailsIs DEF AddFails, Laid
<1>2. ASSUME NEW s \in Slot PROVE eles'[s].blocks = 0
  <2>1. /\ eles'[s] = IF \E i \in 0..count - 1 : s = Nth(i)
                     THEN [eles[s] EXCEPT !.blocks = 0] ELSE eles[s]
        /\ eles[s] \in [num : Nat, blocks : Nat, bblock : Block]
    BY DEF AddFails, Without, RingTypes
  <2>2. CASE \E i \in 0..count - 1 : s = Nth(i)
    BY <2>1, <2>2
  <2>3. CASE ~ \E i \in 0..count - 1 : s = Nth(i)
    <3>1. eles'[s] = eles[s] /\ eles[s].blocks \in Nat
      BY <2>1, <2>3
    <3>2. ~ (eles[s].blocks > 0)
      BY <2>3 DEF Laid
    <3>. QED  BY <3>1, <3>2
  <2>. QED  BY <2>2, <2>3
<1>3. Bare'
  BY <1>1, <1>2 DEF Bare
<1>. QED  BY <1>1, <1>3, BareIsLaid

LEMMA LaidCreate ==
  ASSUME Create
  PROVE  Laid' /\ ElementsIntact'
<1>1. RingTypes'
  BY CreateIs
<1>2. Bare'
  BY DEF Create, Bare, NoElement
<1>. QED  BY <1>1, <1>2, BareIsLaid

\* A frame is written over free blocks only: what an element in the ring holds
\* lies beyond them.
LEMMA IntactAdd ==
  ASSUME RingTypes, Laid, ElementsIntact, NEW need \in Needs, AddFits(need)
  PROVE  ElementsIntact'
<1>. DEFINE k == Gone(need)
<1>1. /\ need \in 1..TBlocks /\ TBlocks \in Nat /\ fbstart \in Block /\ count \in 0..MaxEle - 1
      /\ MaxEle \in Nat /\ fblocks \in 1..TBlocks /\ fblocks + Held(count) = TBlocks
  BY BlocksAssumption, RingIsThere DEF RingTypes, Laid
<1>2. data' = [b \in Block |->
                 IF (b + TBlocks - fbstart) % TBlocks < need THEN num + 1 ELSE data[b]]
  BY DEF AddFits
<1>3. k \in 0..count /\ Drops(need) \in 0..count /\ Drops(need) <= k
  BY GoneIs
<1>4. \A s \in Slot : s # tail => \/ eles'[s].blocks = 0
                                  \/ eles'[s] = eles[s] /\ \A i \in 0..k - 1 : s # Nth(i)
  BY AddLeaves
<1>5. eles'[tail] = [num |-> num + 1, blocks |-> need, bblock |-> fbstart]
  BY AddLeaves
<1>. HIDE DEF k
<1>6. fblocks + Held(k) > need /\ Held(k) \in Nat
  <2>1. fblocks + Held(Drops(need)) > need
    BY <1>1, RoomIs DEF AddFits
  <2>2. Held(Drops(need)) \in Nat /\ Held(k) \in Nat /\ Held(Drops(need)) <= Held(k)
    <3>1. Drops(need) \in 0..MaxEle /\ k \in 0..MaxEle
      BY <1>1, <1>3
    <3>. QED  BY <1>3, <3>1, HeldIs
  <2>. QED  BY <1>1, <2>1, <2>2
<1>7. \A o \in 0..TBlocks - 1 :
        /\ Around(fbstart, o) \in Block
        /\ data'[Around(fbstart, o)] = IF o < need THEN num + 1 ELSE data[Around(fbstart, o)]
  <2>1. ASSUME NEW o \in 0..TBlocks - 1
        PROVE  Around(fbstart, o) \in Block /\ (Around(fbstart, o) + TBlocks - fbstart) % TBlocks = o
    <3>1. o \in 0..TBlocks
      BY <1>1
    <3>. QED  BY <1>1, <3>1, AroundIs, AroundBack
  <2>. QED  BY <1>2, <2>1
<1>. SUFFICES ASSUME NEW s \in Slot, NEW j \in 0..eles'[s].blocks - 1
              PROVE  data'[(eles'[s].bblock + j) % TBlocks] = eles'[s].num
  BY DEF ElementsIntact
<1>8. CASE s = tail
  <2>1. j \in 0..need - 1 /\ eles'[s].bblock = fbstart /\ eles'[s].num = num + 1
    BY <1>5, <1>8
  <2>2. j \in 0..TBlocks - 1 /\ j < need
    BY <1>1, <2>1
  <2>3. data'[Around(fbstart, j)] = num + 1
    BY <1>7, <2>2
  <2>. QED  BY <2>1, <2>3 DEF Around
<1>9. CASE s # tail
  <2>1. eles'[s].blocks # 0
    OBVIOUS
  <2>2. eles'[s] = eles[s] /\ \A i \in 0..k - 1 : s # Nth(i)
    BY <1>4, <1>9, <2>1
  <2>3. eles[s].blocks \in Nat /\ j \in 0..eles[s].blocks - 1 /\ eles[s].blocks > 0
    <3>1. eles[s].blocks \in Nat
      BY DEF RingTypes
    <3>. QED  BY <2>2, <3>1
  <2>4. PICK i \in 0..count - 1 : s = Nth(i)
    BY <2>3 DEF Laid
  <2>5. i >= k /\ i \in 0..MaxEle /\ i + 1 \in 0..MaxEle /\ i \in 0..MaxEle - 1
        /\ i + 1 <= count /\ count \in 0..MaxEle /\ k \in 0..MaxEle /\ i \in 0..count - 1
    BY <1>1, <1>3, <2>2, <2>4
  <2>6. /\ Held(i) \in Nat /\ Held(k) <= Held(i)
        /\ Held(i + 1) = Held(i) + eles[s].blocks /\ Held(i + 1) <= Held(count)
        /\ Held(count) \in Nat
    BY <2>4, <2>5, HeldIs
  <2>. DEFINE o == fblocks + Held(i)
  <2>7. eles[s].bblock = Around(fbstart, o)
    BY <2>4, <2>5 DEF Laid
  <2>8. /\ o \in 0..TBlocks /\ o + j \in 0..TBlocks - 1 /\ j \in 0..TBlocks
        /\ o + j <= TBlocks /\ ~ (o + j < need)
    BY <1>1, <1>6, <2>3, <2>6
  <2>. HIDE DEF o
  <2>9. Around(eles[s].bblock, j) = Around(fbstart, o + j)
    BY <1>1, <2>7, <2>8, AroundTwice
  <2>10. data'[Around(fbstart, o + j)] = data[Around(fbstart, o + j)]
    BY <1>7, <2>8
  <2>11. data[Around(eles[s].bblock, j)] = eles[s].num
    BY <2>3 DEF ElementsIntact, Around
  <2>. QED  BY <2>2, <2>9, <2>10, <2>11 DEF Around
<1>. QED  BY <1>8, <1>9

LEMMA LaidNext == RingTypes /\ Laid /\ ElementsIntact /\ [Next]_vars => (Laid /\ ElementsIntact)'
<1>. SUFFICES ASSUME RingTypes, Laid, ElementsIntact, [Next]_vars PROVE (Laid /\ ElementsIntact)'
  OBVIOUS
<1>1. ASSUME UNCHANGED ringVars PROVE (Laid /\ ElementsIntact)'
  BY <1>1 DEF ringVars, Laid, ElementsIntact, Held, Sizes, Nth
<1>2. ASSUME NEW r \in Readers, Else(r) \/ Read(r) PROVE UNCHANGED ringVars
  BY <1>2 DEF Else, Req, ReqFree, Crash, Leave, DelUsrByPid, ReActiveUsr, MvUsrPlace, Read,
              ResourceSem, ResourceTake, Packet, PacketCall, PacketSem, PacketZero, PacketPeek,
              PacketRewind, PacketDrop, PacketLoop, PacketTake
<1>3. ASSUME NEW need \in Needs, AddFails(need) \/ AddFits(need) PROVE (Laid /\ ElementsIntact)'
  BY <1>3, LaidFails, LaidAdd, IntactAdd
<1>4. CASE Create
  BY <1>4, LaidCreate
<1>. QED  BY <1>1, <1>2, <1>3, <1>4, NextIs DEF vars

LEMMA LaidInit == Init => Laid /\ ElementsIntact
<1>. SUFFICES ASSUME Init PROVE Laid /\ ElementsIntact
  OBVIOUS
<1>1. /\ count = 0 /\ fblocks = TBlocks /\ data \in [Block -> Nat]
      /\ \A s \in Slot : eles[s].blocks = 0
  BY DEF Init, NoElement
<1>2. RingTypes
  BY TypesInit DEF Types
<1>3. Held(count) = 0
  BY <1>1, <1>2, HeldIs
<1>4. fblocks \in 1..TBlocks /\ fblocks + Held(count) = TBlocks
  BY <1>1, <1>3, BlocksAssumption
<1>5. 0..count - 1 = {} /\ 0..0 - 1 = {}
  BY <1>1
<1>6. Laid
  BY <1>1, <1>4, <1>5 DEF Laid
<1>7. ElementsIntact
  BY <1>1, <1>5 DEF ElementsIntact
<1>. QED  BY <1>6, <1>7

LEMMA BlocksInvariant == Spec => [](RingTypes /\ Laid /\ ElementsIntact)
<1>1. Types => RingTypes
  BY DEF Types
<1>. QED  BY <1>1, PoolInvariant, LaidInit, LaidNext, PTL DEF Spec

\* No block is lost or counted twice, through drops, failed adds, wraps of either
\* ring and a new creation, and one is always left free.
THEOREM BlocksKept == Spec => []BlocksAccounted
<1>. SUFFICES RingTypes /\ Laid => BlocksAccounted
  BY BlocksInvariant, PTL
<1>. SUFFICES ASSUME RingTypes, Laid PROVE BlocksAccounted
  OBVIOUS
<1>1. /\ head \in Slot /\ tail \in Slot /\ MaxEle \in Nat
      /\ count = IF head <= tail THEN tail - head ELSE tail + MaxEle - head
      /\ count \in Slot
  BY RingIsThere DEF RingTypes, Slot
<1>2. count = tail + MaxEle - head \/ tail + MaxEle - head = count + MaxEle
  BY <1>1 DEF Slot
<1>3. count % MaxEle = count /\ (count + MaxEle) % MaxEle = count
  BY <1>1, AroundTheRing
<1>4. count = (tail + MaxEle - head) % MaxEle
  BY <1>2, <1>3
<1>5. fblocks + Held(count) = TBlocks /\ fblocks >= 1
  BY DEF Laid
<1>. QED  BY <1>4, <1>5 DEF BlocksAccounted

\* Whatever element a reader is led to, wherever it stands and however late it
\* is, the data is all of one frame.
THEOREM FramesIntact == Spec => []ElementsIntact
  BY BlocksInvariant, PTL

\* Numbers stay within the frames added to one creation of the pool.
Bounded ==
  /\ eles \in [Slot -> Element] /\ data \in [Block -> 0..MaxNum] /\ num \in 0..MaxNum
  /\ got \in [Readers -> 0..MaxNum]

LEMMA BoundedAdd ==
  ASSUME Types, Bounded, NEW need \in Needs, AddResource(need)
  PROVE  Bounded'
<1>1. got' = got
  BY DEF AddResource, AddFails, AddFits, readerVars
<1>2. ASSUME NEW k PROVE Without(k) \in [Slot -> Element]
  <2>1. ASSUME NEW s \in Slot PROVE [eles[s] EXCEPT !.blocks = 0] \in Element
    <3>1. eles[s] \in Element /\ 0 \in 0..TBlocks
      BY BlocksAssumption DEF Bounded
    <3>. QED  BY <3>1 DEF Element
  <2>. QED  BY <2>1 DEF Without, Bounded
<1>3. CASE AddFails(need)
  BY <1>1, <1>2, <1>3 DEF AddFails, Bounded
<1>4. CASE AddFits(need)
  <2>1. /\ eles' = [Without(Gone(need)) EXCEPT ![tail] =
                      [num |-> num + 1, blocks |-> need, bblock |-> fbstart]]
        /\ data' = [b \in Block |->
                      IF (b + TBlocks - fbstart) % TBlocks < need THEN num + 1 ELSE data[b]]
        /\ num' = num + 1
    BY <1>4 DEF AddFits, Gone
  <2>2. num + 1 \in 0..MaxNum /\ need \in 0..TBlocks /\ fbstart \in Block
    BY BlocksAssumption, RingAssumption DEF AddResource, Bounded, Types, RingTypes
  <2>3. [num |-> num + 1, blocks |-> need, bblock |-> fbstart] \in Element
    BY <2>2 DEF Element
  <2>4. eles' \in [Slot -> Element]
    BY <1>2, <2>1, <2>3
  <2>5. data' \in [Block -> 0..MaxNum]
    BY <2>1, <2>2 DEF Bounded
  <2>. QED  BY <1>1, <2>1, <2>2, <2>4, <2>5 DEF Bounded
<1>. QED  BY <1>3, <1>4 DEF AddResource

\* What a reader takes is the number of an element.
LEMMA BoundedRead ==
  ASSUME Types, Bounded, NEW r \in Readers, Read(r)
  PROVE  got' \in [Readers -> 0..MaxNum]
<1>1. ASSUME NEW s, NEW p, Take(r, s, p) PROVE got' \in [Readers -> 0..MaxNum]
  <2>1. s \in Slot => eles[s].num \in 0..MaxNum
    BY DEF Bounded, Element
  <2>. QED  BY <1>1, <2>1 DEF Take, Bounded
<1>2. CASE ResourceTake(r) \/ PacketTake(r)
  BY <1>1, <1>2 DEF ResourceTake, PacketTake
<1>3. CASE ~ (ResourceTake(r) \/ PacketTake(r))
  <2>1. got' = got
    BY <1>3 DEF Read, ResourceSem, Packet, PacketCall, PacketSem, PacketZero, PacketPeek,
                PacketRewind, PacketDrop, PacketLoop
  <2>. QED  BY <2>1 DEF Bounded
<1>. QED  BY <1>2, <1>3

LEMMA BoundedNext == Types /\ Bounded /\ [Next]_vars => Bounded'
<1>. SUFFICES ASSUME Types, Bounded, [Next]_vars PROVE Bounded'
  OBVIOUS
<1>1. ASSUME NEW need \in Needs, AddResource(need) PROVE Bounded'
  BY <1>1, BoundedAdd
<1>2. CASE Create
  <2>1. 0 \in 0..MaxNum /\ NoElement \in Element
    BY RingAssumption, BlocksAssumption DEF NoElement, Element, Block
  <2>. QED  BY <1>2, <2>1 DEF Create, Bounded
<1>3. ASSUME NEW r \in Readers, Else(r) PROVE Bounded'
  <2>1. 0 \in 0..MaxNum
    BY RingAssumption
  <2>. QED  BY <1>3, <2>1
            DEF Else, Req, ReqFree, Crash, Leave, DelUsrByPid, ReActiveUsr, MvUsrPlace, Bounded,
                ringVars, readerVars
<1>4. ASSUME NEW r \in Readers, Read(r) PROVE Bounded'
  <2>1. UNCHANGED ringVars
    BY <1>4, ReadReads DEF Reading
  <2>. QED  BY <1>4, <2>1, BoundedRead DEF Bounded, ringVars
<1>5. CASE UNCHANGED vars
  BY <1>5 DEF vars, ringVars, readerVars, Bounded
<1>. QED  BY <1>1, <1>2, <1>3, <1>4, <1>5 DEF Next, Else

LEMMA BoundedInit == Init => Bounded
<1>1. 0 \in 0..MaxNum /\ NoElement \in Element
  BY RingAssumption, BlocksAssumption DEF NoElement, Element, Block
<1>. QED  BY <1>1 DEF Init, Bounded

\* The variables keep their types.
THEOREM TypesKept == Spec => []TypeOK
<1>1. Types /\ AllCounted /\ Laid /\ Bounded => TypeOK
  <2>. SUFFICES ASSUME Types, AllCounted, Laid, Bounded PROVE TypeOK
    OBVIOUS
  <2>1. fblocks \in 0..TBlocks
    BY BlocksAssumption DEF Laid
  <2>. QED  BY <2>1 DEF Types, RingTypes, UserTypes, ReaderTypes, Bounded, AllCounted, TypeOK
<1>2. Spec => []Bounded
  BY PoolInvariant, BoundedInit, BoundedNext, PTL DEF Spec
<1>. QED  BY <1>1, <1>2, CountedInvariant, BlocksInvariant, PTL
================================================================================
