------------------------- MODULE MediaWindowsProofs -------------------------
(***************************************************************************)
(* The image of a backup lies on its tapes in order, and a recover that is  *)
(* given the true lengths reads it back unit for unit, for any number of    *)
(* tapes of any room, any size of record and any faults.                    *)
(*                                                                         *)
(* The sums over the tapes and over the media table are functions defined   *)
(* by recursion.  That they exist, and what holds of every sum, is shown    *)
(* with sets of numbers: one that holds 0, and k + 1 with every k, is Nat.  *)
(***************************************************************************)
EXTENDS MediaWindows, SequenceTheorems, WellFoundedInduction, TLAPS

\* A set of natural numbers with a member has a least one
LEMMA LeastOf ==
    ASSUME NEW T \in SUBSET Nat, T # {}
    PROVE  \E x \in T : \A y \in T : x <= y
<1> DEFINE R == OpToRel(<, Nat)
<1>1. IsWellFoundedOn(R, Nat)
    BY NatLessThanWellFounded, Zenon
<1>2. \E x \in T : \A y \in T : ~ (<<y, x>> \in R)
  <2> HIDE DEF R
  <2> QED BY <1>1, WFMin
<1>3. \A x, y \in T : y < x => <<y, x>> \in R
    BY Zenon DEF OpToRel
<1>4. PICK x \in T : \A y \in T : ~ (<<y, x>> \in R)
    BY <1>2
<1>5. \A y \in T : ~ (y < x)
  <2> HIDE DEF R
  <2> QED BY <1>3, <1>4
<1>6. \A y \in T : x <= y
    BY <1>5
<1> QED BY <1>6

\* Induction: the order of the natural numbers is well-founded
LEMMA NatSetInduction ==
    ASSUME NEW T \in SUBSET Nat, 0 \in T, \A n \in T : n + 1 \in T
    PROVE  T = Nat
<1>1. SUFFICES ASSUME Nat \ T # {} PROVE FALSE
    OBVIOUS
<1>2. PICK x \in Nat \ T : \A y \in Nat \ T : x <= y
    BY <1>1, LeastOf
<1>3. x # 0 /\ x - 1 \in Nat
    BY <1>2
<1>4. x - 1 \in T
    BY <1>2, <1>3
<1> QED BY <1>2, <1>3, <1>4

StartOf(c, m) ==
    LET begun[k \in 0 .. Len(Room)] ==
            IF k = 0 THEN 0 ELSE begun[k - 1] + Len(c[k])
    IN  begun[m]

Sums(f, c, n) == f = [k \in 0 .. n |-> IF k = 0 THEN 0 ELSE f[k - 1] + Len(c[k])]

\* The function begun[k] of StartOf exists, whatever the tapes hold
LEMMA SumsExist ==
    ASSUME NEW c, NEW n \in Nat
    PROVE  \E f : Sums(f, c, n)
<1> DEFINE T == {k \in Nat : \E f : Sums(f, c, k)}
<1>1. 0 \in T
  <2> DEFINE f == [k \in 0 .. 0 |-> 0]
  <2>1. Sums(f, c, 0)
      BY DEF Sums
  <2> QED BY <2>1
<1>2. \A k \in T : k + 1 \in T
  <2> SUFFICES ASSUME NEW k \in T PROVE k + 1 \in T
      OBVIOUS
  <2>1. PICK f : Sums(f, c, k)
      OBVIOUS
  <2> DEFINE g == [i \in 0 .. k + 1 |-> IF i = k + 1 THEN f[k] + Len(c[k + 1]) ELSE f[i]]
  <2>2. \A i \in 0 .. k : f[i] = IF i = 0 THEN 0 ELSE f[i - 1] + Len(c[i])
      BY <2>1 DEF Sums
  <2>3. \A i \in 0 .. k : g[i] = f[i]
      OBVIOUS
  <2>4. \A i \in 0 .. k + 1 : g[i] = IF i = 0 THEN 0 ELSE g[i - 1] + Len(c[i])
      BY <2>2, <2>3
  <2>5. Sums(g, c, k + 1)
    <3> HIDE DEF g
    <3>1. g = [i \in 0 .. k + 1 |-> g[i]]
        BY DEF g
    <3> QED BY <2>4, <3>1 DEF Sums
  <2> QED BY <2>5
<1>3. T = Nat
  <2> HIDE DEF T
  <2>1. T \in SUBSET Nat
      BY DEF T
  <2> QED BY <1>1, <1>2, <2>1, NatSetInduction
<1> QED BY <1>3

\* StartOf is the sum it is written as
LEMMA StartOfIs ==
    ASSUME NEW c
    PROVE  /\ StartOf(c, 0) = 0
           /\ \A m \in Media : StartOf(c, m) = StartOf(c, m - 1) + Len(c[m])
<1> DEFINE f == CHOOSE f : Sums(f, c, Len(Room))
<1>1. Len(Room) \in Nat
    BY MediaAssumption
<1>2. Sums(f, c, Len(Room))
    BY <1>1, SumsExist
<1>3. \A m : StartOf(c, m) = f[m]
    BY Zenon DEF StartOf, Sums
<1> HIDE DEF f
<1>4. \A i \in 0 .. Len(Room) : f[i] = IF i = 0 THEN 0 ELSE f[i - 1] + Len(c[i])
    BY <1>2 DEF Sums
<1> QED BY <1>1, <1>3, <1>4 DEF Media

-----------------------------------------------------------------------------
(* Whole records.                                                           *)

\* Division by the size of a record
LEMMA DivMod ==
    ASSUME NEW a \in Int
    PROVE  /\ a \div RecordSize \in Int
           /\ a % RecordSize \in 0 .. RecordSize - 1
           /\ a = RecordSize * (a \div RecordSize) + (a % RecordSize)
BY MediaAssumption

LEMMA DivIs ==
    ASSUME NEW a \in Int, NEW q \in Int, NEW r \in 0 .. RecordSize - 1,
           a = RecordSize * q + r
    PROVE  a \div RecordSize = q /\ a % RecordSize = r
BY MediaAssumption

LEMMA Dist ==
    ASSUME NEW a \in Int, NEW b \in Int
    PROVE  /\ (a + b) * RecordSize = a * RecordSize + b * RecordSize
           /\ (a - b) * RecordSize = a * RecordSize - b * RecordSize
           /\ a * RecordSize \in Int
           /\ a * RecordSize = RecordSize * a
BY MediaAssumption

LEMMA Mono ==
    ASSUME NEW a \in Int, NEW b \in Int
    PROVE  /\ (a <= b) <=> (a * RecordSize <= b * RecordSize)
           /\ (a < b) <=> (a * RecordSize < b * RecordSize)
BY MediaAssumption

LEMMA Whole ==
    ASSUME NEW a \in Int
    PROVE  (a * RecordSize) % RecordSize = 0 /\ (a * RecordSize) \div RecordSize = a
BY MediaAssumption

LEMMA WholeIs ==
    ASSUME NEW a \in Int, a % RecordSize = 0
    PROVE  a = (a \div RecordSize) * RecordSize /\ a \div RecordSize \in Int
<1> DEFINE q == a \div RecordSize
           r == a % RecordSize
<1>1. q \in Int /\ r = 0 /\ a = RecordSize * q + r
    BY DivMod
<1> HIDE DEF q, r
<1>2. q * RecordSize = RecordSize * q /\ q * RecordSize \in Int
    BY <1>1, Dist
<1>3. a = q * RecordSize
    BY <1>1, <1>2
<1> QED BY <1>1, <1>3 DEF q

\* Sums and differences of whole records are whole records
LEMMA WholeSum ==
    ASSUME NEW a \in Int, NEW b \in Int, a % RecordSize = 0, b % RecordSize = 0
    PROVE  (a + b) % RecordSize = 0 /\ (a - b) % RecordSize = 0
<1> DEFINE p == a \div RecordSize
           q == b \div RecordSize
<1>1. p \in Int /\ q \in Int /\ a = p * RecordSize /\ b = q * RecordSize
    BY WholeIs
<1> HIDE DEF p, q
<1>2. a + b = (p + q) * RecordSize /\ a - b = (p - q) * RecordSize
    BY <1>1, Dist
<1> QED BY <1>1, <1>2, Whole

-----------------------------------------------------------------------------
(* Where a tape's part begins, by the table.                                *)

Entry == [valid : BOOLEAN, n : Nat]

Part(me) == IF me.valid THEN me.n ELSE 0

Adds(f, tab, n) ==
    f = [k \in 0 .. n |-> IF k = 0 THEN 0 ELSE f[k - 1] + Part(tab[k])]

\* The function sum[k] of Begin exists, whatever the table
LEMMA AddsExist ==
    ASSUME NEW tab, NEW n \in Nat
    PROVE  \E f : Adds(f, tab, n)
<1> DEFINE T == {k \in Nat : \E f : Adds(f, tab, k)}
<1>1. 0 \in T
  <2> DEFINE f == [k \in 0 .. 0 |-> 0]
  <2>1. Adds(f, tab, 0)
      BY DEF Adds
  <2> QED BY <2>1
<1>2. \A k \in T : k + 1 \in T
  <2> SUFFICES ASSUME NEW k \in T PROVE k + 1 \in T
      OBVIOUS
  <2>1. PICK f : Adds(f, tab, k)
      OBVIOUS
  <2> DEFINE g == [i \in 0 .. k + 1 |->
                      IF i = k + 1 THEN f[k] + Part(tab[k + 1]) ELSE f[i]]
  <2>2. \A i \in 0 .. k : f[i] = IF i = 0 THEN 0 ELSE f[i - 1] + Part(tab[i])
      BY <2>1 DEF Adds
  <2>3. \A i \in 0 .. k : g[i] = f[i]
      OBVIOUS
  <2>4. \A i \in 0 .. k + 1 : g[i] = IF i = 0 THEN 0 ELSE g[i - 1] + Part(tab[i])
      BY <2>2, <2>3
  <2>5. Adds(g, tab, k + 1)
    <3> HIDE DEF g
    <3>1. g = [i \in 0 .. k + 1 |-> g[i]]
        BY DEF g
    <3> QED BY <2>4, <3>1 DEF Adds
  <2> QED BY <2>5
<1>3. T = Nat
  <2> HIDE DEF T
  <2>1. T \in SUBSET Nat
      BY DEF T
  <2> QED BY <1>1, <1>2, <2>1, NatSetInduction
<1> QED BY <1>3

\* Begin is the sum it is written as
LEMMA BeginIs ==
    ASSUME NEW tab, Len(tab) \in Nat
    PROVE  /\ Begin(tab, 1) = 0
           /\ \A m \in 1 .. Len(tab) : Begin(tab, m + 1) = Begin(tab, m) + Part(tab[m])
<1> DEFINE f == CHOOSE f : Adds(f, tab, Len(tab))
<1>1. Adds(f, tab, Len(tab))
    BY AddsExist
<1>2. \A m : Begin(tab, m) = f[m - 1]
    BY Zenon DEF Begin, Adds, Part
<1> HIDE DEF f
<1>3. \A i \in 0 .. Len(tab) : f[i] = IF i = 0 THEN 0 ELSE f[i - 1] + Part(tab[i])
    BY <1>1 DEF Adds
<1>4. Begin(tab, 1) = f[0]
    BY <1>2
<1>5. \A m \in 1 .. Len(tab) : Begin(tab, m + 1) = f[m] /\ Begin(tab, m) = f[m - 1]
    BY <1>2
<1> QED BY <1>3, <1>4, <1>5

\* A tape of a table of whole records begins at a whole record
LEMMA BeginWhole ==
    ASSUME NEW tab \in Seq(Entry),
           \A m \in 1 .. Len(tab) : tab[m].n % RecordSize = 0
    PROVE  \A m \in 1 .. Len(tab) + 1 :
              Begin(tab, m) \in Nat /\ Begin(tab, m) % RecordSize = 0
<1> DEFINE Good(m) == Begin(tab, m) \in Nat /\ Begin(tab, m) % RecordSize = 0
           T == {k \in Nat : k <= Len(tab) => Good(k + 1)}
<1>0. Len(tab) \in Nat
    OBVIOUS
<1>a. 0 % RecordSize = 0
    BY MediaAssumption
<1>1. 0 \in T
    BY <1>0, <1>a, BeginIs
<1>2. \A k \in T : k + 1 \in T
  <2> SUFFICES ASSUME NEW k \in Nat, k + 1 <= Len(tab), Good(k + 1)
               PROVE  Good(k + 2)
      BY <1>0
  <2>1. Begin(tab, k + 2) = Begin(tab, k + 1) + Part(tab[k + 1])
    <3>1. k + 1 \in 1 .. Len(tab) /\ (k + 1) + 1 = k + 2
        BY <1>0
    <3> QED BY <1>0, <3>1, BeginIs
  <2>2. Part(tab[k + 1]) \in Nat /\ Part(tab[k + 1]) % RecordSize = 0
    <3>1. tab[k + 1] \in Entry /\ tab[k + 1].n % RecordSize = 0
        BY <1>0
    <3>2. tab[k + 1].n \in Nat
        BY <3>1 DEF Entry
    <3>3. Part(tab[k + 1]) \in {0, tab[k + 1].n}
        BY DEF Part
    <3> QED BY <1>a, <3>1, <3>2, <3>3
  <2> DEFINE a == Begin(tab, k + 1)
             b == Part(tab[k + 1])
  <2>3. a \in Nat /\ b \in Nat /\ a % RecordSize = 0 /\ b % RecordSize = 0
      BY <2>2
  <2> HIDE DEF a, b
  <2>4. a + b \in Nat /\ (a + b) % RecordSize = 0
      BY <2>3, WholeSum
  <2> QED BY <2>1, <2>4 DEF a, b
<1>3. T = Nat
  <2> HIDE DEF T
  <2>1. T \in SUBSET Nat
      BY DEF T
  <2> QED BY <1>1, <1>2, <2>1, NatSetInduction
<1>4. ASSUME NEW m \in 1 .. Len(tab) + 1 PROVE Good(m)
  <2>1. m - 1 \in Nat /\ m - 1 <= Len(tab) /\ (m - 1) + 1 = m
      BY <1>0
  <2>2. m - 1 \in T
      BY <1>3, <2>1
  <2> QED BY <2>1, <2>2
<1> QED BY <1>4

\* Where a tape begins depends on the entries before it only
LEMMA BeginSame ==
    ASSUME NEW tab, NEW other, Len(tab) \in Nat, Len(other) = Len(tab),
           NEW n \in 1 .. Len(tab),
           \A m \in 1 .. n - 1 : other[m] = tab[m]
    PROVE  Begin(other, n) = Begin(tab, n)
<1> DEFINE T == {k \in Nat : k < n => Begin(other, k + 1) = Begin(tab, k + 1)}
<1>1. 0 \in T
    BY BeginIs
<1>2. \A k \in T : k + 1 \in T
  <2> SUFFICES ASSUME NEW k \in Nat, k + 1 < n, Begin(other, k + 1) = Begin(tab, k + 1)
               PROVE  Begin(other, k + 2) = Begin(tab, k + 2)
      OBVIOUS
  <2>1. k + 1 \in 1 .. Len(tab) /\ k + 1 \in 1 .. n - 1 /\ (k + 1) + 1 = k + 2
      OBVIOUS
  <2>2. /\ Begin(tab, k + 2) = Begin(tab, k + 1) + Part(tab[k + 1])
        /\ Begin(other, k + 2) = Begin(other, k + 1) + Part(other[k + 1])
      BY <2>1, BeginIs
  <2> QED BY <2>1, <2>2
<1>3. T = Nat
  <2> HIDE DEF T
  <2>1. T \in SUBSET Nat
      BY DEF T
  <2> QED BY <1>1, <1>2, <2>1, NatSetInduction
<1>4. n - 1 \in Nat /\ n - 1 < n /\ (n - 1) + 1 = n
    OBVIOUS
<1>5. n - 1 \in T
    BY <1>3, <1>4, Zenon
<1> QED BY <1>4, <1>5

-----------------------------------------------------------------------------
(* Where a tape's part begins, by the records on the tapes before it.       *)

Carts == [Media -> Seq(0 .. ImageRecords - 1)]

Tapes == Len(Room)

LEMMA TapesIs == Tapes \in Nat \ {0} /\ Media = 1 .. Tapes
BY MediaAssumption DEF Tapes, Media

LEMMA StartOfType ==
    ASSUME NEW c \in Carts
    PROVE  \A m \in 0 .. Tapes : StartOf(c, m) \in Nat
<1> DEFINE T == {k \in Nat : k <= Tapes => StartOf(c, k) \in Nat}
<1>1. 0 \in T
    BY StartOfIs
<1>2. \A k \in T : k + 1 \in T
  <2> SUFFICES ASSUME NEW k \in Nat, k + 1 <= Tapes, StartOf(c, k) \in Nat
               PROVE  StartOf(c, k + 1) \in Nat
      BY TapesIs
  <2>1. k + 1 \in Media /\ (k + 1) - 1 = k
      BY TapesIs
  <2>2. StartOf(c, k + 1) = StartOf(c, k) + Len(c[k + 1])
      BY <2>1, StartOfIs
  <2>3. Len(c[k + 1]) \in Nat
      BY <2>1 DEF Carts
  <2> QED BY <2>2, <2>3
<1>3. T = Nat
  <2> HIDE DEF T
  <2>1. T \in SUBSET Nat
      BY DEF T
  <2> QED BY <1>1, <1>2, <2>1, NatSetInduction
<1> QED BY <1>3, TapesIs

\* What is before a tape and on it is not more than there is on all of them
LEMMA StartOfGrows ==
    ASSUME NEW c \in Carts, NEW m \in 0 .. Tapes
    PROVE  \A k \in m .. Tapes : StartOf(c, m) <= StartOf(c, k)
<1> DEFINE T == {k \in Nat : m + k <= Tapes => StartOf(c, m) <= StartOf(c, m + k)}
<1>0. Tapes \in Nat /\ m \in Nat
    BY TapesIs
<1>1. 0 \in T
    BY <1>0, StartOfType
<1>2. \A k \in T : k + 1 \in T
  <2> SUFFICES ASSUME NEW k \in Nat, m + k + 1 <= Tapes,
                      StartOf(c, m) <= StartOf(c, m + k)
               PROVE  StartOf(c, m) <= StartOf(c, m + k + 1)
      BY <1>0
  <2> DEFINE j == m + k
  <2>1. j + 1 \in Media /\ (j + 1) - 1 = j /\ j \in 0 .. Tapes
      BY <1>0, TapesIs
  <2>2. StartOf(c, j + 1) = StartOf(c, j) + Len(c[j + 1])
      BY <2>1, StartOfIs
  <2>3. Len(c[j + 1]) \in Nat
      BY <2>1 DEF Carts
  <2>4. StartOf(c, j) \in Nat /\ StartOf(c, m) \in Nat
      BY <2>1, StartOfType
  <2> QED BY <2>2, <2>3, <2>4
<1>3. T = Nat
  <2> HIDE DEF T
  <2>1. T \in SUBSET Nat
      BY DEF T
  <2> QED BY <1>1, <1>2, <2>1, NatSetInduction
<1>4. ASSUME NEW k \in m .. Tapes PROVE StartOf(c, m) <= StartOf(c, k)
  <2>1. k - m \in Nat /\ m + (k - m) = k /\ k <= Tapes
      BY <1>0
  <2>2. k - m \in T
      BY <1>3, <2>1, Zenon
  <2> QED BY <2>1, <2>2
<1> QED BY <1>4

\* What is before a tape and on it is no more than there is
LEMMA PartFits ==
    ASSUME NEW c \in Carts, NEW m \in Media
    PROVE  /\ Len(c[m]) \in Nat /\ StartOf(c, m - 1) \in Nat /\ StartOf(c, Tapes) \in Nat
           /\ StartOf(c, m - 1) + Len(c[m]) <= StartOf(c, Tapes)
<1>1. m \in 0 .. Tapes /\ m - 1 \in 0 .. Tapes /\ Tapes \in m .. Tapes /\ Tapes \in 0 .. Tapes
    BY TapesIs
<1>2. StartOf(c, m) = StartOf(c, m - 1) + Len(c[m]) /\ StartOf(c, m) <= StartOf(c, Tapes)
    BY <1>1, StartOfIs, StartOfGrows
<1>3. Len(c[m]) \in Nat
    BY DEF Carts
<1> QED BY <1>1, <1>2, <1>3, StartOfType

\* Tape t has n records more in d than in c, and every other tape as many
Lengthened(c, d, t, n) ==
    \A m \in Media : Len(d[m]) = IF m = t THEN Len(c[m]) + n ELSE Len(c[m])

\* Records put behind those of one tape
LEMMA StartOfMore ==
    ASSUME NEW c \in Carts, NEW d \in Carts, NEW t \in Media, NEW n \in Nat,
           Lengthened(c, d, t, n)
    PROVE  \A m \in 0 .. Tapes :
              StartOf(d, m) = IF m >= t THEN StartOf(c, m) + n ELSE StartOf(c, m)
<1> USE DEF Lengthened
<1> DEFINE Good(m) == StartOf(d, m) = IF m >= t THEN StartOf(c, m) + n ELSE StartOf(c, m)
           T == {k \in Nat : k <= Tapes => Good(k)}
<1>1. 0 \in T
  <2>1. ~ (0 >= t)
      BY TapesIs
  <2> QED BY <2>1, StartOfIs
<1>2. \A k \in T : k + 1 \in T
  <2> SUFFICES ASSUME NEW k \in Nat, k + 1 <= Tapes, Good(k)
               PROVE  Good(k + 1)
      BY TapesIs
  <2>1. k + 1 \in Media /\ (k + 1) - 1 = k /\ k \in 0 .. Tapes /\ t \in Nat
      BY TapesIs
  <2>2. /\ StartOf(c, k + 1) = StartOf(c, k) + Len(c[k + 1])
        /\ StartOf(d, k + 1) = StartOf(d, k) + Len(d[k + 1])
      BY <2>1, StartOfIs
  <2>3. Len(c[k + 1]) \in Nat
      BY <2>1 DEF Carts
  <2>4. StartOf(c, k) \in Nat
      BY <2>1, StartOfType
  <2>5. Len(d[k + 1]) = IF k + 1 = t THEN Len(c[k + 1]) + n ELSE Len(c[k + 1])
      BY <2>1
  <2>6. CASE k + 1 = t
    <3>1. ~ (k >= t) /\ k + 1 >= t
        BY <2>1, <2>6
    <3> QED BY <2>2, <2>3, <2>4, <2>5, <2>6, <3>1
  <2>7. CASE k + 1 # t
    <3>1. (k >= t) <=> (k + 1 >= t)
        BY <2>1, <2>7
    <3> QED BY <2>2, <2>3, <2>4, <2>5, <2>7, <3>1
  <2> QED BY <2>6, <2>7
<1>3. T = Nat
  <2> HIDE DEF T
  <2>1. T \in SUBSET Nat
      BY DEF T
  <2> QED BY <1>1, <1>2, <2>1, NatSetInduction
<1> QED BY <1>3, TapesIs

\* Empty tapes add nothing
LEMMA StartOfRest ==
    ASSUME NEW c \in Carts, NEW t \in 0 .. Tapes,
           \A m \in Media : m > t => c[m] = <<>>
    PROVE  StartOf(c, Tapes) = StartOf(c, t)
<1> DEFINE T == {k \in Nat : t + k <= Tapes => StartOf(c, t + k) = StartOf(c, t)}
<1>0. Tapes \in Nat /\ t \in Nat
    BY TapesIs
<1>1. 0 \in T
    BY <1>0
<1>2. \A k \in T : k + 1 \in T
  <2> SUFFICES ASSUME NEW k \in Nat, t + k + 1 <= Tapes,
                      StartOf(c, t + k) = StartOf(c, t)
               PROVE  StartOf(c, t + k + 1) = StartOf(c, t)
      BY <1>0
  <2> DEFINE j == t + k
  <2>1. j + 1 \in Media /\ (j + 1) - 1 = j /\ j + 1 > t /\ t \in 0 .. Tapes
      BY <1>0, TapesIs
  <2>2. StartOf(c, j + 1) = StartOf(c, j) + Len(c[j + 1])
      BY <2>1, StartOfIs
  <2>3. Len(c[j + 1]) = 0
      BY <2>1
  <2>4. StartOf(c, t) \in Nat
      BY <2>1, StartOfType
  <2> QED BY <2>2, <2>3, <2>4
<1>3. T = Nat
  <2> HIDE DEF T
  <2>1. T \in SUBSET Nat
      BY DEF T
  <2> QED BY <1>1, <1>2, <2>1, NatSetInduction
<1>4. Tapes - t \in Nat /\ t + (Tapes - t) = Tapes
    BY <1>0
<1>5. Tapes - t \in T
    BY <1>3, <1>4, Zenon
<1> QED BY <1>0, <1>4, <1>5

\* With the true lengths a tape begins where its records do
LEMMA BeginExact ==
    ASSUME NEW c \in Carts, NEW tab \in Seq(Entry), Len(tab) <= Tapes,
           \A m \in 1 .. Len(tab) : tab[m].valid /\ tab[m].n = Len(c[m]) * RecordSize
    PROVE  \A m \in 1 .. Len(tab) : Begin(tab, m) = StartOf(c, m - 1) * RecordSize
<1> DEFINE T == {k \in Nat : k + 1 <= Len(tab) =>
                                Begin(tab, k + 1) = StartOf(c, k) * RecordSize}
<1>0. Len(tab) \in Nat /\ Tapes \in Nat
    BY TapesIs
<1>1. 0 \in T
  <2>1. Begin(tab, 0 + 1) = 0 /\ StartOf(c, 0) = 0
      BY <1>0, BeginIs, StartOfIs
  <2>2. 0 * RecordSize = 0
      BY MediaAssumption
  <2> QED BY <2>1, <2>2
<1>2. \A k \in T : k + 1 \in T
  <2> SUFFICES ASSUME NEW k \in Nat, k + 2 <= Len(tab),
                      Begin(tab, k + 1) = StartOf(c, k) * RecordSize
               PROVE  Begin(tab, k + 2) = StartOf(c, k + 1) * RecordSize
      BY <1>0
  <2>1. /\ k + 1 \in 1 .. Len(tab) /\ (k + 1) + 1 = k + 2
        /\ k + 1 \in Media /\ (k + 1) - 1 = k /\ k \in 0 .. Tapes
      BY <1>0, TapesIs
  <2>2. Begin(tab, k + 2) = Begin(tab, k + 1) + Part(tab[k + 1])
      BY <1>0, <2>1, BeginIs
  <2>3. StartOf(c, k + 1) = StartOf(c, k) + Len(c[k + 1])
      BY <2>1, StartOfIs
  <2>4. Part(tab[k + 1]) = Len(c[k + 1]) * RecordSize
      BY <2>1 DEF Part
  <2>5. Len(c[k + 1]) \in Nat /\ StartOf(c, k) \in Nat
      BY <2>1, StartOfType DEF Carts
  <2> DEFINE a == StartOf(c, k)
             n == Len(c[k + 1])
  <2>6. (a + n) * RecordSize = a * RecordSize + n * RecordSize
    <3>1. a \in Int /\ n \in Int
        BY <2>5
    <3> HIDE DEF a, n
    <3> QED BY <3>1, Dist
  <2> QED BY <2>2, <2>3, <2>4, <2>6
<1>3. T = Nat
  <2> HIDE DEF T
  <2>1. T \in SUBSET Nat
      BY DEF T
  <2> QED BY <1>1, <1>2, <2>1, NatSetInduction
<1>4. ASSUME NEW m \in 1 .. Len(tab)
      PROVE  Begin(tab, m) = StartOf(c, m - 1) * RecordSize
  <2>1. m - 1 \in Nat /\ (m - 1) + 1 = m
      BY <1>0
  <2>2. m - 1 \in T
      BY <1>3, <2>1, Zenon
  <2> QED BY <2>1, <2>2
<1> QED BY <1>4

LEMMA LowestIs ==
    ASSUME NEW S \in SUBSET Nat, S # {}
    PROVE  Lowest(S) \in S /\ \A x \in S : Lowest(S) <= x
<1>1. \E m \in S : \A x \in S : m <= x
    BY LeastOf
<1> QED BY <1>1 DEF Lowest

-----------------------------------------------------------------------------
(* The image is what is on the tapes, one after the other.                  *)

Lies(c) ==
    \A m \in Media : \A i \in 1 .. Len(c[m]) : c[m][i] = StartOf(c, m - 1) + i - 1

LEMMA RecordsType ==
    ASSUME NEW a \in Nat, NEW n \in Nat
    PROVE  /\ Records(a, n) \in Seq(Nat)
           /\ Len(Records(a, n)) = n
           /\ \A i \in 1 .. n : Records(a, n)[i] = a + i - 1
BY DEF Records

\* Two runs of records, the second from where the first ends, are one
LEMMA RecordsJoin ==
    ASSUME NEW a \in Nat, NEW n \in Nat
    PROVE  Records(0, a) \o Records(a, n) = Records(0, a + n)
<1> DEFINE l == Records(0, a)
           r == Records(a, n)
           b == Records(0, a + n)
<1>0. 0 \in Nat /\ a + n \in Nat
    OBVIOUS
<1>1. l \in Seq(Nat) /\ r \in Seq(Nat) /\ b \in Seq(Nat)
    BY <1>0, RecordsType
<1>2. Len(l) = a /\ Len(r) = n /\ Len(b) = a + n
  <2>1. Len(l) = a
      BY <1>0, RecordsType
  <2>2. Len(r) = n
      BY RecordsType
  <2>3. Len(b) = a + n
      BY <1>0, RecordsType
  <2> QED BY <2>1, <2>2, <2>3
<1>3. \A i \in 1 .. a : l[i] = i - 1
    BY <1>0, RecordsType
<1>4. \A i \in 1 .. n : r[i] = a + i - 1
    BY RecordsType
<1>5. \A i \in 1 .. a + n : b[i] = i - 1
    BY <1>0, RecordsType
<1> HIDE DEF l, r, b
<1>6. l \o r \in Seq(Nat) /\ Len(l \o r) = a + n
    BY <1>1, <1>2, ConcatProperties
<1>7. ASSUME NEW i \in 1 .. a + n PROVE (l \o r)[i] = b[i]
  <2>1. (l \o r)[i] = IF i <= a THEN l[i] ELSE r[i - a]
      BY <1>1, <1>2, ConcatProperties
  <2>2. CASE i <= a
      BY <1>3, <1>5, <2>1, <2>2
  <2>3. CASE ~ (i <= a)
    <3>1. i - a \in 1 .. n
        BY <2>3
    <3> QED BY <1>4, <1>5, <2>1, <2>3, <3>1
  <2> QED BY <2>2, <2>3
<1>8. l \o r = b
    BY <1>1, <1>2, <1>6, <1>7, SeqEqual
<1> QED BY <1>8 DEF l, r, b

Joins(f, c, n) ==
    f = [i \in 1 .. n |-> IF i = 1 THEN c[i] ELSE f[i - 1] \o c[i]]

\* The function of FlattenSeq exists
LEMMA JoinsExist ==
    ASSUME NEW c, NEW n \in Nat
    PROVE  \E f : Joins(f, c, n)
<1> DEFINE T == {k \in Nat : \E f : Joins(f, c, k)}
<1>1. 0 \in T
  <2> DEFINE f == [k \in 1 .. 0 |-> 0]
  <2>1. Joins(f, c, 0)
      BY DEF Joins
  <2> QED BY <2>1
<1>2. \A k \in T : k + 1 \in T
  <2> SUFFICES ASSUME NEW k \in T PROVE k + 1 \in T
      OBVIOUS
  <2>1. PICK f : Joins(f, c, k)
      OBVIOUS
  <2> DEFINE g == [i \in 1 .. k + 1 |->
                      IF i = k + 1 THEN (IF i = 1 THEN c[i] ELSE f[k] \o c[i]) ELSE f[i]]
  <2>2. \A i \in 1 .. k : f[i] = IF i = 1 THEN c[i] ELSE f[i - 1] \o c[i]
      BY <2>1 DEF Joins
  <2>3. \A i \in 1 .. k : g[i] = f[i]
      OBVIOUS
  <2>4. ASSUME NEW i \in 1 .. k + 1
        PROVE  g[i] = IF i = 1 THEN c[i] ELSE g[i - 1] \o c[i]
    <3>1. CASE i = k + 1 /\ i # 1
      <4>1. k \in 1 .. k /\ i - 1 = k
          BY <3>1
      <4>2. g[i - 1] = f[k]
          BY <2>3, <4>1
      <4>3. g[i] = f[k] \o c[i]
          BY <3>1
      <4> HIDE DEF g
      <4> QED BY <3>1, <4>2, <4>3
    <3>2. CASE i = k + 1 /\ i = 1
        BY <3>2
    <3>3. CASE i # k + 1 /\ i # 1
      <4>1. i \in 1 .. k /\ i - 1 \in 1 .. k
          BY <3>3
      <4>2. g[i] = f[i] /\ g[i - 1] = f[i - 1]
          BY <2>3, <4>1
      <4> HIDE DEF g
      <4> QED BY <2>2, <3>3, <4>1, <4>2
    <3>4. CASE i # k + 1 /\ i = 1
      <4>1. i \in 1 .. k
          BY <3>4
      <4>2. g[i] = f[i]
          BY <2>3, <4>1
      <4> HIDE DEF g
      <4> QED BY <2>2, <3>4, <4>1, <4>2
    <3> QED BY <3>1, <3>2, <3>3, <3>4
  <2>5. Joins(g, c, k + 1)
    <3> HIDE DEF g
    <3>1. g = [i \in 1 .. k + 1 |-> g[i]]
        BY DEF g
    <3> QED BY <2>4, <3>1 DEF Joins
  <2> QED BY <2>5
<1>3. T = Nat
  <2> HIDE DEF T
  <2>1. T \in SUBSET Nat
      BY DEF T
  <2> QED BY <1>1, <1>2, <2>1, NatSetInduction
<1> QED BY <1>3

\* Tapes on which every record lies in its place hold the image in order
LEMMA LiesIsImage ==
    ASSUME NEW c \in Carts, Lies(c)
    PROVE  FlattenSeq(c) = Records(0, StartOf(c, Tapes))
<1> DEFINE f == CHOOSE f : Joins(f, c, Tapes)
           T == {k \in Nat : k + 1 <= Tapes => f[k + 1] = Records(0, StartOf(c, k + 1))}
<1>1. Tapes \in Nat \ {0} /\ Len(c) = Tapes /\ DOMAIN c = 1 .. Tapes
    BY TapesIs DEF Carts
<1>2. FlattenSeq(c) = f[Tapes]
  <2>1. Len(c) # 0
      BY <1>1
  <2>2. FlattenSeq(c) = (CHOOSE g : Joins(g, c, Len(c)))[Len(c)]
      BY <2>1, Zenon DEF FlattenSeq, Joins
  <2> QED BY <1>1, <2>2
<1>3. Joins(f, c, Tapes)
    BY <1>1, JoinsExist
<1> HIDE DEF f
<1>4. \A i \in 1 .. Tapes : f[i] = IF i = 1 THEN c[i] ELSE f[i - 1] \o c[i]
    BY <1>3 DEF Joins
<1>5. ASSUME NEW m \in Media
      PROVE  /\ c[m] = Records(StartOf(c, m - 1), Len(c[m]))
             /\ StartOf(c, m - 1) \in Nat /\ Len(c[m]) \in Nat
             /\ StartOf(c, m) = StartOf(c, m - 1) + Len(c[m])
  <2>1. StartOf(c, m - 1) \in Nat /\ Len(c[m]) \in Nat
      BY PartFits
  <2> DEFINE a == StartOf(c, m - 1)
             n == Len(c[m])
             r == Records(a, n)
  <2>2. /\ r \in Seq(Nat) /\ Len(r) = n
        /\ \A i \in 1 .. n : r[i] = a + i - 1
      BY <2>1, RecordsType
  <2>3. c[m] \in Seq(0 .. ImageRecords - 1) /\ \A i \in 1 .. n : c[m][i] = a + i - 1
      BY DEF Lies, Carts
  <2>4. c[m] \in Seq(Nat)
    <3>1. 0 .. ImageRecords - 1 \subseteq Nat
        BY MediaAssumption
    <3> QED BY <2>3, <3>1, SeqMonotonic
  <2> HIDE DEF r
  <2>5. c[m] = r
      BY <2>2, <2>3, <2>4, SeqEqual
  <2> QED BY <2>1, <2>5, StartOfIs DEF r
<1>6. 0 \in T
  <2>1. 1 \in Media /\ 1 \in 1 .. Tapes
      BY TapesIs
  <2>2. f[1] = c[1]
      BY <1>4, <2>1
  <2>3. StartOf(c, 1 - 1) = 0
      BY StartOfIs
  <2>4. StartOf(c, 1) = Len(c[1]) /\ c[1] = Records(0, Len(c[1]))
      BY <1>5, <2>1, <2>3
  <2> QED BY <2>2, <2>4
<1>7. \A k \in T : k + 1 \in T
  <2> SUFFICES ASSUME NEW k \in Nat, k + 2 <= Tapes,
                      f[k + 1] = Records(0, StartOf(c, k + 1))
               PROVE  f[k + 2] = Records(0, StartOf(c, k + 2))
      BY <1>1
  <2>1. /\ k + 2 \in Media /\ (k + 2) - 1 = k + 1 /\ k + 2 \in 1 .. Tapes /\ k + 2 # 1
        /\ k + 1 \in 0 .. Tapes
      BY <1>1, TapesIs
  <2>2. f[k + 2] = f[k + 1] \o c[k + 2]
      BY <1>4, <2>1
  <2>3. /\ c[k + 2] = Records(StartOf(c, k + 1), Len(c[k + 2]))
        /\ StartOf(c, k + 1) \in Nat /\ Len(c[k + 2]) \in Nat
        /\ StartOf(c, k + 2) = StartOf(c, k + 1) + Len(c[k + 2])
      BY <1>5, <2>1
  <2> DEFINE a == StartOf(c, k + 1)
             n == Len(c[k + 2])
  <2>4. Records(0, a) \o Records(a, n) = Records(0, a + n)
      BY <2>3, RecordsJoin
  <2>5. f[k + 2] = Records(0, a) \o Records(a, n)
      BY <2>2, <2>3
  <2> QED BY <2>3, <2>4, <2>5
<1>8. T = Nat
  <2> HIDE DEF T
  <2>1. T \in SUBSET Nat
      BY DEF T
  <2> QED BY <1>6, <1>7, <2>1, NatSetInduction
<1>9. Tapes - 1 \in Nat /\ (Tapes - 1) + 1 = Tapes
    BY <1>1
<1>10. Tapes - 1 \in T
    BY <1>8, <1>9, Zenon
<1> QED BY <1>1, <1>2, <1>9, <1>10

-----------------------------------------------------------------------------
(* The inductive invariant.                                                 *)

\* All of the image that was fed is on the tapes, each record in its place
Placed == Lies(cart) /\ StartOf(cart, Tapes) = fed

\* The mover has a connection, and the monitor a tape for it
Engaged == mover.state \in {"LISTEN", "ACTIVE", "PAUSED"}

\* What is left behind by each part of an operation for the next one
Phases ==
    /\ job.op = "none" <=> job.at = "idle"
    /\ mover.state = "IDLE" <=> job.at # "monitor"
    /\ job.list # "none" => job.op = "recover"
    /\ job.op = "none" => \A m \in Media : cart[m] = <<>>
    /\ job.op = "backup" => /\ Len(ca.tab) = Tapes
                            /\ \A m \in Media : m > ca.cur => cart[m] = <<>>
    /\ job.op # "none" => ca.cur \in 1 .. Len(ca.tab) /\ Len(ca.tab) <= Tapes
    /\ job.op # "recover" => ask = NoRead

\* The drive, the buffer and the position are those of the current tape
Loaded ==
    /\ Engaged => /\ drive.tape = ca.cur
                  /\ job.op = "backup" => drive.block = Len(cart[ca.cur])
                  /\ mover.off = ca.lastw
                  /\ job.op = "recover" => mover.want = ask.off + Len(ask.out)
    /\ Engaged /\ mover.tb # NoBlock =>
          /\ job.op = "recover"
          /\ mover.tb < Len(cart[drive.tape])
          /\ mover.buf = cart[drive.tape][mover.tb + 1]

\* What ndmca_media_capture_mover_window() takes away leaves a length
Capturable ==
    /\ \A m \in 1 .. Len(ca.tab) : ca.tab[m].n % RecordSize = 0
    /\ ca.lastw % RecordSize = 0
    /\ job.at = "monitor" /\ drive.tape # 0 =>
          /\ ca.lastw = Begin(ca.tab, ca.cur)
          /\ ca.lastw <= mover.num * RecordSize
          /\ job.op = "backup" => mover.num * RecordSize <= mover.want

\* With the true lengths the table stays true, and so is every window
Truly ==
    job.list = "exact" /\ job.at = "monitor" =>
        /\ \A m \in 1 .. Len(ca.tab) :
              ca.tab[m].valid /\ ca.tab[m].n = Len(cart[m]) * RecordSize
        /\ Engaged => /\ mover.first = 0
                      /\ mover.off = StartOf(cart, ca.cur - 1) * RecordSize
                      /\ mover.end = mover.off + Len(cart[ca.cur]) * RecordSize
        /\ mover.state = "PAUSED" => mover.why = "SEEK"

MediaInv ==
    TypeOK /\ Placed /\ Phases /\ Loaded /\ Capturable /\ Truly /\ ServedAsAsked

MoverType ==
    [state : {"IDLE", "LISTEN", "ACTIVE", "PAUSED", "HALTED"},
     why : {"NA", "SEEK", "EOM", "EOF", "CONNECT_CLOSED", "MEDIA_ERROR", "ABORTED"},
     want : Nat, off : Nat, end : Nat, first : Nat, num : Nat,
     tb : {NoBlock} \cup Nat, buf : Nat, left : Nat]

LEMMA MediaInit == Init => MediaInv
<1> SUFFICES ASSUME Init PROVE MediaInv
    OBVIOUS
<1>0. Tapes \in Nat \ {0} /\ Media = 1 .. Tapes
    BY TapesIs
<1>a. 0 % RecordSize = 0 /\ Infinity \in Nat
    BY MediaAssumption, Dist DEF Infinity
<1>b. /\ cart = [m \in Media |-> <<>>] /\ fed = 0 /\ ask = NoRead
      /\ ca = [tab |-> <<>>, cur |-> 1, lastw |-> 0]
      /\ drive = [tape |-> 0, block |-> 0]
      /\ job = [op |-> "none", at |-> "idle", list |-> "none"]
      /\ mover = Stopped(0)
    BY DEF Init
<1>c. mover.state = "IDLE" /\ mover.why = "NA"
    BY <1>b DEF Stopped
<1>1. TypeOK
  <2>1. cart \in [Media -> Seq(0 .. ImageRecords - 1)]
      BY <1>b
  <2>2. mover \in MoverType
      BY <1>a, <1>b DEF Stopped, MoverType, NoBlock
  <2>3. /\ fed \in 0 .. ImageRecords
        /\ ask \in [off : Nat, len : 0 .. ReadMax, out : Seq(Nat)]
      BY <1>b, MediaAssumption DEF NoRead
  <2>4. ca \in [tab : Seq([valid : BOOLEAN, n : Nat]), cur : Media, lastw : Nat]
      BY <1>0, <1>b
  <2> QED BY <1>b, <2>1, <2>2, <2>3, <2>4 DEF TypeOK, MoverType
<1>2. Placed
  <2>1. cart \in Carts /\ \A m \in Media : cart[m] = <<>>
      BY <1>1, <1>b DEF TypeOK, Carts
  <2>2. StartOf(cart, Tapes) = StartOf(cart, 0)
      BY <1>0, <2>1, StartOfRest
  <2> QED BY <1>b, <2>1, <2>2, StartOfIs DEF Placed, Lies
<1>3. Phases
    BY <1>b, <1>c DEF Phases
<1>4. Loaded /\ Truly
    BY <1>b, <1>c DEF Loaded, Truly, Engaged
<1>5. Capturable
    BY <1>a, <1>b DEF Capturable
<1>6. ServedAsAsked
    BY <1>b DEF ServedAsAsked
<1> QED BY <1>1, <1>2, <1>3, <1>4, <1>5, <1>6 DEF MediaInv

\* The mover halts or pauses, and nothing else but the tape's position changes
LEMMA RestKeeps ==
    ASSUME MediaInv, job.at = "monitor",
           NEW s \in {"PAUSED", "HALTED"},
           NEW w \in {"SEEK", "EOM", "EOF", "CONNECT_CLOSED", "MEDIA_ERROR", "ABORTED"},
           mover' = [mover EXCEPT !.state = s, !.why = w],
           s = "PAUSED" => Engaged /\ job.op = "recover"
                              /\ (job.list = "exact" => w = "SEEK"),
           UNCHANGED <<cart, job, ca, fed, ask>>,
           drive' = drive \/ (/\ job.op = "recover"
                              /\ \E b \in Nat : drive' = [drive EXCEPT !.block = b])
    PROVE  MediaInv'
<1> USE DEF MediaInv
<1>0. /\ cart' = cart /\ job' = job /\ ca' = ca /\ fed' = fed /\ ask' = ask
      /\ mover \in MoverType
    BY DEF TypeOK, MoverType
<1>1. /\ mover'.state = s /\ mover'.why = w /\ mover'.want = mover.want
      /\ mover'.off = mover.off /\ mover'.end = mover.end /\ mover'.first = mover.first
      /\ mover'.num = mover.num /\ mover'.tb = mover.tb /\ mover'.buf = mover.buf
    BY <1>0 DEF MoverType
<1>2. drive'.tape = drive.tape /\ drive' \in [tape : Media \cup {0}, block : Nat]
      /\ (job.op = "backup" => drive'.block = drive.block)
    BY DEF TypeOK
<1>3. mover' \in MoverType
    BY <1>0 DEF MoverType
<1>4. TypeOK'
    BY <1>0, <1>2, <1>3 DEF TypeOK, MoverType
<1>5. Placed' /\ Phases' /\ ServedAsAsked'
    BY <1>0, <1>1 DEF Placed, Phases, ServedAsAsked
<1>6. Engaged' => Engaged /\ s = "PAUSED"
    BY <1>1 DEF Engaged
<1>7. Loaded'
    BY <1>0, <1>1, <1>2, <1>6 DEF Loaded
<1>8. Capturable'
    BY <1>0, <1>1, <1>2 DEF Capturable
<1>9. Truly'
    BY <1>0, <1>1, <1>6 DEF Truly
<1> QED BY <1>4, <1>5, <1>7, <1>8, <1>9

LEMMA StartsKeep == ASSUME MediaInv, MoverStarts PROVE MediaInv'
<1> USE DEF MediaInv
<1>0. /\ cart' = cart /\ job' = job /\ ca' = ca /\ fed' = fed /\ ask' = ask
      /\ drive' = drive /\ mover.state = "LISTEN" /\ mover \in MoverType
      /\ mover' = [mover EXCEPT !.state = "ACTIVE", !.why = "NA", !.tb = NoBlock]
    BY DEF TypeOK, MoverType, MoverStarts, Active
<1>1. /\ mover'.state = "ACTIVE" /\ mover'.why = "NA" /\ mover'.want = mover.want
      /\ mover'.off = mover.off /\ mover'.end = mover.end /\ mover'.first = mover.first
      /\ mover'.num = mover.num /\ mover'.tb = NoBlock
    BY <1>0 DEF MoverType
<1>2. mover' \in MoverType
    BY <1>0 DEF MoverType
<1>3. TypeOK'
    BY <1>0, <1>2 DEF TypeOK, MoverType
<1>4. Placed' /\ Phases' /\ ServedAsAsked'
    BY <1>0, <1>1 DEF Placed, Phases, ServedAsAsked
<1>5. Engaged /\ Engaged'
    BY <1>0, <1>1 DEF Engaged
<1>6. Loaded'
    BY <1>0, <1>1, <1>5 DEF Loaded
<1>7. Capturable'
    BY <1>0, <1>1 DEF Capturable
<1>8. Truly'
    BY <1>0, <1>1, <1>5 DEF Truly
<1> QED BY <1>3, <1>4, <1>6, <1>7, <1>8

LEMMA AskKeeps == ASSUME MediaInv, MoverRead PROVE MediaInv'
<1> USE DEF MediaInv
<1>0. /\ cart' = cart /\ job' = job /\ ca' = ca /\ fed' = fed /\ drive' = drive
      /\ mover.state = "ACTIVE" /\ job.op = "recover" /\ mover \in MoverType
    BY DEF TypeOK, MoverType, MoverRead
<1>a. PICK off \in 0 .. ImageRecords * RecordSize, len \in 1 .. ReadMax :
         /\ ask' = [off |-> off, len |-> len, out |-> <<>>]
         /\ mover' = [mover EXCEPT !.want = off, !.left = len]
    BY DEF MoverRead
<1>b. off \in Nat /\ len \in Nat /\ len \in 0 .. ReadMax
    BY MediaAssumption
<1>1. /\ mover'.state = "ACTIVE" /\ mover'.why = mover.why /\ mover'.want = off
      /\ mover'.off = mover.off /\ mover'.end = mover.end /\ mover'.first = mover.first
      /\ mover'.num = mover.num /\ mover'.tb = mover.tb /\ mover'.buf = mover.buf
    BY <1>0, <1>a DEF MoverType
<1>c. ask'.off = off /\ ask'.len = len /\ ask'.out = <<>>
    BY <1>a
<1>2. mover' \in MoverType
    BY <1>0, <1>a, <1>b DEF MoverType
<1>3. TypeOK'
  <2>1. ask' \in [off : Nat, len : 0 .. ReadMax, out : Seq(Nat)]
      BY <1>a, <1>b
  <2> QED BY <1>0, <1>2, <2>1 DEF TypeOK, MoverType
<1>4. Placed' /\ Phases'
    BY <1>0, <1>1 DEF Placed, Phases
<1>d. ServedAsAsked'
    BY <1>c DEF ServedAsAsked
<1>5. Engaged /\ Engaged'
    BY <1>0, <1>1 DEF Engaged
<1>6. Loaded'
    BY <1>0, <1>1, <1>b, <1>c, <1>5 DEF Loaded
<1>7. Capturable'
    BY <1>0, <1>1 DEF Capturable
<1>8. Truly'
    BY <1>0, <1>1, <1>5 DEF Truly
<1> QED BY <1>3, <1>4, <1>d, <1>6, <1>7, <1>8

-----------------------------------------------------------------------------
(* Serving a read.                                                          *)

LEMMA DivNat ==
    ASSUME NEW a \in Nat
    PROVE  a \div RecordSize \in Nat
BY MediaAssumption

LEMMA DivLess ==
    ASSUME NEW a \in Nat, NEW n \in Nat, a < n * RecordSize
    PROVE  a \div RecordSize < n
<1> DEFINE q == a \div RecordSize
           r == a % RecordSize
<1>1. q \in Int /\ r \in 0 .. RecordSize - 1 /\ a = RecordSize * q + r
    BY DivMod
<1> HIDE DEF q, r
<1>2. q * RecordSize <= a /\ q * RecordSize \in Int
    BY <1>1, Dist, MediaAssumption
<1>3. n * RecordSize \in Int
    BY Dist
<1>4. q * RecordSize < n * RecordSize
    BY <1>2, <1>3
<1>5. q < n
    BY <1>1, <1>4, Mono
<1> QED BY <1>5 DEF q

\* The record of a position, counted from a whole record
LEMMA DivFrom ==
    ASSUME NEW a \in Nat, NEW k \in Nat, k * RecordSize <= a
    PROVE  /\ (a - k * RecordSize) \div RecordSize = (a \div RecordSize) - k
           /\ k <= a \div RecordSize
<1> DEFINE q == a \div RecordSize
           r == a % RecordSize
           p == k * RecordSize
<1>1. q \in Int /\ r \in 0 .. RecordSize - 1 /\ a = RecordSize * q + r
    BY DivMod
<1>2. p \in Int /\ p <= a
    BY Dist
<1> HIDE DEF q, r
<1>3. (q - k) * RecordSize = q * RecordSize - p /\ RecordSize * (q - k) = (q - k) * RecordSize
      /\ RecordSize * q = q * RecordSize /\ q * RecordSize \in Int
    BY <1>1, Dist
<1>4. a - p = RecordSize * (q - k) + r
  <2> HIDE DEF p
  <2> QED BY <1>1, <1>2, <1>3, MediaAssumption
<1>5. q - k \in Int /\ a - p \in Int
    BY <1>1, <1>2
<1>6. (a - p) \div RecordSize = q - k
  <2> HIDE DEF p
  <2> QED BY <1>1, <1>4, <1>5, DivIs
<1>7. k <= q
  <2>1. k + -1 \in Int /\ q + 1 \in Int
      BY <1>1
  <2>2. (q + 1) * RecordSize = q * RecordSize + 1 * RecordSize /\ 1 * RecordSize = RecordSize
      BY <1>1, Dist, MediaAssumption
  <2>3. p < (q + 1) * RecordSize
    <3> HIDE DEF p
    <3> QED BY <1>1, <1>2, <1>3, <2>2, MediaAssumption
  <2>4. k < q + 1
      BY <2>1, <2>3, Mono
  <2> QED BY <1>1, <2>4
<1> QED BY <1>6, <1>7 DEF q

\* Rounding down to whole records stays above a whole record below
LEMMA DivAbove ==
    ASSUME NEW a \in Nat, NEW b \in Nat, a % RecordSize = 0, a <= b
    PROVE  a <= (b \div RecordSize) * RecordSize
<1> DEFINE k == a \div RecordSize
           q == b \div RecordSize
<1>1. k \in Nat /\ a = k * RecordSize /\ q \in Nat
    BY DivNat, WholeIs
<1> HIDE DEF k
<1>2. k <= q
    BY <1>1, DivFrom
<1> HIDE DEF q
<1>3. k * RecordSize <= q * RecordSize
    BY <1>1, <1>2, Mono
<1> QED BY <1>1, <1>3 DEF q

\* A piece of the record that holds a position begins at that position
LEMMA PieceIs ==
    ASSUME NEW rec \in Nat, NEW n \in Nat, mover.want \in Nat
    PROVE  /\ Piece(rec, n) \in Seq(Nat) /\ Len(Piece(rec, n)) = n
           /\ rec = mover.want \div RecordSize =>
                 \A i \in 1 .. n : Piece(rec, n)[i] = mover.want + i - 1
<1> DEFINE r == mover.want % RecordSize
           u == rec * RecordSize
<1>1. r \in Nat
    BY DivMod
<1>2. u \in Nat
    BY MediaAssumption
<1>3. rec = mover.want \div RecordSize => mover.want = u + r
  <2>1. mover.want = RecordSize * (mover.want \div RecordSize) + r
      BY DivMod
  <2>2. RecordSize * rec = u
      BY Dist
  <2> QED BY <2>1, <2>2
<1>4. Piece(rec, n) = [i \in 1 .. n |-> u + r + i - 1]
    BY DEF Piece
<1> HIDE DEF r, u
<1>5. /\ Piece(rec, n) \in Seq(Nat) /\ Len(Piece(rec, n)) = n
      /\ \A i \in 1 .. n : Piece(rec, n)[i] = u + r + i - 1
  <2>1. \A i \in 1 .. n : u + r + i - 1 \in Nat
      BY <1>1, <1>2
  <2> QED BY <1>4, <2>1
<1> QED BY <1>1, <1>2, <1>3, <1>5

\* What is served next is what was asked for next, from the record it is in
LEMMA ServesKeep ==
    ASSUME MediaInv, Reading, InWindow, NEW rec \in Nat, NEW m \in MoverType,
           Serves(m, rec),
           m.state = mover.state, m.why = mover.why, m.want = mover.want,
           m.off = mover.off, m.end = mover.end, m.first = mover.first,
           m.left = mover.left,
           drive.tape # 0 => ca.lastw <= m.num * RecordSize,
           m.tb \in Nat, m.tb < Len(cart[drive.tape]),
           rec = m.buf, rec = cart[drive.tape][m.tb + 1],
           job.list = "exact" => rec = mover.want \div RecordSize,
           drive'.tape = drive.tape,
           drive' \in [tape : Media \cup {0}, block : Nat],
           UNCHANGED <<cart, job, ca, fed>>
    PROVE  MediaInv'
<1> USE DEF MediaInv
<1>0. /\ cart' = cart /\ job' = job /\ ca' = ca /\ fed' = fed
      /\ mover.state = "ACTIVE" /\ job.op = "recover" /\ mover \in MoverType
      /\ mover.left > 0 /\ mover.want < mover.end
    BY DEF TypeOK, MoverType, Reading, InWindow
<1>1. mover.want \in Nat /\ mover.left \in Nat /\ mover.end \in Nat
    BY <1>0 DEF MoverType
<1> DEFINE S == {mover.left, mover.end - mover.want,
                 RecordSize - (mover.want % RecordSize)}
<1>2. S \in SUBSET Nat /\ S # {}
  <2>1. RecordSize - (mover.want % RecordSize) \in Nat
    <3> DEFINE r == mover.want % RecordSize
    <3>1. r \in 0 .. RecordSize - 1
        BY <1>1, DivMod
    <3> HIDE DEF r
    <3>2. RecordSize - r \in Nat
        BY <3>1, MediaAssumption
    <3> QED BY <3>2 DEF r
  <2>2. mover.end - mover.want \in Nat
      BY <1>0, <1>1
  <2> QED BY <1>1, <2>1, <2>2
<1>3. Lowest(S) \in Nat /\ Lowest(S) <= mover.left
  <2>1. mover.left \in S
      OBVIOUS
  <2> HIDE DEF S
  <2> QED BY <1>2, <2>1, LowestIs
<1>4. PICK n \in 1 .. Lowest(S) :
         /\ mover' = [m EXCEPT !.want = @ + n, !.left = @ - n]
         /\ ask' = [ask EXCEPT !.out = @ \o Piece(rec, n)]
    BY DEF Serves
<1> HIDE DEF S
<1>5. n \in Nat /\ n <= mover.left
    BY <1>1, <1>3
<1>6. /\ mover'.state = "ACTIVE" /\ mover'.why = mover.why
      /\ mover'.want = mover.want + n /\ mover'.left = mover.left - n
      /\ mover'.off = mover.off /\ mover'.end = mover.end /\ mover'.first = mover.first
      /\ mover'.num = m.num /\ mover'.tb = m.tb /\ mover'.buf = m.buf
    BY <1>0, <1>4 DEF MoverType
<1>7. mover' \in MoverType
  <2>1. mover.want + n \in Nat /\ mover.left - n \in Nat
    <3> DEFINE w == mover.want
               l == mover.left
    <3>1. w \in Nat /\ l \in Nat /\ n \in Nat /\ n <= l
        BY <1>1, <1>5
    <3> HIDE DEF w, l
    <3>2. w + n \in Nat /\ l - n \in Nat
        BY <3>1
    <3> QED BY <3>2 DEF w, l
  <2> QED BY <1>4, <2>1 DEF MoverType
<1>8. /\ ask \in [off : Nat, len : 0 .. ReadMax, out : Seq(Nat)]
      /\ ask' = [ask EXCEPT !.out = ask.out \o Piece(rec, n)]
    BY <1>4 DEF TypeOK
<1>9. /\ Piece(rec, n) \in Seq(Nat) /\ Len(Piece(rec, n)) = n
      /\ rec = mover.want \div RecordSize =>
            \A i \in 1 .. n : Piece(rec, n)[i] = mover.want + i - 1
    BY <1>1, <1>5, PieceIs
<1> DEFINE o == ask.out
           p == Piece(rec, n)
<1>10. ask'.out = o \o p /\ ask'.off = ask.off /\ o \in Seq(Nat) /\ ask.off \in Nat
    BY <1>8
<1> HIDE DEF p
<1>11. /\ o \o p \in Seq(Nat) /\ Len(o \o p) = Len(o) + n /\ Len(o) \in Nat
       /\ \A i \in 1 .. Len(o) + n : (o \o p)[i] = IF i <= Len(o) THEN o[i] ELSE p[i - Len(o)]
  <2>1. p \in Seq(Nat) /\ Len(p) = n /\ o \in Seq(Nat)
      BY <1>9, <1>10 DEF p
  <2> HIDE DEF o
  <2>2. o \o p \in Seq(Nat) /\ Len(o \o p) = Len(o) + Len(p)
      BY <2>1, ConcatProperties
  <2>3. \A i \in 1 .. Len(o) + Len(p) :
           (o \o p)[i] = IF i <= Len(o) THEN o[i] ELSE p[i - Len(o)]
      BY <2>1, ConcatProperties
  <2>4. Len(o) \in Nat
      BY <2>1
  <2> QED BY <2>1, <2>2, <2>3, <2>4
<1>12. TypeOK'
  <2>1. ask' \in [off : Nat, len : 0 .. ReadMax, out : Seq(Nat)]
      BY <1>8, <1>11 DEF p
  <2> QED BY <1>0, <1>7, <2>1 DEF TypeOK, MoverType
<1>13. Placed' /\ Phases'
    BY <1>0, <1>6 DEF Placed, Phases
<1>14. Engaged /\ Engaged'
    BY <1>0, <1>6 DEF Engaged
<1>15. mover.want = ask.off + Len(o)
    BY <1>0, <1>14 DEF Loaded
<1>16. Loaded'
  <2>1. mover'.want = ask'.off + Len(ask'.out)
      BY <1>5, <1>6, <1>10, <1>11, <1>15
  <2> QED BY <1>0, <1>6, <1>14, <2>1 DEF Loaded
<1>17. Capturable'
    BY <1>0, <1>6 DEF Capturable
<1>18. Truly'
    BY <1>0, <1>6, <1>14 DEF Truly
<1>19. ServedAsAsked'
  <2> SUFFICES ASSUME job.list = "exact", NEW i \in 1 .. Len(o) + n
               PROVE  (o \o p)[i] = ask.off + i - 1
      BY <1>0, <1>10, <1>11 DEF ServedAsAsked
  <2>1. CASE i <= Len(o)
    <3>1. i \in 1 .. Len(o) /\ (o \o p)[i] = o[i]
        BY <1>11, <2>1
    <3> QED BY <3>1 DEF ServedAsAsked
  <2>2. CASE ~ (i <= Len(o))
    <3>1. i - Len(o) \in 1 .. n /\ (o \o p)[i] = p[i - Len(o)]
        BY <1>5, <1>11, <2>2
    <3>2. p[i - Len(o)] = mover.want + (i - Len(o)) - 1
        BY <1>9, <3>1 DEF p
    <3>3. Len(o) \in Nat /\ i \in Nat /\ ask.off \in Nat /\ mover.want = ask.off + Len(o)
        BY <1>5, <1>10, <1>11, <1>15
    <3> HIDE DEF o
    <3> QED BY <3>1, <3>2, <3>3
  <2> QED BY <2>1, <2>2
<1> QED BY <1>12, <1>13, <1>16, <1>17, <1>18, <1>19

\* What a quantum that reads back finds
LEMMA ReadingFacts ==
    ASSUME MediaInv, Reading
    PROVE  /\ mover \in MoverType /\ mover.state = "ACTIVE" /\ job.at = "monitor"
           /\ job.op = "recover" /\ Engaged /\ cart \in Carts
           /\ drive.tape = ca.cur /\ ca.cur \in Media
           /\ drive \in [tape : Media \cup {0}, block : Nat]
           /\ mover.off = ca.lastw /\ ca.lastw \in Nat /\ ca.lastw % RecordSize = 0
           /\ drive.tape # 0 /\ ca.lastw <= mover.num * RecordSize
           /\ cart[drive.tape] \in Seq(0 .. ImageRecords - 1)
<1> USE DEF MediaInv
<1>1. /\ mover \in MoverType /\ mover.state = "ACTIVE" /\ job.op = "recover" /\ Engaged
      /\ cart \in Carts /\ drive \in [tape : Media \cup {0}, block : Nat]
      /\ ca.cur \in Media /\ ca.lastw \in Nat
    BY DEF TypeOK, MoverType, Reading, Engaged, Carts
<1>2. job.at = "monitor"
    BY <1>1 DEF Phases
<1>3. drive.tape = ca.cur /\ mover.off = ca.lastw
    BY <1>1 DEF Loaded
<1>4. drive.tape # 0
    BY <1>1, <1>3 DEF Media
<1>5. ca.lastw % RecordSize = 0 /\ ca.lastw <= mover.num * RecordSize
    BY <1>2, <1>4 DEF Capturable
<1>6. cart[drive.tape] \in Seq(0 .. ImageRecords - 1)
    BY <1>1, <1>3 DEF Carts
<1> QED BY <1>1, <1>2, <1>3, <1>4, <1>5, <1>6

\* In a true window the block the mover wants is on the tape, and holds the
\* record of the wanted position
LEMMA TrueWindow ==
    ASSUME MediaInv, Reading, InWindow
    PROVE  /\ WantBlock \in Nat
           /\ job.list = "exact" =>
                 /\ WantBlock < Len(cart[drive.tape])
                 /\ cart[drive.tape][WantBlock + 1] = mover.want \div RecordSize
<1> DEFINE w == mover.want
           o == mover.off
           c == cart[drive.tape]
           k == StartOf(cart, ca.cur - 1)
<1>1. /\ w \in Nat /\ o \in Nat /\ mover.first \in Nat /\ o <= w /\ w < mover.end
      /\ mover.end \in Nat
    BY ReadingFacts DEF MoverType, InWindow
<1>2. WantBlock \in Nat
    BY <1>1, DivNat DEF WantBlock
<1>3. ASSUME job.list = "exact"
      PROVE  WantBlock < Len(c) /\ c[WantBlock + 1] = w \div RecordSize
  <2>1. /\ mover.first = 0 /\ o = k * RecordSize
        /\ mover.end = o + Len(cart[ca.cur]) * RecordSize
      BY <1>3, ReadingFacts DEF MediaInv, Truly
  <2>2. c = cart[ca.cur] /\ k \in Nat /\ Len(c) \in Nat
      BY ReadingFacts, PartFits
  <2>3. w - o \in Nat /\ w - o < Len(c) * RecordSize
    <3> HIDE DEF w, o, c
    <3> DEFINE n == Len(c)
    <3>1. n \in Int
        BY <2>2
    <3>2. mover.end = o + n * RecordSize
        BY <2>1, <2>2
    <3> HIDE DEF n, w, o
    <3>3. n * RecordSize \in Int
        BY <3>1, Dist
    <3>4. w - o \in Nat /\ w - o < n * RecordSize
        BY <1>1, <3>2, <3>3
    <3> QED BY <3>4 DEF n
  <2>4. (w - o) \div RecordSize < Len(c)
    <3> HIDE DEF w, o, c
    <3> QED BY <2>2, <2>3, DivLess
  <2>5. (w - o) \div RecordSize = (w \div RecordSize) - k /\ k <= w \div RecordSize
    <3> HIDE DEF w, k
    <3> QED BY <1>1, <2>1, <2>2, DivFrom
  <2>6. WantBlock = (w \div RecordSize) - k /\ w \div RecordSize \in Nat
    <3>1. w \div RecordSize \in Nat /\ WantBlock = mover.first + (w - o) \div RecordSize
        BY <1>1, DivNat DEF WantBlock
    <3> HIDE DEF w, o, k
    <3> QED BY <2>1, <2>2, <2>5, <3>1
  <2>7. WantBlock < Len(c)
      BY <1>1, <2>1, <2>4, <2>5, <2>6
  <2>8. c[WantBlock + 1] = k + (WantBlock + 1) - 1
    <3>1. Placed /\ ca.cur \in Media
        BY ReadingFacts DEF MediaInv
    <3>2. WantBlock + 1 \in 1 .. Len(c)
        BY <1>2, <2>2, <2>7
    <3> QED BY <2>2, <3>1, <3>2 DEF Placed, Lies
  <2> QED BY <1>2, <2>2, <2>6, <2>7, <2>8
<1> QED BY <1>2, <1>3

\* A piece is served from the buffer or from the tape: the record is the one
\* wanted, and what has been served grows by the next units
LEMMA ServeKeeps ==
    ASSUME MediaInv, ServeFromBuffer \/ ServeFromTape
    PROVE  MediaInv'
<1>0. Reading /\ InWindow
    BY DEF ServeFromBuffer, ServeFromTape
<1> DEFINE c == cart[drive.tape]
<1>1. /\ WantBlock \in Nat
      /\ job.list = "exact" => c[WantBlock + 1] = mover.want \div RecordSize
    BY <1>0, TrueWindow
<1>2. mover.want \in Nat /\ mover.off \in Nat /\ mover.off <= mover.want
    BY <1>0, ReadingFacts DEF MoverType, InWindow
<1>3. ASSUME WantBlock < Len(c) PROVE c[WantBlock + 1] \in Nat
  <2>1. c \in Seq(0 .. ImageRecords - 1)
      BY <1>0, ReadingFacts
  <2> HIDE DEF c
  <2>2. WantBlock + 1 \in 1 .. Len(c)
      BY <1>1, <1>3, <2>1
  <2>3. c[WantBlock + 1] \in 0 .. ImageRecords - 1
      BY <2>1, <2>2, ElementOfSeq
  <2> QED BY <2>3, MediaAssumption
<1>4. CASE ServeFromBuffer
  <2>1. /\ mover.tb = WantBlock /\ Serves(mover, mover.buf)
        /\ UNCHANGED <<cart, drive, job, ca, fed>>
      BY <1>4 DEF ServeFromBuffer
  <2>2. mover.tb \in Nat /\ mover.tb < Len(c) /\ mover.buf = c[mover.tb + 1]
      BY <1>0, <1>1, <2>1, ReadingFacts DEF MediaInv, Loaded, NoBlock
  <2>3. mover.buf \in Nat
      BY <1>3, <2>1, <2>2
  <2>4. job.list = "exact" => mover.buf = mover.want \div RecordSize
      BY <1>1, <2>1, <2>2
  <2>5. drive'.tape = drive.tape /\ drive' \in [tape : Media \cup {0}, block : Nat]
      BY <1>0, <2>1, ReadingFacts
  <2>6. mover \in MoverType /\ ca.lastw <= mover.num * RecordSize
      BY <1>0, ReadingFacts
  <2> QED BY <1>0, <2>1, <2>2, <2>3, <2>4, <2>5, <2>6, ServesKeep
<1>5. CASE ServeFromTape
  <2> DEFINE rec == c[WantBlock + 1]
             m == [mover EXCEPT !.tb = WantBlock, !.buf = rec,
                                !.num = mover.want \div RecordSize]
  <2>1. /\ WantBlock < Len(c) /\ Serves(m, rec)
        /\ drive' = [drive EXCEPT !.block = WantBlock + 1]
        /\ UNCHANGED <<cart, job, ca, fed>>
      BY <1>5 DEF ServeFromTape
  <2>2. rec \in Nat
      BY <1>3, <2>1
  <2>3. mover.want \div RecordSize \in Nat
      BY <1>2, DivNat
  <2>4. mover \in MoverType
      BY <1>0, ReadingFacts
  <2> HIDE DEF rec
  <2>5. /\ m \in MoverType /\ m.state = mover.state /\ m.why = mover.why
        /\ m.want = mover.want /\ m.off = mover.off /\ m.end = mover.end
        /\ m.first = mover.first /\ m.left = mover.left
        /\ m.tb = WantBlock /\ m.buf = rec /\ m.num = mover.want \div RecordSize
      BY <1>1, <2>2, <2>3, <2>4 DEF MoverType
  <2> HIDE DEF m
  <2>6. ca.lastw <= m.num * RecordSize
      BY <1>0, <1>2, <2>5, ReadingFacts, DivAbove
  <2>7. drive'.tape = drive.tape /\ drive' \in [tape : Media \cup {0}, block : Nat]
      BY <1>0, <1>1, <2>1, ReadingFacts
  <2>8. job.list = "exact" => rec = mover.want \div RecordSize
      BY <1>1 DEF rec
  <2>9. m.tb \in Nat /\ m.tb < Len(c) /\ rec = c[m.tb + 1]
      BY <1>1, <2>1, <2>5 DEF rec
  <2> QED BY <1>0, <2>1, <2>2, <2>5, <2>6, <2>7, <2>8, <2>9, ServesKeep
<1> QED BY <1>4, <1>5

-----------------------------------------------------------------------------
(* A backup writes behind what is written.                                  *)

\* A quantum moves no more than is ready
LEMMA MovesIs ==
    ASSUME NEW ready \in Nat
    PROVE  Moves(ready) \in Nat /\ Moves(ready) <= ready
<1> DEFINE S == {ready, (mover.end - mover.want) \div RecordSize,
                 Room[drive.tape] - drive.block} \cap Nat
<1>1. S \in SUBSET Nat /\ ready \in S
    OBVIOUS
<1>2. Moves(ready) = Lowest(S)
    BY Zenon DEF Moves
<1> HIDE DEF S
<1> QED BY <1>1, <1>2, LowestIs

\* What becomes of the mover in a quantum that writes
LEMMA AfterWriteIs ==
    ASSUME NEW ready \in Nat, mover \in MoverType, mover.state = "ACTIVE",
           NEW n, n = Moves(ready)
    PROVE  LET m == AfterWrite(ready)
           IN  /\ m \in MoverType /\ m.state \in {"ACTIVE", "PAUSED"}
               /\ m.want = mover.want + n * RecordSize
               /\ m.num = IF n = 0 THEN mover.num
                          ELSE (mover.want + (n - 1) * RecordSize) \div RecordSize
               /\ m.off = mover.off /\ m.tb = mover.tb
<1>1. n \in Nat
    BY MovesIs
<1> DEFINE u == n * RecordSize
           v == IF n = 0 THEN mover.num
                ELSE (mover.want + (n - 1) * RecordSize) \div RecordSize
           w == Wrote(n)
<1>2. u \in Nat /\ mover.want \in Nat /\ mover.num \in Nat
    BY <1>1, MediaAssumption DEF MoverType
<1>3. v \in Nat
  <2>1. CASE n = 0
      BY <1>2, <2>1
  <2>2. CASE n # 0
    <3>1. (n - 1) * RecordSize \in Nat
        BY <1>1, <2>2, MediaAssumption
    <3>2. mover.want + (n - 1) * RecordSize \in Nat
        BY <1>2, <3>1
    <3> QED BY <2>2, <3>2, DivNat
  <2> QED BY <2>1, <2>2
<1>4. n = 0 => u = 0
    BY MediaAssumption
<1>5. w = [mover EXCEPT !.num = v, !.want = mover.want + u]
  <2>1. CASE n = 0
    <3>1. w = mover /\ v = mover.num /\ mover.want + u = mover.want
        BY <1>2, <1>4, <2>1 DEF Wrote
    <3> HIDE DEF u, v, w
    <3> QED BY <3>1 DEF MoverType
  <2>2. CASE n # 0
      BY <2>2 DEF Wrote, MoverType
  <2> QED BY <2>1, <2>2
<1> HIDE DEF u, v, w
<1>6. /\ w \in MoverType /\ w.state = "ACTIVE" /\ w.want = mover.want + u /\ w.num = v
      /\ w.off = mover.off /\ w.tb = mover.tb
  <2>1. mover.want + u \in Nat
      BY <1>2
  <2> DEFINE x == mover.want + u
  <2>2. x \in Nat /\ w = [mover EXCEPT !.num = v, !.want = x]
      BY <1>5, <2>1
  <2> HIDE DEF x
  <2>3. /\ w \in MoverType /\ w.state = "ACTIVE" /\ w.want = x /\ w.num = v
        /\ w.off = mover.off /\ w.tb = mover.tb
      BY <1>3, <2>2 DEF MoverType
  <2> QED BY <2>3 DEF x
<1>7. \/ AfterWrite(ready) = w
      \/ \E y \in {"SEEK", "EOM"} : AfterWrite(ready) = [w EXCEPT !.state = "PAUSED", !.why = y]
    BY DEF AfterWrite, Paused, w
<1>8. LET m == AfterWrite(ready)
      IN  /\ m \in MoverType /\ m.state \in {"ACTIVE", "PAUSED"}
          /\ m.want = mover.want + u /\ m.num = v
          /\ m.off = mover.off /\ m.tb = mover.tb
    BY <1>6, <1>7 DEF MoverType
<1> QED BY <1>8 DEF u, v

\* d is c with the n records from f on behind those of tape t
Longer(c, d, t, f, n) ==
    d = [c EXCEPT ![t] = SubSeq(c[t], 1, Len(c[t])) \o Records(f, n)]

\* No tape behind t has a record
Bare(c, t) == \A m \in Media : m > t => c[m] = <<>>

\* Records put behind those of the last tape that has any
LEMMA PlacedMore ==
    ASSUME NEW c \in Carts, NEW t \in Media, NEW n \in Nat, Lies(c),
           NEW f \in Nat, f = StartOf(c, Tapes), f + n <= ImageRecords,
           Bare(c, t), NEW d, Longer(c, d, t, f, n)
    PROVE  /\ d \in Carts /\ Lies(d) /\ StartOf(d, Tapes) = f + n
           /\ Len(d[t]) = Len(c[t]) + n
           /\ \A m \in Media : m # t => d[m] = c[m]
<1> USE DEF Bare
<1> DEFINE R == 0 .. ImageRecords - 1
           r == Records(f, n)
           o == c[t]
<1>1. o \in Seq(R) /\ Len(o) \in Nat
    BY DEF Carts
<1>2. r \in Seq(R) /\ Len(r) = n /\ \A i \in 1 .. n : r[i] = f + i - 1
  <2>1. \A i \in 1 .. n : f + i - 1 \in R
      BY MediaAssumption
  <2>2. r = [i \in 1 .. n |-> f + i - 1]
      BY DEF Records
  <2> HIDE DEF r, R
  <2> QED BY <2>1, <2>2
<1>3. d[t] = o \o r /\ DOMAIN d = Media /\ \A m \in Media : m # t => d[m] = c[m]
  <2>1. SubSeq(o, 1, Len(o)) = o
    <3> HIDE DEF o, R
    <3>1. \A i \in 1 .. Len(o) : o[i] \in R
        BY <1>1
    <3> QED BY <1>1, <3>1, SubSeqFull
  <2> HIDE DEF r
  <2> QED BY <2>1 DEF r, Carts, Longer
<1>4. /\ o \o r \in Seq(R) /\ Len(o \o r) = Len(o) + n
      /\ \A i \in 1 .. Len(o) + n : (o \o r)[i] = IF i <= Len(o) THEN o[i] ELSE r[i - Len(o)]
  <2> HIDE DEF o, r, R
  <2>1. o \o r \in Seq(R) /\ Len(o \o r) = Len(o) + Len(r)
      BY <1>1, <1>2, ConcatProperties
  <2>2. \A i \in 1 .. Len(o) + Len(r) :
           (o \o r)[i] = IF i <= Len(o) THEN o[i] ELSE r[i - Len(o)]
      BY <1>1, <1>2, ConcatProperties
  <2> QED BY <1>2, <2>1, <2>2
<1>5. d \in Carts
  <2>1. \A m \in Media : d[m] \in Seq(R)
    <3> HIDE DEF o, r
    <3> QED BY <1>3, <1>4 DEF Carts
  <2>2. d = [m \in Media |-> d[m]]
      BY DEF Carts, Longer
  <2> QED BY <2>1, <2>2 DEF Carts
<1> HIDE DEF o, r
<1>6. Lengthened(c, d, t, n)
    BY <1>3, <1>4 DEF o, Lengthened
<1>7. \A m \in 0 .. Tapes :
         StartOf(d, m) = IF m >= t THEN StartOf(c, m) + n ELSE StartOf(c, m)
    BY <1>5, <1>6, StartOfMore
<1>8. t \in 0 .. Tapes /\ t - 1 \in 0 .. Tapes /\ Tapes \in 0 .. Tapes /\ Tapes >= t
      /\ t \in Nat /\ Tapes \in Nat
    BY TapesIs
<1>9. StartOf(d, Tapes) = f + n
    BY <1>7, <1>8
<1>10. f = StartOf(c, t - 1) + Len(o) /\ StartOf(c, t - 1) \in Nat
  <2>1. f = StartOf(c, t)
      BY <1>8, StartOfRest
  <2> QED BY <1>8, <2>1, StartOfIs, StartOfType DEF o
<1>11. ASSUME NEW m \in Media, NEW i \in 1 .. Len(d[m])
       PROVE  d[m][i] = StartOf(d, m - 1) + i - 1
  <2>1. m \in Nat /\ m - 1 \in 0 .. Tapes /\ m \in 0 .. Tapes
      BY TapesIs
  <2>2. CASE m = t
    <3>1. ~ (t - 1 >= t)
        BY <1>8
    <3>2. StartOf(d, m - 1) = StartOf(c, t - 1)
        BY <1>7, <1>8, <2>2, <3>1
    <3>3. i \in 1 .. Len(o) + n /\ d[m][i] = IF i <= Len(o) THEN o[i] ELSE r[i - Len(o)]
        BY <1>3, <1>4, <2>2
    <3>4. CASE i <= Len(o)
      <4>1. i \in 1 .. Len(o)
          BY <3>3, <3>4
      <4>2. o[i] = StartOf(c, t - 1) + i - 1
          BY <4>1 DEF Lies, o
      <4> QED BY <3>2, <3>3, <3>4, <4>2
    <3>5. CASE ~ (i <= Len(o))
      <4>1. i - Len(o) \in 1 .. n
          BY <1>1, <3>3, <3>5 DEF o
      <4>2. r[i - Len(o)] = f + (i - Len(o)) - 1
          BY <1>2, <4>1 DEF r
      <4>3. Len(o) \in Nat /\ i \in Nat
          BY <1>1, <3>3 DEF o
      <4>4. d[m][i] = f + (i - Len(o)) - 1
          BY <3>3, <3>5, <4>2
      <4> QED BY <1>10, <3>2, <4>3, <4>4
    <3> QED BY <3>4, <3>5
  <2>3. CASE m > t
    <3>1. d[m] = <<>>
        BY <1>3, <1>8, <2>1, <2>3
    <3> QED BY <3>1
  <2>4. CASE m < t
    <3>1. ~ (m - 1 >= t) /\ m # t
        BY <1>8, <2>1, <2>4
    <3>2. StartOf(d, m - 1) = StartOf(c, m - 1) /\ d[m] = c[m]
        BY <1>3, <1>7, <2>1, <3>1
    <3> QED BY <3>2 DEF Lies
  <2> QED BY <1>8, <2>1, <2>2, <2>3, <2>4
<1> QED BY <1>3, <1>5, <1>6, <1>9, <1>11 DEF Lies, Lengthened

\* A quantum that writes: the tape grows by the next records of the image, and
\* the number of the last record stays between the window and the position
LEMMA WriteKeeps == ASSUME MediaInv, BackupQuantum PROVE MediaInv'
<1> USE DEF MediaInv
<1>0. /\ job' = job /\ ca' = ca /\ ask' = ask
      /\ mover.state = "ACTIVE" /\ job.op = "backup" /\ mover \in MoverType /\ Engaged
      /\ cart \in Carts /\ fed \in 0 .. ImageRecords
      /\ drive \in [tape : Media \cup {0}, block : Nat] /\ ca.cur \in Media
      /\ ca.lastw \in Nat
    BY DEF TypeOK, MoverType, BackupQuantum, Engaged, Carts
<1>1. /\ drive.tape = ca.cur /\ drive.block = Len(cart[ca.cur]) /\ mover.off = ca.lastw
      /\ mover.tb = NoBlock
    BY <1>0 DEF Loaded
<1>2. /\ job.at = "monitor" /\ job.list = "none" /\ \A m \in Media : m > ca.cur => cart[m] = <<>>
      /\ Len(ca.tab) = Tapes
  <2>1. job.at = "monitor" /\ Len(ca.tab) = Tapes
        /\ \A m \in Media : m > ca.cur => cart[m] = <<>>
      BY <1>0 DEF Phases
  <2>2. job.list = "none"
      BY <1>0 DEF Phases, TypeOK
  <2> QED BY <2>1, <2>2
<1>3. PICK ready \in 1 .. ImageRecords - fed :
         /\ mover' = AfterWrite(ready)
         /\ cart' = [cart EXCEPT ![drive.tape] =
                        SubSeq(@, 1, drive.block) \o Records(fed, Moves(ready))]
         /\ drive' = [drive EXCEPT !.block = @ + Moves(ready)]
         /\ fed' = fed + Taken(ready)
    BY DEF BackupQuantum
<1> DEFINE n == Moves(ready)
           t == ca.cur
<1>4. ready \in Nat /\ n \in Nat /\ n <= ready /\ fed \in Nat /\ fed + n <= ImageRecords
  <2>1. ready \in Nat
      OBVIOUS
  <2>2. n \in Nat /\ n <= ready
      BY <2>1, MovesIs
  <2> HIDE DEF n
  <2> QED BY <1>0, <2>1, <2>2, MediaAssumption
<1>5. fed' = fed + n
    BY <1>3 DEF Taken
<1>6. Longer(cart, cart', t, fed, n)
    BY <1>1, <1>3 DEF Longer
<1>7. drive'.tape = t /\ drive'.block = Len(cart[t]) + n
      /\ drive' \in [tape : Media \cup {0}, block : Nat]
  <2> HIDE DEF n
  <2> QED BY <1>0, <1>1, <1>3, <1>4 DEF n
<1>8. /\ mover' \in MoverType /\ mover'.state \in {"ACTIVE", "PAUSED"}
      /\ mover'.want = mover.want + n * RecordSize
      /\ mover'.num = IF n = 0 THEN mover.num
                      ELSE (mover.want + (n - 1) * RecordSize) \div RecordSize
      /\ mover'.off = mover.off /\ mover'.tb = mover.tb
    BY <1>0, <1>3, <1>4, AfterWriteIs
<1> HIDE DEF n
<1>9. /\ cart' \in Carts /\ Lies(cart') /\ StartOf(cart', Tapes) = fed + n
      /\ Len(cart'[t]) = Len(cart[t]) + n
      /\ \A m \in Media : m # t => cart'[m] = cart[m]
  <2>1. Lies(cart) /\ fed = StartOf(cart, Tapes)
      BY DEF Placed
  <2>2. n \in Nat /\ fed \in Nat /\ t \in Media /\ fed + n <= ImageRecords
      BY <1>0, <1>4
  <2>3. Bare(cart, t)
      BY <1>2 DEF Bare
  <2> HIDE DEF t
  <2> QED BY <1>0, <1>6, <2>1, <2>2, <2>3, PlacedMore
<1>10. TypeOK'
  <2>1. fed' \in 0 .. ImageRecords
      BY <1>4, <1>5
  <2> QED BY <1>0, <1>7, <1>8, <1>9, <2>1 DEF TypeOK, MoverType, Carts
<1>11. Placed'
    BY <1>5, <1>9 DEF Placed
<1>12. Phases'
  <2>1. \A m \in Media : m > ca.cur => cart'[m] = <<>>
    <3> SUFFICES ASSUME NEW m \in Media, m > t PROVE cart'[m] = <<>>
        OBVIOUS
    <3>1. m # t
        BY <1>0, TapesIs
    <3> QED BY <1>2, <1>9, <3>1
  <2>2. mover'.state # "IDLE"
      BY <1>8
  <2> QED BY <1>0, <1>2, <2>1, <2>2 DEF Phases
<1>13. Engaged'
    BY <1>8 DEF Engaged
<1>14. Loaded'
    BY <1>0, <1>1, <1>7, <1>8, <1>9, <1>13 DEF Loaded
<1>15. ca.lastw <= mover'.num * RecordSize /\ mover'.num * RecordSize <= mover'.want
  <2> DEFINE w == mover.want
             b == mover.num
             x == (n - 1) * RecordSize
             y == n * RecordSize
  <2>1. drive.tape # 0
      BY <1>0, <1>1, TapesIs
  <2>2. /\ ca.lastw <= b * RecordSize /\ b * RecordSize <= w /\ ca.lastw % RecordSize = 0
        /\ b \in Nat /\ w \in Nat
      BY <1>0, <1>2, <2>1 DEF Capturable, MoverType
  <2>3. b * RecordSize \in Int /\ y \in Nat
      BY <1>4, <2>2, Dist, MediaAssumption
  <2>4. CASE n = 0
    <3>1. y = 0
        BY <2>4, MediaAssumption
    <3>2. mover'.num = b /\ mover'.want = w + y
        BY <1>8, <2>4
    <3> HIDE DEF w, b, y
    <3> QED BY <2>2, <2>3, <3>1, <3>2
  <2>5. CASE n # 0
    <3>1. x \in Nat /\ x <= y
      <4>1. n - 1 \in Nat /\ n - 1 <= n
          BY <1>4, <2>5
      <4>2. x \in Nat
          BY <4>1, MediaAssumption
      <4>3. x <= y
          BY <1>4, <4>1, Mono
      <4> QED BY <4>2, <4>3
    <3>2. mover'.num = (w + x) \div RecordSize /\ mover'.want = w + y
        BY <1>8, <2>5
    <3> HIDE DEF w, b, x, y
    <3>3. w + x \in Nat /\ ca.lastw <= w + x
        BY <1>0, <2>2, <2>3, <3>1
    <3>4. ca.lastw <= ((w + x) \div RecordSize) * RecordSize
        BY <1>0, <2>2, <3>3, DivAbove
    <3>5. ((w + x) \div RecordSize) * RecordSize <= w + x
          /\ ((w + x) \div RecordSize) * RecordSize \in Int
      <4> DEFINE a == w + x
                 q == a \div RecordSize
                 r == a % RecordSize
      <4>1. q \in Int /\ r \in 0 .. RecordSize - 1 /\ a = RecordSize * q + r
          BY <3>3, DivMod
      <4>2. q * RecordSize = RecordSize * q /\ q * RecordSize \in Int
          BY <4>1, Dist
      <4>3. q * RecordSize <= a
        <5> HIDE DEF q, r, a
        <5> QED BY <4>1, <4>2, MediaAssumption
      <4> QED BY <4>2, <4>3
    <3>6. w + x <= w + y
        BY <2>2, <2>3, <3>1
    <3> QED BY <2>2, <2>3, <3>1, <3>2, <3>3, <3>4, <3>5, <3>6
  <2> QED BY <2>4, <2>5
<1>16. Capturable'
    BY <1>0, <1>1, <1>7, <1>15 DEF Capturable, t
<1>17. Truly' /\ ServedAsAsked'
    BY <1>0, <1>2 DEF Truly, ServedAsAsked
<1> QED BY <1>10, <1>11, <1>12, <1>14, <1>16, <1>17

-----------------------------------------------------------------------------
(* The reader's and the writer's other ways out.                            *)

\* A mover that writes or reads has a monitor
LEMMA ActiveIs ==
    ASSUME MediaInv, mover.state \in {"ACTIVE", "PAUSED", "HALTED"}
    PROVE  job.at = "monitor" /\ (mover.state # "HALTED" => Engaged)
BY DEF MediaInv, Phases, Engaged

\* Every step that halts the mover and does nothing else
LEMMA HaltsKeep ==
    ASSUME MediaInv,
           BackupEnds \/ MediaFails \/ RecoverEnds \/ CloseLast \/ CancelBackup
    PROVE  MediaInv'
<1>1. mover.state \in {"ACTIVE", "PAUSED"} /\ UNCHANGED <<cart, drive, job, ca, fed, ask>>
    BY DEF BackupEnds, MediaFails, RecoverEnds, CloseLast, CancelBackup, Noticed
<1>2. \E w \in {"CONNECT_CLOSED", "MEDIA_ERROR", "ABORTED"} :
         mover' = [mover EXCEPT !.state = "HALTED", !.why = w]
    BY DEF BackupEnds, MediaFails, RecoverEnds, CloseLast, CancelBackup, Cancels, Halted
<1>3. PICK w \in {"CONNECT_CLOSED", "MEDIA_ERROR", "ABORTED"} :
         mover' = [mover EXCEPT !.state = "HALTED", !.why = w]
    BY <1>2
<1>4. job.at = "monitor"
    BY <1>1, ActiveIs
<1> QED BY <1>1, <1>3, <1>4, RestKeeps

LEMMA ReadOutsideKeeps == ASSUME MediaInv, ReadOutside PROVE MediaInv'
<1>1. job.at = "monitor" /\ job.op = "recover" /\ Engaged
    BY ReadingFacts DEF ReadOutside
<1>2. mover' = [mover EXCEPT !.state = "PAUSED", !.why = "SEEK"]
      /\ UNCHANGED <<cart, drive, job, ca, fed, ask>>
    BY DEF ReadOutside, Paused
<1> QED BY <1>1, <1>2, RestKeeps

\* With the true lengths no read meets the end of a tape's records inside the
\* window of that tape
LEMMA ReadMeetsMarkKeeps == ASSUME MediaInv, ReadMeetsMark PROVE MediaInv'
<1>1. Reading /\ InWindow /\ WantBlock >= Len(cart[drive.tape])
    BY DEF ReadMeetsMark
<1>2. job.at = "monitor" /\ job.op = "recover" /\ Engaged
    BY <1>1, ReadingFacts
<1>3. mover' = [mover EXCEPT !.state = "PAUSED", !.why = "EOF"]
      /\ drive' = [drive EXCEPT !.block = Len(cart[drive.tape])]
      /\ UNCHANGED <<cart, job, ca, fed, ask>>
    BY DEF ReadMeetsMark, Paused
<1>4. Len(cart[drive.tape]) \in Nat /\ WantBlock \in Nat
    BY <1>1, ReadingFacts, TrueWindow
<1>5. job.list # "exact"
  <2>1. job.list = "exact" => WantBlock < Len(cart[drive.tape])
      BY <1>1, TrueWindow
  <2> QED BY <1>1, <1>4, <2>1
<1> QED BY <1>2, <1>3, <1>4, <1>5, RestKeeps

-----------------------------------------------------------------------------
(* The start of an operation.                                               *)

\* A media table of whole records, of no more tapes than there are
Tabled(tab) ==
    /\ tab \in Seq(Entry)
    /\ Len(tab) \in 1 .. Tapes
    /\ \A m \in 1 .. Len(tab) : tab[m].n % RecordSize = 0

\* A media table with the lengths of what is on the tapes
TrueTable(tab) ==
    \A m \in 1 .. Len(tab) : tab[m].valid /\ tab[m].n = Len(cart[m]) * RecordSize

\* No length of a part of the image is NDMP_LENGTH_INFINITY
LEMMA InfinityIs ==
    /\ Infinity \in Nat /\ Infinity % RecordSize = 0
    /\ \A n \in 0 .. ImageRecords : n * RecordSize \in Nat /\ n * RecordSize < Infinity
<1>1. ImageRecords + 2 \in Nat /\ Infinity = (ImageRecords + 2) * RecordSize
    BY MediaAssumption, Dist DEF Infinity
<1>2. Infinity \in Nat
    BY MediaAssumption DEF Infinity
<1>3. Infinity % RecordSize = 0
    BY <1>1, Whole
<1>4. ASSUME NEW n \in 0 .. ImageRecords
      PROVE  n * RecordSize \in Nat /\ n * RecordSize < Infinity
  <2>1. n \in Nat /\ n < ImageRecords + 2
      BY MediaAssumption
  <2>2. n * RecordSize \in Nat
      BY <2>1, MediaAssumption
  <2> DEFINE b == ImageRecords + 2
  <2> HIDE DEF b
  <2>3. b \in Nat /\ n < b /\ Infinity = b * RecordSize
      BY <1>1, <2>1 DEF b
  <2>4. n * RecordSize < b * RecordSize
      BY <2>1, <2>3, Mono
  <2> QED BY <2>2, <2>3, <2>4
<1> QED BY <1>2, <1>3, <1>4

\* What is on one tape is not more than the image has
LEMMA PartOfImage ==
    ASSUME MediaInv, NEW m \in Media
    PROVE  Len(cart[m]) \in 0 .. ImageRecords
<1>1. cart \in Carts /\ StartOf(cart, Tapes) = fed /\ fed \in 0 .. ImageRecords
    BY DEF MediaInv, TypeOK, Carts, Placed
<1>2. /\ Len(cart[m]) \in Nat /\ StartOf(cart, m - 1) \in Nat
      /\ StartOf(cart, m - 1) + Len(cart[m]) <= StartOf(cart, Tapes)
    BY <1>1, PartFits
<1> QED BY <1>1, <1>2, MediaAssumption

\* What a start is given and finds
Startable(op, list, tab) ==
    /\ op \in {"backup", "recover"} /\ list \in {"none", "exact", "indexed"}
    /\ Tabled(tab)
    /\ list # "none" => op = "recover"
    /\ list = "exact" => TrueTable(tab)
    /\ op = "backup" => /\ Len(tab) = Tapes
                        /\ \A m \in Media : cart[m] = <<>>
    /\ ask = NoRead

\* ndmca_backreco_startup(), whether the tape loads or not
LEMMA StartupKeeps ==
    ASSUME MediaInv, NEW op, NEW list, NEW tab, Startable(op, list, tab),
           Starts(op, list, tab)
    PROVE  MediaInv'
<1> USE DEF MediaInv
<1>0. /\ op \in {"backup", "recover"} /\ list \in {"none", "exact", "indexed"}
      /\ list # "none" => op = "recover"
      /\ Tabled(tab) /\ (list = "exact" => TrueTable(tab))
      /\ op = "backup" => Len(tab) = Tapes /\ \A m \in Media : cart[m] = <<>>
      /\ cart' = cart /\ fed' = fed /\ ask' = ask /\ ask = NoRead
    BY DEF Startable, Starts
<1>1. /\ tab \in Seq(Entry) /\ Len(tab) \in Nat /\ 1 \in 1 .. Len(tab) /\ Len(tab) <= Tapes
      /\ 1 \in Media /\ tab[1] \in Entry /\ tab[1].n \in Nat
  <2>1. tab \in Seq(Entry) /\ Len(tab) \in 1 .. Tapes
      BY <1>0 DEF Tabled
  <2>2. Len(tab) \in Nat /\ 1 \in 1 .. Len(tab) /\ Len(tab) <= Tapes /\ 1 \in Media
      BY <2>1, TapesIs
  <2>3. tab[1] \in Entry
      BY <2>1, <2>2
  <2> QED BY <2>1, <2>2, <2>3 DEF Entry
<1>2. 0 % RecordSize = 0 /\ 0 \div RecordSize = 0 /\ 0 * RecordSize = 0
    BY MediaAssumption
<1>3. ca' = [tab |-> tab, cur |-> 1, lastw |-> 0]
      /\ job' \in [op : {op}, at : {"monitor", "failed"}, list : {list}]
    BY DEF Starts, SetWindow
<1>4. /\ ca'.tab = tab /\ ca'.cur = 1 /\ ca'.lastw = 0 /\ job'.op = op /\ job'.list = list
      /\ job'.at \in {"monitor", "failed"}
    BY <1>3
<1> DEFINE e == IF tab[1].n = Infinity THEN Infinity ELSE 0 + tab[1].n
           up == [Windowed(Stopped(0), 0, tab[1].n, 0) EXCEPT !.state = "LISTEN"]
<1>5. \/ /\ job'.at = "monitor" /\ drive' = [tape |-> 1, block |-> 0] /\ mover' = up
      \/ /\ job'.at = "failed" /\ drive' = [tape |-> 0, block |-> 0] /\ mover' = Stopped(0)
  <2> HIDE DEF up
  <2> QED BY <1>4 DEF up, Starts, Loads, LoadFails, SetWindow
<1>6. e = tab[1].n /\ e \in Nat
    BY <1>1
<1>a. Stopped(0) \in MoverType /\ Stopped(0).want = 0 /\ Stopped(0).tb = NoBlock
    BY InfinityIs DEF MoverType, Stopped, NoBlock
<1>b. /\ up \in MoverType /\ up.state = "LISTEN" /\ up.want = 0 /\ up.off = 0 /\ up.end = e
      /\ up.first = 0 /\ up.num = 0 /\ up.tb = NoBlock
  <2> DEFINE z == Stopped(0)
  <2>1. up = [[z EXCEPT !.off = 0, !.end = e, !.num = 0, !.first = 0] EXCEPT !.state = "LISTEN"]
    <3> HIDE DEF z
    <3> QED BY <1>2, Zenon DEF Windowed, e, z
  <2> HIDE DEF z, e, up
  <2>2. z \in MoverType /\ z.want = 0 /\ z.tb = NoBlock
      BY <1>a DEF z
  <2> QED BY <1>6, <2>1, <2>2 DEF MoverType
<1> HIDE DEF e, up
<1>7. mover' \in MoverType
    BY <1>5, <1>a, <1>b
<1>8. TypeOK'
  <2>1. ca' \in [tab : Seq([valid : BOOLEAN, n : Nat]), cur : Media, lastw : Nat]
      BY <1>1, <1>3 DEF Entry
  <2>2. drive' \in [tape : Media \cup {0}, block : Nat]
      BY <1>1, <1>5
  <2>3. job' \in [op : {"none", "backup", "recover"},
                  at : {"idle", "monitor", "over", "failed"},
                  list : {"none", "exact", "indexed"}]
      BY <1>0, <1>3
  <2> QED BY <1>0, <1>7, <2>1, <2>2, <2>3 DEF TypeOK, MoverType
<1>9. Placed' /\ ServedAsAsked'
  <2>1. Len(ask'.out) = 0
      BY <1>0 DEF NoRead
  <2> QED BY <1>0, <2>1 DEF Placed, ServedAsAsked
<1>10. mover'.state = "IDLE" <=> job'.at # "monitor"
    BY <1>5, <1>b DEF Stopped
<1>11. Phases'
    BY <1>0, <1>1, <1>4, <1>10 DEF Phases
<1>12. Engaged' => job'.at = "monitor" /\ drive' = [tape |-> 1, block |-> 0] /\ mover' = up
    BY <1>5, <1>10 DEF Engaged, Stopped
<1>c. job'.at = "monitor" => mover' = up
    BY <1>5
<1>13. Loaded'
  <2>1. ask'.off = 0 /\ Len(ask'.out) = 0 /\ Len(<<>>) = 0
      BY <1>0 DEF NoRead
  <2> QED BY <1>0, <1>1, <1>4, <1>b, <1>12, <2>1 DEF Loaded
<1>14. Capturable'
  <2>1. Begin(tab, 1) = 0
      BY <1>1, BeginIs
  <2>2. job'.at = "monitor" => mover'.num = 0 /\ mover'.want = 0
      BY <1>b, <1>c
  <2> QED BY <1>0, <1>2, <1>4, <2>1, <2>2 DEF Capturable, Tabled
<1>15. Truly'
  <2> SUFFICES ASSUME list = "exact", job'.at = "monitor" PROVE Truly'
      BY <1>4 DEF Truly
  <2>1. mover' = up
      BY <1>c
  <2>2. StartOf(cart, 0) = 0
      BY StartOfIs
  <2>3. tab[1].n = Len(cart[1]) * RecordSize
      BY <1>0, <1>1 DEF TrueTable
  <2>4. mover'.end = 0 + Len(cart[1]) * RecordSize
      BY <1>6, <1>b, <2>1, <2>3
  <2>5. mover'.first = 0 /\ mover'.off = 0 /\ mover'.state = "LISTEN"
      BY <1>b, <2>1
  <2>6. 1 - 1 = 0
      OBVIOUS
  <2> QED BY <1>0, <1>2, <1>4, <2>2, <2>4, <2>5, <2>6 DEF Truly, TrueTable
<1> QED BY <1>8, <1>9, <1>11, <1>13, <1>14, <1>15

LEMMA ListedIs ==
    ASSUME NEW n \in Nat
    PROVE  Listed(n) \in Entry /\ Listed(n).n = n /\ (n # Infinity => Listed(n).valid)
BY DEF Listed, Entry

LEMMA StartBackupKeeps == ASSUME MediaInv, StartBackup PROVE MediaInv'
<1>1. PICK n \in [Media -> Lengths] : Starts("backup", "none", [m \in Media |-> Listed(n[m])])
    BY DEF StartBackup
<1>2. \A m \in Media : n[m] \in Nat /\ n[m] % RecordSize = 0
  <2> SUFFICES ASSUME NEW m \in Media PROVE n[m] \in Nat /\ n[m] % RecordSize = 0
      OBVIOUS
  <2>1. n[m] \in {r * RecordSize : r \in 0 .. ImageRecords} \/ n[m] = Infinity
      BY LengthsAssumption
  <2>2. CASE n[m] = Infinity
      BY <2>2, InfinityIs
  <2>3. CASE n[m] # Infinity
    <3>1. PICK r \in 0 .. ImageRecords : n[m] = r * RecordSize
        BY <2>1, <2>3
    <3>2. r \in Nat
        BY MediaAssumption
    <3> QED BY <3>1, <3>2, InfinityIs, Whole
  <2> QED BY <2>2, <2>3
<1> DEFINE tab == [m \in Media |-> Listed(n[m])]
<1>3. Tabled(tab) /\ Len(tab) = Tapes
  <2>1. \A m \in Media : tab[m] \in Entry /\ tab[m].n % RecordSize = 0
      BY <1>2, ListedIs
  <2>2. Media = 1 .. Tapes /\ Tapes \in Nat /\ Tapes \in 1 .. Tapes
      BY TapesIs
  <2>3. tab = [m \in Media |-> tab[m]]
      OBVIOUS
  <2> HIDE DEF tab
  <2>4. tab \in Seq(Entry) /\ Len(tab) = Tapes
      BY <2>1, <2>2, <2>3
  <2> QED BY <2>1, <2>2, <2>4 DEF Tabled
<1>4. ask = NoRead /\ \A m \in Media : cart[m] = <<>>
    BY DEF MediaInv, Phases, StartBackup
<1> HIDE DEF tab
<1>5. Startable("backup", "none", tab)
    BY <1>3, <1>4 DEF Startable
<1> QED BY <1>1, <1>5, StartupKeeps DEF tab

\* The table a recover is given is of whole records, and true if it is exact
LEMMA StartRecoverKeeps == ASSUME MediaInv, StartRecover PROVE MediaInv'
<1>1. PICK kind \in Tables : Starts("recover", kind, GivenTable(kind))
    BY DEF StartRecover
<1> DEFINE tab == GivenTable(kind)
           c == ca.cur
<1>2. kind \in {"exact", "indexed", "none"}
    BY MediaAssumption
<1>3. /\ c \in 1 .. Len(ca.tab) /\ c \in 1 .. Tapes /\ c \in Nat
      /\ 1 .. c \subseteq 1 .. Len(ca.tab) /\ 1 .. c \subseteq Media
      /\ ca.tab \in Seq(Entry)
  <2>1. ca.tab \in Seq(Entry) /\ c \in Media
      BY DEF MediaInv, TypeOK, Entry
  <2>2. c \in 1 .. Len(ca.tab) /\ Len(ca.tab) \in Nat
      BY <2>1 DEF MediaInv, Phases, StartRecover
  <2> HIDE DEF c
  <2> QED BY <2>1, <2>2, TapesIs
<1>4. ASSUME NEW m \in 1 .. c
      PROVE  /\ tab[m] \in Entry /\ tab[m].n % RecordSize = 0
             /\ kind = "exact" => tab[m].valid /\ tab[m].n = Len(cart[m]) * RecordSize
  <2>0. m \in Media /\ m \in 1 .. Len(ca.tab)
      BY <1>3
  <2>1. CASE kind = "exact"
    <3> DEFINE n == Len(cart[m])
    <3>1. n \in 0 .. ImageRecords /\ n \in Nat
        BY <2>0, PartOfImage, MediaAssumption
    <3>2. tab[m] = Listed(n * RecordSize)
        BY <2>1 DEF GivenTable
    <3> HIDE DEF n
    <3>3. n * RecordSize \in Nat /\ n * RecordSize < Infinity /\ (n * RecordSize) % RecordSize = 0
        BY <3>1, InfinityIs, Whole
    <3>4. n * RecordSize # Infinity
        BY <3>3, InfinityIs
    <3> DEFINE x == n * RecordSize
    <3>5. x \in Nat /\ x # Infinity /\ x % RecordSize = 0 /\ tab[m] = Listed(x)
        BY <3>2, <3>3, <3>4
    <3> HIDE DEF x, tab
    <3>6. tab[m] \in Entry /\ tab[m].n = x /\ tab[m].valid
        BY <3>5, ListedIs
    <3> QED BY <3>5, <3>6 DEF x, n
  <2>2. CASE kind = "indexed"
    <3> DEFINE x == ca.tab[m].n
    <3>1. x \in Nat /\ x % RecordSize = 0
      <4>1. ca.tab[m] \in Entry
          BY <1>3, <2>0
      <4> QED BY <2>0, <4>1 DEF MediaInv, Capturable, Entry
    <3>2. tab[m] = Listed(x)
        BY <2>2 DEF GivenTable
    <3> HIDE DEF x, tab
    <3> QED BY <2>2, <3>1, <3>2, ListedIs
  <2>3. CASE kind = "none"
    <3>1. tab[m] = Listed(Infinity)
        BY <2>3 DEF GivenTable
    <3> HIDE DEF tab
    <3> QED BY <2>3, <3>1, ListedIs, InfinityIs
  <2> HIDE DEF tab, c
  <2> QED BY <1>2, <2>1, <2>2, <2>3
<1>5. Tabled(tab) /\ Len(tab) = c
  <2>1. tab = [m \in 1 .. c |-> tab[m]]
    <3> DEFINE F(m) == CASE kind = "exact" -> Listed(Len(cart[m]) * RecordSize)
                         [] kind = "indexed" -> Listed(ca.tab[m].n)
                         [] kind = "none" -> Listed(Infinity)
    <3>1. tab = [m \in 1 .. c |-> F(m)]
        BY Zenon DEF GivenTable
    <3> HIDE DEF F, tab, c
    <3> QED BY <3>1
  <2> HIDE DEF tab, c
  <2>2. tab \in Seq(Entry) /\ Len(tab) = c
      BY <1>3, <1>4, <2>1
  <2> QED BY <1>3, <1>4, <2>2 DEF Tabled
<1>6. kind = "exact" => TrueTable(tab)
  <2> HIDE DEF tab, c
  <2> QED BY <1>4, <1>5 DEF TrueTable
<1>7. ask = NoRead
    BY DEF MediaInv, Phases, StartRecover
<1> HIDE DEF tab
<1>8. Startable("recover", kind, tab)
    BY <1>2, <1>5, <1>6, <1>7 DEF Startable
<1> QED BY <1>1, <1>8, StartupKeeps DEF tab

-----------------------------------------------------------------------------
(* The monitor's remedies.                                                  *)

\* Capturing the window gives a length, and the next tape begins no later than
\* the last record that was moved ends
LEMMA CapturedIs ==
    ASSUME MediaInv, job.at = "monitor", drive.tape # 0
    PROVE  /\ Tabled(Captured) /\ Len(Captured) = Len(ca.tab)
           /\ Begin(Captured, ca.cur + 1) <= mover.num * RecordSize
<1> DEFINE b == mover.num * RecordSize
           x == b - ca.lastw
           c == ca.cur
<1>1. /\ ca.tab \in Seq(Entry) /\ mover.num \in Nat /\ ca.lastw \in Nat
      /\ Len(ca.tab) \in Nat /\ c \in 1 .. Len(ca.tab) /\ Len(ca.tab) <= Tapes
      /\ ca.lastw <= b /\ ca.lastw % RecordSize = 0 /\ ca.lastw = Begin(ca.tab, c)
      /\ \A m \in 1 .. Len(ca.tab) : ca.tab[m].n % RecordSize = 0
  <2>1. job.op # "none"
      BY DEF MediaInv, Phases
  <2>2. ca.tab \in Seq(Entry) /\ mover.num \in Nat /\ ca.lastw \in Nat
      BY DEF MediaInv, TypeOK, Entry
  <2> QED BY <2>1, <2>2 DEF MediaInv, Phases, Capturable
<1>2. b \in Nat /\ b % RecordSize = 0
  <2> DEFINE k == mover.num
  <2>1. k \in Nat
      BY <1>1
  <2> HIDE DEF k
  <2>2. k * RecordSize \in Nat /\ (k * RecordSize) % RecordSize = 0
      BY <2>1, Whole, MediaAssumption
  <2> QED BY <2>2 DEF k
<1> HIDE DEF b
<1>3. x \in Nat /\ x % RecordSize = 0
  <2> HIDE DEF c
  <2> DEFINE a == ca.lastw
  <2>1. a \in Nat /\ a % RecordSize = 0 /\ a <= b
      BY <1>1
  <2>2. x = b - a
      OBVIOUS
  <2> HIDE DEF a, x
  <2>3. a \in Int /\ b \in Int
      BY <1>2, <2>1
  <2>4. (b - a) % RecordSize = 0
      BY <1>2, <2>1, <2>3, WholeSum
  <2> QED BY <1>2, <2>1, <2>2, <2>4
<1>4. Captured = [ca.tab EXCEPT ![c] = Listed(x)]
    BY DEF Captured, CapturedLength, x, b
<1> HIDE DEF x, c
<1>5. Listed(x) \in Entry /\ Listed(x).n = x /\ Part(Listed(x)) \in {0, x}
    BY <1>3, ListedIs DEF Part
<1>6. /\ Captured \in Seq(Entry) /\ Len(Captured) = Len(ca.tab)
      /\ Captured[c] = Listed(x) /\ \A m \in 1 .. Len(ca.tab) : m # c => Captured[m] = ca.tab[m]
    BY <1>1, <1>4, <1>5
<1>7. Tabled(Captured)
  <2>1. Len(ca.tab) \in 1 .. Tapes
      BY <1>1, TapesIs
  <2>2. \A m \in 1 .. Len(Captured) : Captured[m].n % RecordSize = 0
      BY <1>1, <1>3, <1>5, <1>6
  <2> QED BY <1>6, <2>1, <2>2 DEF Tabled
<1>8. Begin(Captured, c) = ca.lastw
  <2>1. \A m \in 1 .. c - 1 : Captured[m] = ca.tab[m]
      BY <1>1, <1>6
  <2>2. Len(Captured) = Len(ca.tab) /\ Len(ca.tab) \in Nat /\ c \in 1 .. Len(ca.tab)
      BY <1>1, <1>6
  <2> DEFINE d == Captured
             t == ca.tab
  <2> HIDE DEF d, t
  <2>3. Begin(d, c) = Begin(t, c)
      BY <2>1, <2>2, BeginSame DEF d, t
  <2> QED BY <1>1, <2>3 DEF d, t
<1>9. Begin(Captured, c + 1) = ca.lastw + Part(Captured[c])
    BY <1>1, <1>6, <1>8, BeginIs
<1>10. ca.lastw + x = b
    BY <1>1, <1>2 DEF x
<1>11. Begin(Captured, c + 1) <= b
    BY <1>1, <1>2, <1>3, <1>5, <1>6, <1>9, <1>10
<1> QED BY <1>6, <1>7, <1>11 DEF b, c

\* What the monitor does next is an act of a remedy
Remedied(tab, exists, m) ==
    /\ Tabled(tab) /\ Len(tab) = Len(ca.tab)
    /\ exists => m \in 1 .. Len(tab)
    /\ job.op = "backup" /\ exists =>
          m = ca.cur + 1 /\ Begin(tab, m) <= mover.num * RecordSize
    /\ job.list = "exact" => tab = ca.tab

\* Any remedy that is given a table of whole records and a tape of that table
LEMMA RemedyKeeps ==
    ASSUME MediaInv, Noticed, NEW tab, NEW exists \in BOOLEAN, NEW m,
           Remedied(tab, exists, m), Remedy(tab, exists, m),
           UNCHANGED <<cart, job, fed, ask>>
    PROVE  MediaInv'
<1> USE DEF MediaInv
<1>0. /\ cart' = cart /\ fed' = fed /\ ask' = ask /\ job' = job /\ mover \in MoverType
      /\ job.at = "monitor" /\ job.op # "none" /\ mover.state = "PAUSED" /\ Engaged
      /\ drive.tape # 0 /\ drive.tape = ca.cur
  <2>1. mover.state = "PAUSED" /\ mover \in MoverType /\ ca.cur \in Media /\ job.at = "monitor"
      BY DEF TypeOK, MoverType, Noticed
  <2> QED BY <2>1, TapesIs DEF Phases, Loaded, Engaged
<1>1. /\ tab \in Seq(Entry) /\ Len(tab) \in Nat /\ Len(tab) = Len(ca.tab) /\ Len(tab) <= Tapes
      /\ \A k \in 1 .. Len(tab) : tab[k].n % RecordSize = 0
      /\ ca.cur \in 1 .. Len(tab) /\ ca.cur \in Media /\ ca.cur \in Nat
      /\ ca \in [tab : Seq(Entry), cur : Media, lastw : Nat]
  <2>1. /\ tab \in Seq(Entry) /\ Len(tab) = Len(ca.tab) /\ Len(tab) \in 1 .. Tapes
        /\ \A k \in 1 .. Len(tab) : tab[k].n % RecordSize = 0
      BY DEF Remedied, Tabled
  <2>2. ca \in [tab : Seq(Entry), cur : Media, lastw : Nat]
      BY DEF TypeOK, Entry
  <2>3. ca.cur \in 1 .. Len(ca.tab)
      BY <1>0 DEF Phases
  <2> QED BY <2>1, <2>2, <2>3, TapesIs
<1>2. /\ mover'.state \in {"ACTIVE", "HALTED"} /\ mover' \in MoverType
      /\ drive' \in [tape : Media \cup {0}, block : Nat]
      /\ ca'.tab = tab /\ ca'.cur \in 1 .. Len(tab)
      /\ ca' \in [tab : Seq(Entry), cur : Media, lastw : Nat]
      /\ ca'.lastw % RecordSize = 0
      /\ job.op = "backup" => ca'.cur >= ca.cur
      /\ \/ drive'.tape = 0 /\ mover'.state = "HALTED"
         \/ /\ mover'.state = "ACTIVE" /\ exists
            /\ drive' = [tape |-> m, block |-> 0] /\ ca'.cur = m
            /\ ca'.lastw = Begin(tab, m) /\ mover'.off = Begin(tab, m)
            /\ mover'.num = Begin(tab, m) \div RecordSize /\ mover'.want = mover.want
            /\ mover'.first = 0 /\ mover'.tb = NoBlock
            /\ mover'.end = IF tab[m].n = Infinity THEN Infinity ELSE Begin(tab, m) + tab[m].n
  <2>a. exists => /\ m \in 1 .. Len(tab) /\ m \in Media /\ m \in Nat
                  /\ job.op = "backup" => m >= ca.cur
    <3> SUFFICES ASSUME exists
                 PROVE  /\ m \in 1 .. Len(tab) /\ m \in Media /\ m \in Nat
                        /\ job.op = "backup" => m >= ca.cur
        OBVIOUS
    <3>1. m \in 1 .. Len(tab) /\ (job.op = "backup" => m = ca.cur + 1)
        BY DEF Remedied
    <3> QED BY <1>1, <3>1, TapesIs
  <2>b. ca.lastw % RecordSize = 0
      BY DEF Capturable
  <2>c. Halted(mover, "ABORTED") \in MoverType /\ Halted(mover, "ABORTED").state = "HALTED"
      BY <1>0 DEF Halted, MoverType
  <2>1. CASE /\ exists /\ Loads(m)
             /\ SetWindow(tab, m, Begin(tab, m), Active(WindowOf(tab, m)))
    <3> DEFINE b == Begin(tab, m)
               q == b \div RecordSize
               e == IF tab[m].n = Infinity THEN Infinity ELSE b + tab[m].n
               w == Active(WindowOf(tab, m))
    <3>1. b \in Nat /\ b % RecordSize = 0
      <4>1. m \in 1 .. Len(tab) + 1
          BY <1>1, <2>1, <2>a
      <4> QED BY <1>1, <4>1, BeginWhole
    <3>2. q \in Nat /\ e \in Nat
      <4>1. tab[m] \in Entry
          BY <1>1, <2>1, <2>a
      <4>2. tab[m].n \in Nat
          BY <4>1 DEF Entry
      <4> HIDE DEF b
      <4> QED BY <3>1, <4>2, DivNat, InfinityIs
    <3>3. w = [[mover EXCEPT !.off = b, !.end = e, !.num = q, !.first = 0]
                  EXCEPT !.state = "ACTIVE", !.why = "NA", !.tb = NoBlock]
        BY Zenon DEF Active, WindowOf, Windowed
    <3> HIDE DEF b, e, q, w
    <3>4. /\ w \in MoverType /\ w.state = "ACTIVE" /\ w.want = mover.want /\ w.off = b
          /\ w.end = e /\ w.first = 0 /\ w.num = q /\ w.tb = NoBlock
        BY <1>0, <3>1, <3>2, <3>3 DEF MoverType, NoBlock
    <3>5. mover' = w /\ drive' = [tape |-> m, block |-> 0]
          /\ ca' = [tab |-> tab, cur |-> m, lastw |-> b]
        BY <2>1 DEF Loads, SetWindow, w, b
    <3> QED BY <1>1, <2>1, <2>a, <3>1, <3>4, <3>5 DEF b, e, q
  <2>2. CASE /\ exists /\ LoadFails /\ Cancels
             /\ ca' = [ca EXCEPT !.tab = tab, !.cur = m]
    <3>1. /\ mover' = Halted(mover, "ABORTED") /\ drive' = [tape |-> 0, block |-> 0]
        BY <2>2 DEF LoadFails, Cancels
    <3>2. /\ ca'.tab = tab /\ ca'.cur = m /\ ca'.lastw = ca.lastw
          /\ ca' \in [tab : Seq(Entry), cur : Media, lastw : Nat]
        BY <1>1, <2>2, <2>a
    <3> QED BY <2>2, <2>a, <2>b, <2>c, <3>1, <3>2
  <2>3. CASE /\ ~exists /\ drive' = [tape |-> 0, block |-> 0] /\ Cancels
             /\ ca' = [ca EXCEPT !.tab = tab]
    <3>1. mover' = Halted(mover, "ABORTED")
        BY <2>3 DEF Cancels
    <3>2. /\ ca'.tab = tab /\ ca'.cur = ca.cur /\ ca'.lastw = ca.lastw
          /\ ca' \in [tab : Seq(Entry), cur : Media, lastw : Nat]
        BY <1>1, <2>3
    <3> QED BY <1>1, <2>3, <2>b, <2>c, <3>1, <3>2
  <2> QED BY <2>1, <2>2, <2>3 DEF Remedy
<1>3. TypeOK'
    BY <1>0, <1>2 DEF TypeOK, MoverType, Entry
<1>4. Placed' /\ ServedAsAsked'
    BY <1>0 DEF Placed, ServedAsAsked
<1>5. Phases'
  <2>1. \A k \in Media : job.op = "backup" /\ k > ca'.cur => cart[k] = <<>>
    <3> SUFFICES ASSUME NEW k \in Media, job.op = "backup", k > ca'.cur
                 PROVE  cart[k] = <<>>
        OBVIOUS
    <3>1. k > ca.cur
        BY <1>1, <1>2, TapesIs
    <3> QED BY <3>1 DEF Phases
  <2>2. ca'.cur \in 1 .. Len(ca'.tab) /\ Len(ca'.tab) = Len(ca.tab) /\ Len(ca'.tab) <= Tapes
      BY <1>1, <1>2
  <2>3. mover'.state # "IDLE"
      BY <1>2
  <2> QED BY <1>0, <2>1, <2>2, <2>3 DEF Phases
<1>6. CASE drive'.tape = 0 /\ mover'.state = "HALTED"
  <2>1. ~ Engaged'
      BY <1>6 DEF Engaged
  <2>2. Loaded'
      BY <2>1 DEF Loaded
  <2>3. Capturable'
      BY <1>1, <1>2, <1>6 DEF Capturable
  <2>4. Truly'
      BY <1>0, <1>2, <1>6, <2>1 DEF Truly, Remedied
  <2> QED BY <1>3, <1>4, <1>5, <2>2, <2>3, <2>4
<1>7. CASE /\ mover'.state = "ACTIVE" /\ exists
           /\ drive' = [tape |-> m, block |-> 0] /\ ca'.cur = m
           /\ ca'.lastw = Begin(tab, m) /\ mover'.off = Begin(tab, m)
           /\ mover'.num = Begin(tab, m) \div RecordSize /\ mover'.want = mover.want
           /\ mover'.first = 0 /\ mover'.tb = NoBlock
           /\ mover'.end = IF tab[m].n = Infinity THEN Infinity ELSE Begin(tab, m) + tab[m].n
  <2>1. m \in 1 .. Len(tab) /\ m \in Media
      BY <1>2, <1>7
  <2>2. job.op = "backup" => m > ca.cur
      BY <1>1, <1>7 DEF Remedied
  <2>3. Loaded'
    <3>1. job.op = "backup" => Len(cart[m]) = 0
        BY <2>1, <2>2 DEF Phases
    <3>2. job.op = "recover" => mover.want = ask.off + Len(ask.out)
        BY <1>0 DEF Loaded
    <3> QED BY <1>0, <1>7, <3>1, <3>2 DEF Loaded
  <2>4. Capturable'
    <3> DEFINE b == Begin(tab, m)
               q == b \div RecordSize
    <3>1. b \in Nat /\ b % RecordSize = 0
      <4>1. m \in 1 .. Len(tab) + 1
          BY <1>1, <2>1
      <4> QED BY <1>1, <4>1, BeginWhole
    <3>2. q * RecordSize = b
      <4> HIDE DEF b
      <4> QED BY <3>1, WholeIs
    <3>3. job.op = "backup" => b <= mover.want
      <4>1. job.op = "backup" => b <= mover.num * RecordSize /\ mover.num * RecordSize <= mover.want
          BY <1>0, <1>7 DEF Remedied, Capturable
      <4> DEFINE c == mover.num
      <4>2. c \in Nat /\ mover.want \in Nat
          BY <1>0 DEF MoverType
      <4> HIDE DEF c
      <4>3. c * RecordSize \in Int
          BY <4>2, Dist
      <4> HIDE DEF b
      <4> QED BY <3>1, <4>1, <4>2, <4>3 DEF c
    <3>4. ca'.tab = tab /\ ca'.lastw = b /\ mover'.num = q /\ mover'.want = mover.want
          /\ ca'.cur = m
        BY <1>2, <1>7
    <3> HIDE DEF q
    <3>5. ca'.lastw <= mover'.num * RecordSize
        BY <3>1, <3>2, <3>4
    <3>6. job.op = "backup" => mover'.num * RecordSize <= mover'.want
        BY <3>2, <3>3, <3>4
    <3> QED BY <1>0, <1>1, <1>2, <3>1, <3>4, <3>5, <3>6 DEF Capturable
  <2>5. Truly'
    <3> SUFFICES ASSUME job.list = "exact" PROVE Truly'
        BY <1>0 DEF Truly
    <3>1. tab = ca.tab
        BY DEF Remedied
    <3>2. \A k \in 1 .. Len(tab) : tab[k].valid /\ tab[k].n = Len(cart[k]) * RecordSize
        BY <1>0, <3>1 DEF Truly
    <3>3. Begin(tab, m) = StartOf(cart, m - 1) * RecordSize
      <4>1. cart \in Carts
          BY DEF TypeOK, Carts
      <4> QED BY <1>1, <2>1, <3>2, <4>1, BeginExact
    <3>4. tab[m].n = Len(cart[m]) * RecordSize /\ tab[m].n # Infinity
      <4> DEFINE n == Len(cart[m])
      <4>1. n \in 0 .. ImageRecords
          BY <2>1, PartOfImage
      <4>2. tab[m].n = n * RecordSize
          BY <2>1, <3>2
      <4> HIDE DEF n
      <4>3. n * RecordSize \in Nat /\ n * RecordSize < Infinity
          BY <4>1, InfinityIs
      <4> QED BY <4>2, <4>3, InfinityIs DEF n
    <3>5. mover'.end = mover'.off + Len(cart[m]) * RecordSize
        BY <1>7, <3>4
    <3> QED BY <1>0, <1>2, <1>7, <3>2, <3>3, <3>5 DEF Truly
  <2> QED BY <1>3, <1>4, <1>5, <2>3, <2>4, <2>5
<1> QED BY <1>2, <1>6, <1>7

\* With the true lengths no tape is left but for a position on another
LEMMA LoadNextKeeps == ASSUME MediaInv, LoadNext PROVE MediaInv'
<1> DEFINE exists == ca.cur < Len(ca.tab)
           m == ca.cur + 1
<1>1. /\ Noticed /\ Remedy(Captured, exists, m) /\ UNCHANGED <<cart, job, fed, ask>>
      /\ mover.state = "PAUSED" /\ job.at = "monitor" /\ mover.why # "SEEK"
    BY DEF LoadNext, Noticed
<1>2. /\ drive.tape # 0 /\ job.list # "exact" /\ ca.cur \in 1 .. Len(ca.tab)
      /\ Len(ca.tab) \in Nat
  <2>1. Engaged /\ job.op # "none" /\ ca.cur \in Media /\ ca.tab \in Seq(Entry)
      BY <1>1 DEF MediaInv, TypeOK, Phases, Engaged, Entry
  <2> QED BY <1>1, <2>1, TapesIs DEF MediaInv, Phases, Loaded, Truly
<1>3. Remedied(Captured, exists, m)
  <2>1. /\ Tabled(Captured) /\ Len(Captured) = Len(ca.tab)
        /\ Begin(Captured, m) <= mover.num * RecordSize
      BY <1>1, <1>2, CapturedIs
  <2>2. exists => m \in 1 .. Len(ca.tab)
      BY <1>2
  <2> QED BY <1>2, <2>1, <2>2 DEF Remedied
<1> HIDE DEF exists, m
<1>4. exists \in BOOLEAN
    BY DEF exists
<1> QED BY <1>1, <1>3, <1>4, RemedyKeeps

\* The tape that is sought is one of the table
LEMMA SeekTapeKeeps == ASSUME MediaInv, SeekTape PROVE MediaInv'
<1> DEFINE on == Holding(ca.tab, mover.want)
           exists == on # {}
           m == IF on = {} THEN ca.cur ELSE Lowest(on)
<1>1. /\ Noticed /\ Remedy(ca.tab, exists, m) /\ UNCHANGED <<cart, job, fed, ask>>
      /\ job.op = "recover" /\ mover.state = "PAUSED" /\ job.at = "monitor"
    BY DEF SeekTape, Noticed
<1>2. on \subseteq 1 .. Len(ca.tab)
    BY DEF Holding
<1>3. Remedied(ca.tab, exists, m)
  <2>1. Tabled(ca.tab)
    <3>1. /\ ca.tab \in Seq(Entry) /\ Len(ca.tab) <= Tapes
          /\ ca.cur \in 1 .. Len(ca.tab)
        BY <1>1 DEF MediaInv, TypeOK, Phases, Entry
    <3>2. Len(ca.tab) \in 1 .. Tapes
        BY <3>1, TapesIs
    <3> QED BY <3>1, <3>2 DEF Tabled, MediaInv, Capturable
  <2>2. exists => m \in 1 .. Len(ca.tab)
    <3> SUFFICES ASSUME exists PROVE Lowest(on) \in on
        BY <1>2
    <3>1. on \in SUBSET Nat
        BY <1>2
    <3> HIDE DEF on
    <3> QED BY <3>1, LowestIs DEF on
  <2> QED BY <1>1, <2>1, <2>2 DEF Remedied
<1> HIDE DEF m, exists
<1>4. exists \in BOOLEAN
    BY DEF exists
<1> QED BY <1>1, <1>3, <1>4, RemedyKeeps

\* At the end the window is captured once more, if a tape is loaded
LEMMA ShutdownKeeps == ASSUME MediaInv, Shutdown PROVE MediaInv'
<1> USE DEF MediaInv
<1>1. /\ cart' = cart /\ fed' = fed /\ ask' = ask /\ job.at = "monitor"
      /\ drive' = [tape |-> 0, block |-> 0] /\ mover' = Stopped(mover.left)
      /\ ca' = IF drive.tape = 0 THEN ca ELSE [ca EXCEPT !.tab = Captured]
    BY DEF Shutdown
<1>2. PICK a \in {"over", "failed"} : job' = [job EXCEPT !.at = a]
    BY DEF Shutdown
<1>3. job'.op = job.op /\ job'.list = job.list /\ job'.at = a
      /\ job' \in [op : {"none", "backup", "recover"},
                   at : {"idle", "monitor", "over", "failed"},
                   list : {"none", "exact", "indexed"}]
    BY <1>2 DEF TypeOK
<1>4. mover' \in MoverType /\ mover'.state = "IDLE" /\ ~ Engaged'
  <2>1. mover.left \in Nat
      BY DEF TypeOK
  <2> QED BY <1>1, <2>1, InfinityIs DEF MoverType, Stopped, NoBlock, Engaged
<1>5. /\ ca' \in [tab : Seq(Entry), cur : Media, lastw : Nat]
      /\ ca'.cur = ca.cur /\ ca'.lastw = ca.lastw /\ Len(ca'.tab) = Len(ca.tab)
      /\ \A m \in 1 .. Len(ca'.tab) : ca'.tab[m].n % RecordSize = 0
  <2>1. ca \in [tab : Seq(Entry), cur : Media, lastw : Nat]
      BY DEF TypeOK, Entry
  <2>2. CASE drive.tape = 0
      BY <1>1, <2>1, <2>2 DEF Capturable
  <2>3. CASE drive.tape # 0
    <3> DEFINE t == Captured
    <3>1. t \in Seq(Entry) /\ Len(t) = Len(ca.tab) /\ \A m \in 1 .. Len(t) : t[m].n % RecordSize = 0
        BY <1>1, <2>3, CapturedIs DEF Tabled
    <3>2. ca' = [ca EXCEPT !.tab = t]
        BY <1>1, <2>3
    <3> HIDE DEF t
    <3>3. /\ ca' \in [tab : Seq(Entry), cur : Media, lastw : Nat]
          /\ ca'.cur = ca.cur /\ ca'.lastw = ca.lastw /\ ca'.tab = t
        BY <2>1, <3>1, <3>2
    <3> QED BY <3>1, <3>3
  <2> QED BY <2>2, <2>3
<1>6. TypeOK'
    BY <1>1, <1>3, <1>4, <1>5 DEF TypeOK, MoverType, Entry
<1>7. Placed' /\ ServedAsAsked'
    BY <1>1, <1>3 DEF Placed, ServedAsAsked
<1>8. Phases'
    BY <1>1, <1>3, <1>4, <1>5 DEF Phases
<1>9. Loaded' /\ Truly'
    BY <1>3, <1>4 DEF Loaded, Truly
<1>10. Capturable'
    BY <1>1, <1>5 DEF Capturable
<1> QED BY <1>6, <1>7, <1>8, <1>9, <1>10

-----------------------------------------------------------------------------
(* The theorems.                                                            *)

LEMMA MediaStep == MediaInv /\ [Next]_vars => MediaInv'
<1> SUFFICES ASSUME MediaInv, [Next]_vars PROVE MediaInv'
    OBVIOUS
<1>1. CASE MoverNext
    BY <1>1, StartsKeep, WriteKeeps, HaltsKeep, ReadOutsideKeeps, ReadMeetsMarkKeeps,
       ServeKeeps DEF MoverNext
<1>2. CASE MonitorNext
    BY <1>2, LoadNextKeeps, SeekTapeKeeps, HaltsKeep, ShutdownKeeps DEF MonitorNext
<1>3. CASE MediaFails \/ RecoverEnds
    BY <1>3, HaltsKeep
<1>4. CASE StartBackup \/ StartRecover \/ MoverRead
    BY <1>4, StartBackupKeeps, StartRecoverKeeps, AskKeeps
<1>5. CASE UNCHANGED vars
  <2>1. /\ cart' = cart /\ drive' = drive /\ mover' = mover /\ job' = job /\ ca' = ca
        /\ fed' = fed /\ ask' = ask
      BY <1>5 DEF vars
  <2>2. TypeOK' /\ ServedAsAsked'
      BY <2>1 DEF MediaInv, TypeOK, ServedAsAsked
  <2>3. Placed' /\ Phases'
      BY <2>1 DEF MediaInv, Placed, Phases
  <2>4. Loaded' /\ Capturable'
      BY <2>1 DEF MediaInv, Loaded, Capturable, Engaged
  <2>5. Truly'
      BY <2>1 DEF MediaInv, Truly, Engaged
  <2> QED BY <2>2, <2>3, <2>4, <2>5 DEF MediaInv
<1> QED BY <1>1, <1>2, <1>3, <1>4, <1>5 DEF Next, Ended

\* The invariant of the operations on the tapes: where each record of the image
\* lies, what the drive, the tape buffer and the window of the mover have to do
\* with the tape in the drive, and what the media table has to do with the
\* tapes (ndma_ctrl_media.c, ndma_tape.c:400-600).
THEOREM MediaInvariant == Spec => []MediaInv
BY MediaInit, MediaStep, PTL DEF Spec

\* The records, positions and tables have their types; no window, length or
\* position that is computed from others is ever negative, the length a window
\* is captured with among them (ndmca_media_capture_mover_window).
THEOREM TypeCorrect == Spec => []TypeOK
<1>1. MediaInv => TypeOK
    BY DEF MediaInv
<1> QED BY <1>1, MediaInvariant, PTL

\* However a backup goes from tape to tape, and wherever it stops, the tapes in
\* the order of the media list hold the image's records from the first on, none
\* twice and none missing (ndma_tape.c:421-449, ndmca_monitor_load_next).
THEOREM ImageLaidOut == Spec => []LaidOut
<1>1. MediaInv => LaidOut
  <2> SUFFICES ASSUME MediaInv PROVE LaidOut
      OBVIOUS
  <2>1. cart \in Carts /\ Lies(cart) /\ StartOf(cart, Tapes) = fed
      BY DEF MediaInv, TypeOK, Carts, Placed
  <2> QED BY <2>1, LiesIsImage DEF LaidOut
<1> QED BY <1>1, MediaInvariant, PTL

\* A recover that is given the true lengths serves every read with the image
\* units asked for and in order, over as many tapes as the read spans and
\* whatever tape was in the drive before (ndma_tape.c:460-600).
THEOREM ReadsServed == Spec => []ServedAsAsked
<1>1. MediaInv => ServedAsAsked
    BY DEF MediaInv
<1> QED BY <1>1, MediaInvariant, PTL

\* A mover that reads back has the window of the tape that is in the drive, of
\* all of that tape and of nothing else, when the lengths are true
\* (ndmca_media_set_window_current after the load).
THEOREM WindowsAreTrue == Spec => []WindowIsTheTapes
<1>1. MediaInv => WindowIsTheTapes
  <2> SUFFICES ASSUME MediaInv, job.list = "exact", mover.state = "ACTIVE"
               PROVE  LET on == cart[drive.tape]
                      IN  /\ mover.first = 0
                          /\ mover.end = mover.off + Len(on) * RecordSize
                          /\ \A b \in 1 .. Len(on) :
                                on[b] = mover.off \div RecordSize + b - 1
      BY DEF WindowIsTheTapes
  <2>1. job.at = "monitor" /\ Engaged
      BY ActiveIs
  <2>2. drive.tape = ca.cur /\ ca.cur \in Media /\ cart \in Carts /\ Lies(cart)
      BY <2>1 DEF MediaInv, TypeOK, Carts, Loaded, Placed
  <2> DEFINE on == cart[drive.tape]
             k == StartOf(cart, ca.cur - 1)
  <2>3. /\ mover.first = 0 /\ mover.off = k * RecordSize
        /\ mover.end = mover.off + Len(on) * RecordSize
      BY <2>1, <2>2 DEF MediaInv, Truly
  <2>4. mover.off \div RecordSize = k
    <3>1. k \in Int
        BY <2>2, PartFits
    <3> HIDE DEF k
    <3> QED BY <2>3, <3>1, Whole
  <2>5. \A b \in 1 .. Len(on) : on[b] = k + b - 1
      BY <2>2 DEF Lies
  <2> QED BY <2>3, <2>4, <2>5
<1> QED BY <1>1, MediaInvariant, PTL

=============================================================================
