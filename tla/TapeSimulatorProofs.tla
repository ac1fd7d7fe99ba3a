------------------------ MODULE TapeSimulatorProofs ------------------------
(***************************************************************************)
(* The tape simulator keeps a sound tape, its numbers are right, it warns   *)
(* before it refuses, and it is the drive of TapeMedium: for a tape of any  *)
(* length, records of any sizes and any counts.                             *)
(*                                                                         *)
(* The loops of the simulator are functions defined by recursion over the   *)
(* turns.  That they exist, and what holds after every turn, is shown with  *)
(* sets of numbers: one that holds 0, and k + 1 with every k, is Nat.  What *)
(* TapeMedium promises of a motion is a CHOOSE: it is shown that the place  *)
(* it describes is the only one, and that the loop ends there.              *)
(***************************************************************************)
EXTENDS TapeSimulator, SequenceTheorems, FiniteSetTheorems, WellFoundedInduction, TLAPS

\* A set of natural numbers with a member has a least one
LEMMA LeastOf ==
    ASSUME NEW T \in SUBSET Nat, T # {}
    PROVE  \E x \in T : \A y \in T : x <= y
<1> DEFINE R == OpToRel(<, Nat)
<1>1. IsWellFoundedOn(R, Nat)
    BY NatLessThanWellFounded, Zenon
<1>2. \E x \in T : \A y \in T : ~ (<<y, x>> \in R)
  <2> HIDE DEF R
  <2> QED BY <1>1, WFMin
<1>3. \A x, y \in T : y < x => <<y, x>> \in R
    BY Zenon DEF OpToRel
<1>4. PICK x \in T : \A y \in T : ~ (<<y, x>> \in R)
    BY <1>2
<1>5. \A y \in T : ~ (y < x)
  <2> HIDE DEF R
  <2> QED BY <1>3, <1>4
<1>6. \A y \in T : x <= y
    BY <1>5
<1> QED BY <1>6

\* Induction: the order of the natural numbers is well-founded
LEMMA NatSetInduction ==
    ASSUME NEW T \in SUBSET Nat, 0 \in T, \A n \in T : n + 1 \in T
    PROVE  T = Nat
<1>1. SUFFICES ASSUME Nat \ T # {} PROVE FALSE
    OBVIOUS
<1>2. PICK x \in Nat \ T : \A y \in Nat \ T : x <= y
    BY <1>1, LeastOf
<1>3. x # 0 /\ x - 1 \in Nat
    BY <1>2
<1>4. x - 1 \in T
    BY <1>2, <1>3
<1> QED BY <1>2, <1>3, <1>4

-----------------------------------------------------------------------------
(* A sound tape.                                                            *)

GapKind == [type : {"BOT", "DATA", "FILE", "EOT"},
            prev : Sizes \cup {0}, size : Sizes \cup {0}]

\* Every gap leads back to the one before it, and only DATA has data behind it
Chain(gaps) ==
    \A i \in 1 .. Len(gaps) :
        /\ gaps[i].prev = IF i = 1 THEN 0 ELSE gaps[i - 1].size
        /\ gaps[i].type = "BOT" <=> i = 1
        /\ gaps[i].type = "EOT" <=> i = Len(gaps)
        /\ gaps[i].type = "DATA" <=> gaps[i].size # 0

Sound(gaps) ==
    /\ gaps \in Seq(GapKind)
    /\ Chain(gaps)
    /\ gaps = <<>> \/ Len(gaps) \in 2 .. Limit + 2

\* Behind BOT and at a gap; a blank tape has none
OnGap(gaps, p) == IF gaps = <<>> THEN p \in {1, 2} ELSE p \in 2 .. Len(gaps)

DevType == [pos : Nat, fnum : Nat, block : Nat, leom : BOOLEAN, weof : BOOLEAN]

Good(t) == Sound(t.gaps) /\ t.d \in DevType /\ OnGap(t.gaps, t.d.pos)

TapeInv ==
    /\ Sound(file) /\ dev \in DevType /\ reply.n \in Nat
    /\ mode \in {"CLOSED", "READ", "RDWR"}
    /\ disk \in [lock : BOOLEAN, link : Nat]
    /\ mode = "CLOSED" => dev = Fresh(1)
    /\ mode # "CLOSED" => OnGap(file, dev.pos) /\ disk.lock /\ disk.link = NoLink
    /\ mode = "RDWR" => file # <<>>
    /\ dev.weof => mode = "RDWR" /\ dev.pos = Len(file)
    /\ disk.link # NoLink => OnGap(file, disk.link)

\* A position on a tape that has gaps is one the simulator can read
LEMMA GoodIs ==
    ASSUME NEW t, Good(t)
    PROVE  /\ t.gaps \in Seq(GapKind) /\ Len(t.gaps) \in Nat /\ t.d \in DevType
           /\ t.d.pos \in 1 .. Len(t.gaps) <=> t.gaps # <<>>
           /\ t.gaps # <<>> => /\ t.d.pos \in 2 .. Len(t.gaps) /\ Len(t.gaps) \in 2 .. Limit + 2
                               /\ t.gaps[t.d.pos] \in GapKind
                               /\ t.gaps[t.d.pos - 1] \in GapKind
<1>1. t.gaps \in Seq(GapKind) /\ Len(t.gaps) \in Nat /\ t.d \in DevType /\ t.d.pos \in Nat
    BY DEF Good, Sound, DevType
<1>2. t.gaps # <<>> => t.d.pos \in 2 .. Len(t.gaps) /\ Len(t.gaps) \in 2 .. Limit + 2
    BY DEF Good, Sound, OnGap
<1>3. t.gaps = <<>> => Len(t.gaps) = 0
    OBVIOUS
<1>4. t.d.pos \in 1 .. Len(t.gaps) <=> t.gaps # <<>>
    BY <1>1, <1>2, <1>3
<1>5. ASSUME t.gaps # <<>>
      PROVE  t.gaps[t.d.pos] \in GapKind /\ t.gaps[t.d.pos - 1] \in GapKind
  <2> DEFINE g == t.gaps
             p == t.d.pos
  <2>1. g \in Seq(GapKind) /\ Len(g) \in Nat /\ p \in 2 .. Len(g)
      BY <1>1, <1>2, <1>5
  <2> HIDE DEF g, p
  <2>2. p \in 1 .. Len(g) /\ p - 1 \in 1 .. Len(g)
      BY <2>1
  <2>3. g[p] \in GapKind /\ g[p - 1] \in GapKind
      BY <2>1, <2>2, ElementOfSeq
  <2> QED BY <2>3 DEF g, p
<1> QED BY <1>1, <1>2, <1>4, <1>5

LEMMA SizeIs ==
    ASSUME NEW s \in Sizes \cup {0}
    PROVE  s \in Nat /\ (s \in Sizes <=> s # 0)
<1>1. Sizes \subseteq Nat \ {0}
    BY TapeAssumption
<1>2. s \in Sizes => s \in Nat /\ s # 0
    BY <1>1
<1> QED BY <1>2

-----------------------------------------------------------------------------
(* Offsets.                                                                 *)

Lies(f, gaps, n) ==
    f = [i \in 1 .. n |-> IF i = 1 THEN 0 ELSE f[i - 1] + GapSize + gaps[i - 1].size]

\* The function of Offset exists, whatever the gaps
LEMMA LiesExist ==
    ASSUME NEW gaps, NEW n \in Nat
    PROVE  \E f : Lies(f, gaps, n)
<1> DEFINE T == {k \in Nat : \E f : Lies(f, gaps, k)}
<1>1. 0 \in T
  <2> DEFINE f == [i \in 1 .. 0 |-> 0]
  <2>1. Lies(f, gaps, 0)
      BY DEF Lies
  <2> QED BY <2>1
<1>2. \A k \in T : k + 1 \in T
  <2> SUFFICES ASSUME NEW k \in T PROVE k + 1 \in T
      OBVIOUS
  <2>1. PICK f : Lies(f, gaps, k)
      OBVIOUS
  <2> DEFINE new == IF k = 0 THEN 0 ELSE f[k] + GapSize + gaps[k].size
             g == [i \in 1 .. k + 1 |-> IF i = k + 1 THEN new ELSE f[i]]
  <2>2. \A i \in 1 .. k : f[i] = IF i = 1 THEN 0 ELSE f[i - 1] + GapSize + gaps[i - 1].size
      BY <2>1 DEF Lies
  <2>3. \A i \in 1 .. k : g[i] = f[i]
      OBVIOUS
  <2>4. \A i \in 1 .. k + 1 :
           g[i] = IF i = 1 THEN 0 ELSE g[i - 1] + GapSize + gaps[i - 1].size
      BY <2>2, <2>3
  <2>5. Lies(g, gaps, k + 1)
    <3> HIDE DEF g
    <3>1. g = [i \in 1 .. k + 1 |-> g[i]]
        BY DEF g
    <3> QED BY <2>4, <3>1 DEF Lies
  <2> QED BY <2>5
<1>3. T = Nat
  <2> HIDE DEF T
  <2>1. T \in SUBSET Nat
      BY DEF T
  <2> QED BY <1>1, <1>2, <2>1, NatSetInduction
<1> QED BY <1>3

\* An offset is a number, and there is a unit at least for every gap before it
LEMMA OffsetIs ==
    ASSUME NEW gaps \in Seq(GapKind), NEW k \in 1 .. Len(gaps)
    PROVE  Offset(gaps, k) \in Nat /\ Offset(gaps, k) >= k - 1
<1> DEFINE f == CHOOSE f : Lies(f, gaps, k)
<1>1. Lies(f, gaps, k)
    BY LiesExist
<1>2. Offset(gaps, k) = f[k]
    BY Zenon DEF Offset, Lies
<1> HIDE DEF f
<1>3. \A i \in 1 .. k : f[i] = IF i = 1 THEN 0 ELSE f[i - 1] + GapSize + gaps[i - 1].size
    BY <1>1 DEF Lies
<1>4. \A i \in 1 .. Len(gaps) : gaps[i].size \in Nat
  <2> SUFFICES ASSUME NEW i \in 1 .. Len(gaps) PROVE gaps[i].size \in Nat
      OBVIOUS
  <2>1. gaps[i] \in GapKind
      BY ElementOfSeq
  <2>2. gaps[i].size \in Sizes \cup {0}
      BY <2>1 DEF GapKind
  <2> QED BY <2>2, SizeIs
<1> DEFINE T == {i \in Nat : i < k => f[i + 1] \in Nat /\ f[i + 1] >= i}
<1>5. 0 \in T
    BY <1>3
<1>6. \A i \in T : i + 1 \in T
  <2> SUFFICES ASSUME NEW i \in Nat, i + 1 < k, f[i + 1] \in Nat, f[i + 1] >= i
               PROVE  f[i + 2] \in Nat /\ f[i + 2] >= i + 1
      OBVIOUS
  <2>1. i + 2 \in 1 .. k /\ (i + 2) - 1 = i + 1 /\ i + 1 \in 1 .. Len(gaps) /\ i + 2 # 1
      OBVIOUS
  <2>2. f[i + 2] = f[i + 1] + 1 + gaps[i + 1].size
      BY <1>3, <2>1 DEF GapSize
  <2> QED BY <1>4, <2>1, <2>2
<1>7. T = Nat
  <2> HIDE DEF T
  <2>1. T \in SUBSET Nat
      BY DEF T
  <2> QED BY <1>5, <1>6, <2>1, NatSetInduction
<1>8. k - 1 \in Nat /\ k - 1 < k /\ (k - 1) + 1 = k
    OBVIOUS
<1>9. k - 1 \in T
    BY <1>7, <1>8, Zenon
<1> QED BY <1>2, <1>8, <1>9

-----------------------------------------------------------------------------
(* What is written.                                                         *)

\* What is before the head is kept, and one or two gaps are put behind it
LEMMA PutIs ==
    ASSUME NEW gaps \in Seq(GapKind), NEW p \in 2 .. Len(gaps),
           NEW new \in Seq(GapKind)
    PROVE  LET g == SubSeq(gaps, 1, p - 1) \o new
           IN  /\ g \in Seq(GapKind) /\ Len(g) = p - 1 + Len(new)
               /\ \A i \in 1 .. p - 1 : g[i] = gaps[i]
               /\ \A i \in 1 .. Len(new) : g[p - 1 + i] = new[i]
<1> DEFINE b == SubSeq(gaps, 1, p - 1)
<1>1. p - 1 \in Nat /\ p - 1 <= Len(gaps)
    OBVIOUS
<1>2. b \in Seq(GapKind) /\ Len(b) = p - 1 /\ \A i \in 1 .. p - 1 : b[i] = gaps[i]
  <2> DEFINE q == p - 1
  <2>1. q \in Nat /\ 1 \in 1 .. Len(gaps) + 1 /\ q \in 0 .. Len(gaps) /\ q \in (1 - 1) .. Len(gaps)
      BY <1>1
  <2> HIDE DEF q
  <2>2. SubSeq(gaps, 1, q) \in Seq(GapKind) /\ Len(SubSeq(gaps, 1, q)) = q
        /\ \A i \in 1 .. q : SubSeq(gaps, 1, q)[i] = gaps[i]
      BY <2>1, SubSeqProperties
  <2> QED BY <2>2 DEF q
<1> HIDE DEF b
<1>3. b \o new \in Seq(GapKind) /\ Len(b \o new) = Len(b) + Len(new)
    BY <1>2, ConcatProperties
<1>4. \A i \in 1 .. Len(b) + Len(new) :
         (b \o new)[i] = IF i <= Len(b) THEN b[i] ELSE new[i - Len(b)]
    BY <1>2, ConcatProperties
<1>5. Len(new) \in Nat
    OBVIOUS
<1>6. \A i \in 1 .. p - 1 : (b \o new)[i] = gaps[i]
    BY <1>1, <1>2, <1>4, <1>5
<1>7. ASSUME NEW i \in 1 .. Len(new)
      PROVE  (b \o new)[p - 1 + i] = new[i]
  <2>1. p - 1 + i \in 1 .. Len(b) + Len(new) /\ ~ (p - 1 + i <= Len(b))
        /\ (p - 1 + i) - Len(b) = i
      BY <1>1, <1>2, <1>5
  <2> QED BY <1>4, <2>1
<1> QED BY <1>2, <1>3, <1>6, <1>7 DEF b

\* What the simulator writes leaves a sound tape with the head behind it
LEMMA WrittenSound ==
    ASSUME NEW gaps, Sound(gaps), NEW p \in 2 .. Len(gaps), p <= Limit,
           NEW type \in {"DATA", "FILE"}, NEW size \in Sizes \cup {0},
           type = "DATA" <=> size # 0
    PROVE  LET g == SubSeq(gaps, 1, p - 1)
                       \o <<Gap(type, gaps[p].prev, size), Gap("EOT", size, 0)>>
           IN  /\ Sound(g) /\ Len(g) = p + 1
               /\ \A i \in 1 .. p - 1 : g[i] = gaps[i]
               /\ g[p] = Gap(type, gaps[p].prev, size)
<1> DEFINE new == <<Gap(type, gaps[p].prev, size), Gap("EOT", size, 0)>>
           g == SubSeq(gaps, 1, p - 1) \o new
<1>1. gaps \in Seq(GapKind) /\ Chain(gaps) /\ p \in 1 .. Len(gaps) /\ p - 1 \in 1 .. Len(gaps)
    BY DEF Sound
<1>2. gaps[p].prev \in Sizes \cup {0} /\ gaps[p].prev = gaps[p - 1].size
  <2>1. gaps[p] \in GapKind
      BY <1>1
  <2>2. p # 1
      OBVIOUS
  <2> QED BY <1>1, <2>1, <2>2 DEF GapKind, Chain
<1>3. new \in Seq(GapKind) /\ Len(new) = 2
      /\ new[1] = Gap(type, gaps[p].prev, size) /\ new[2] = Gap("EOT", size, 0)
    BY <1>2 DEF Gap, GapKind
<1> HIDE DEF new
<1>4. /\ g \in Seq(GapKind) /\ Len(g) = p + 1
      /\ \A i \in 1 .. p - 1 : g[i] = gaps[i]
      /\ g[p] = new[1] /\ g[p + 1] = new[2]
  <2>1. /\ g \in Seq(GapKind) /\ Len(g) = p - 1 + Len(new)
        /\ \A i \in 1 .. p - 1 : g[i] = gaps[i]
        /\ \A i \in 1 .. Len(new) : g[p - 1 + i] = new[i]
      BY <1>1, <1>3, PutIs
  <2>2. p - 1 + 1 = p /\ p - 1 + 2 = p + 1 /\ 1 \in 1 .. 2 /\ 2 \in 1 .. 2
      OBVIOUS
  <2> QED BY <1>3, <2>1, <2>2
<1> HIDE DEF g
<1>5. /\ g[p].type = type /\ g[p].prev = gaps[p - 1].size /\ g[p].size = size
      /\ g[p + 1].type = "EOT" /\ g[p + 1].prev = size /\ g[p + 1].size = 0
    BY <1>2, <1>3, <1>4 DEF Gap
<1>6. ASSUME NEW i \in 1 .. p + 1
      PROVE  /\ g[i].prev = IF i = 1 THEN 0 ELSE g[i - 1].size
             /\ g[i].type = "BOT" <=> i = 1
             /\ g[i].type = "EOT" <=> i = p + 1
             /\ g[i].type = "DATA" <=> g[i].size # 0
  <2>1. CASE i \in 1 .. p - 1
    <3>1. i \in 1 .. Len(gaps) /\ i # Len(gaps) /\ i # p + 1 /\ (i # 1 => i - 1 \in 1 .. p - 1)
        BY <2>1
    <3>2. /\ gaps[i].prev = IF i = 1 THEN 0 ELSE gaps[i - 1].size
          /\ gaps[i].type = "BOT" <=> i = 1
          /\ gaps[i].type # "EOT"
          /\ gaps[i].type = "DATA" <=> gaps[i].size # 0
        BY <1>1, <3>1 DEF Chain
    <3>3. g[i] = gaps[i] /\ (i # 1 => g[i - 1] = gaps[i - 1])
        BY <1>4, <2>1, <3>1
    <3> QED BY <3>1, <3>2, <3>3
  <2>2. CASE i = p
    <3>1. i # 1 /\ i # p + 1 /\ i - 1 \in 1 .. p - 1 /\ i - 1 = p - 1
        BY <2>2
    <3> QED BY <1>4, <1>5, <2>2, <3>1
  <2>3. CASE i = p + 1
    <3>1. i # 1 /\ i - 1 = p
        BY <2>3
    <3> QED BY <1>5, <2>3, <3>1
  <2> QED BY <2>1, <2>2, <2>3
<1>7. Chain(g)
    BY <1>4, <1>6 DEF Chain
<1>8. p + 1 \in 2 .. Limit + 2
    BY TapeAssumption
<1>9. Sound(g)
    BY <1>4, <1>7, <1>8 DEF Sound
<1> QED BY <1>3, <1>4, <1>9 DEF g, new

\* A write whose data does not get to the disk leaves a sound tape too
LEMMA CutSound ==
    ASSUME NEW gaps, Sound(gaps), NEW p \in 2 .. Len(gaps)
    PROVE  LET g == SubSeq(gaps, 1, p - 1) \o <<Gap("EOT", gaps[p].prev, 0)>>
           IN  Sound(g) /\ Len(g) = p /\ \A i \in 1 .. p - 1 : g[i] = gaps[i]
<1> DEFINE new == <<Gap("EOT", gaps[p].prev, 0)>>
           g == SubSeq(gaps, 1, p - 1) \o new
<1>1. gaps \in Seq(GapKind) /\ Chain(gaps) /\ p \in 1 .. Len(gaps) /\ Len(gaps) \in Nat
      /\ p - 1 \in 1 .. Len(gaps) /\ Len(gaps) \in 2 .. Limit + 2
    BY DEF Sound
<1>2. gaps[p].prev \in Sizes \cup {0} /\ gaps[p].prev = gaps[p - 1].size
  <2>1. gaps[p] \in GapKind
      BY <1>1
  <2>2. p # 1
      OBVIOUS
  <2> QED BY <1>1, <2>1, <2>2 DEF GapKind, Chain
<1>3. new \in Seq(GapKind) /\ Len(new) = 1 /\ new[1] = Gap("EOT", gaps[p].prev, 0)
    BY <1>2 DEF Gap, GapKind
<1> HIDE DEF new
<1>4. g \in Seq(GapKind) /\ Len(g) = p /\ g[p] = new[1] /\ \A i \in 1 .. p - 1 : g[i] = gaps[i]
  <2>1. /\ g \in Seq(GapKind) /\ Len(g) = p - 1 + Len(new)
        /\ \A i \in 1 .. p - 1 : g[i] = gaps[i]
        /\ \A i \in 1 .. Len(new) : g[p - 1 + i] = new[i]
      BY <1>1, <1>3, PutIs
  <2>2. p - 1 + 1 = p /\ 1 \in 1 .. 1
      OBVIOUS
  <2> QED BY <1>3, <2>1, <2>2
<1> HIDE DEF g
<1>5. g[p].type = "EOT" /\ g[p].prev = gaps[p - 1].size /\ g[p].size = 0
    BY <1>2, <1>3, <1>4 DEF Gap
<1>6. ASSUME NEW i \in 1 .. p
      PROVE  /\ g[i].prev = IF i = 1 THEN 0 ELSE g[i - 1].size
             /\ g[i].type = "BOT" <=> i = 1
             /\ g[i].type = "EOT" <=> i = p
             /\ g[i].type = "DATA" <=> g[i].size # 0
  <2>1. CASE i \in 1 .. p - 1
    <3>1. i \in 1 .. Len(gaps) /\ i # Len(gaps) /\ i # p /\ (i # 1 => i - 1 \in 1 .. p - 1)
        BY <1>1, <2>1
    <3>2. /\ gaps[i].prev = IF i = 1 THEN 0 ELSE gaps[i - 1].size
          /\ gaps[i].type = "BOT" <=> i = 1
          /\ gaps[i].type # "EOT"
          /\ gaps[i].type = "DATA" <=> gaps[i].size # 0
        BY <1>1, <3>1 DEF Chain
    <3>3. g[i] = gaps[i] /\ (i # 1 => g[i - 1] = gaps[i - 1])
        BY <1>4, <2>1, <3>1
    <3> QED BY <3>1, <3>2, <3>3
  <2>2. CASE i = p
    <3>1. i # 1 /\ i - 1 \in 1 .. p - 1 /\ i - 1 = p - 1
        BY <2>2
    <3> QED BY <1>4, <1>5, <2>2, <3>1
  <2> QED BY <2>1, <2>2
<1>7. Chain(g)
    BY <1>4, <1>6 DEF Chain
<1>8. Len(g) \in 2 .. Limit + 2
    BY <1>1, <1>4, TapeAssumption
<1>9. Sound(g)
    BY <1>4, <1>7, <1>8 DEF Sound
<1> QED BY <1>4, <1>9 DEF g, new

\* The mark and the end of tape that ndmos_tape_wfm() writes
LEMMA MarkedIs ==
    ASSUME NEW t, Good(t), t.gaps # <<>>, MarkFits(t)
    PROVE  LET m == Marked(t)
               p == t.d.pos
           IN  /\ Good(m) /\ ~m.d.weof /\ Len(m.gaps) = p + 1 /\ m.d.pos = p + 1
               /\ \A i \in 1 .. p - 1 : m.gaps[i] = t.gaps[i]
               /\ m.gaps[p].type = "FILE" /\ m.gaps[p].size = 0
               /\ m.gaps # <<>> /\ m.d.fnum = t.d.fnum + 1 /\ m.d.block = 0
               /\ m.d.leom = t.d.leom
<1> DEFINE p == t.d.pos
           g == SubSeq(t.gaps, 1, p - 1)
                    \o <<Gap("FILE", t.gaps[p].prev, 0), Gap("EOT", 0, 0)>>
           e == [t.d EXCEPT !.pos = @ + 1, !.fnum = @ + 1, !.block = 0, !.weof = FALSE]
           m == Marked(t)
<1>1. /\ t.gaps \in Seq(GapKind) /\ Len(t.gaps) \in Nat /\ t.d \in DevType /\ Sound(t.gaps)
      /\ p \in 2 .. Len(t.gaps) /\ p \in 1 .. Len(t.gaps)
  <2>1. /\ t.gaps \in Seq(GapKind) /\ Len(t.gaps) \in Nat /\ t.d \in DevType
        /\ p \in 2 .. Len(t.gaps)
      BY GoodIs
  <2>2. p \in 1 .. Len(t.gaps)
      BY <2>1
  <2> QED BY <2>1, <2>2 DEF Good
<1>2. p <= Limit
  <2>1. Offset(t.gaps, p) + 1 <= Limit
      BY DEF MarkFits, GapSize
  <2>2. Offset(t.gaps, p) \in Nat /\ Offset(t.gaps, p) >= p - 1
      BY <1>1, OffsetIs
  <2> QED BY <1>1, <2>1, <2>2, TapeAssumption
<1>3. m.gaps = g /\ m.d = e
    BY DEF Marked, At, Before, Here
<1>4. /\ Sound(g) /\ Len(g) = p + 1
      /\ \A i \in 1 .. p - 1 : g[i] = t.gaps[i]
      /\ g[p].type = "FILE" /\ g[p].size = 0
  <2> DEFINE old == t.gaps
             q == p
  <2>1. Sound(old) /\ q \in 2 .. Len(old) /\ q <= Limit
      BY <1>1, <1>2
  <2> HIDE DEF old, q
  <2> DEFINE h == SubSeq(old, 1, q - 1)
                      \o <<Gap("FILE", old[q].prev, 0), Gap("EOT", 0, 0)>>
  <2>2. /\ Sound(h) /\ Len(h) = q + 1
        /\ \A i \in 1 .. q - 1 : h[i] = old[i]
        /\ h[q] = Gap("FILE", old[q].prev, 0)
    <3>1. 0 \in Sizes \cup {0} /\ "FILE" \in {"DATA", "FILE"} /\ ("FILE" = "DATA" <=> 0 # 0)
        OBVIOUS
    <3> QED BY <2>1, <3>1, WrittenSound
  <2>3. h[q].type = "FILE" /\ h[q].size = 0
    <3> HIDE DEF h
    <3> QED BY <2>2 DEF Gap
  <2>4. g = h
      BY DEF old, q
  <2> HIDE DEF g, h
  <2> QED BY <2>2, <2>3, <2>4 DEF old, q
<1> HIDE DEF g, m
<1>5. /\ e \in DevType /\ e.pos = p + 1 /\ e.fnum = t.d.fnum + 1 /\ e.block = 0 /\ e.weof = FALSE
      /\ e.leom = t.d.leom
  <2> DEFINE d == t.d
             x == p + 1
             y == d.fnum + 1
  <2>1. d \in DevType /\ x \in Nat /\ y \in Nat
    <3>1. d \in DevType /\ d.fnum \in Nat /\ p \in Nat
        BY <1>1 DEF DevType
    <3> QED BY <3>1
  <2>2. e = [d EXCEPT !.pos = x, !.fnum = y, !.block = 0, !.weof = FALSE]
      OBVIOUS
  <2> HIDE DEF d, x, y, e
  <2>3. /\ e \in DevType /\ e.pos = x /\ e.fnum = y /\ e.block = 0 /\ e.weof = FALSE
        /\ e.leom = d.leom
      BY <2>1, <2>2 DEF DevType
  <2> QED BY <2>3 DEF d, x, y
<1>6. g # <<>> /\ OnGap(g, p + 1)
  <2>1. Len(g) # 0 /\ p + 1 \in 2 .. p + 1
      BY <1>1, <1>4
  <2>2. g # <<>>
      BY <2>1
  <2> QED BY <1>4, <2>1, <2>2 DEF OnGap
<1> HIDE DEF e, p
<1>7. Good(m)
    BY <1>3, <1>4, <1>5, <1>6 DEF Good
<1> QED BY <1>3, <1>4, <1>5, <1>6, <1>7 DEF p, m

\* simu_flush_weof() and ndmos_tape_wfm(), whatever the drive is open for
LEMMA MarkIs ==
    ASSUME NEW t, Good(t), mode = "RDWR" => t.gaps # <<>>
    PROVE  LET m == WriteMark(t)
           IN  /\ Good(m) /\ ~m.d.weof /\ (m.gaps = <<>> <=> t.gaps = <<>>)
               /\ \/ mode = "RDWR" /\ MarkFits(t) /\ m = Marked(t)
                  \/ /\ ~ (mode = "RDWR" /\ MarkFits(t))
                     /\ m.gaps = t.gaps /\ m.d = [t.d EXCEPT !.weof = FALSE]
<1>1. CASE mode = "RDWR" /\ MarkFits(t)
  <2>1. WriteMark(t) = Marked(t)
      BY <1>1 DEF WriteMark
  <2> QED BY <1>1, <2>1, MarkedIs
<1>2. CASE ~ (mode = "RDWR" /\ MarkFits(t))
  <2> DEFINE m == WriteMark(t)
  <2>1. m.gaps = t.gaps /\ m.d = [t.d EXCEPT !.weof = FALSE]
      BY <1>2 DEF WriteMark, At
  <2> HIDE DEF m
  <2>2. m.d \in DevType /\ m.d.pos = t.d.pos /\ m.d.weof = FALSE
      BY <2>1 DEF Good, DevType
  <2>3. Good(m)
      BY <2>1, <2>2 DEF Good
  <2> QED BY <1>2, <2>1, <2>2, <2>3 DEF m
<1> QED BY <1>1, <1>2

LEMMA FlushedIs ==
    ASSUME NEW t, Good(t), mode = "RDWR" => t.gaps # <<>>
    PROVE  LET m == Flushed(t)
           IN  /\ Good(m) /\ ~m.d.weof /\ (m.gaps = <<>> <=> t.gaps = <<>>)
               /\ \/ t.d.weof /\ mode = "RDWR" /\ MarkFits(t) /\ m = Marked(t)
                  \/ /\ ~ (t.d.weof /\ mode = "RDWR" /\ MarkFits(t))
                     /\ m.gaps = t.gaps /\ m.d = [t.d EXCEPT !.weof = FALSE]
               /\ ~t.d.weof => m = t
<1>1. CASE t.d.weof
    BY <1>1, MarkIs DEF Flushed
<1>2. CASE ~t.d.weof
  <2>1. Flushed(t) = t
      BY <1>2 DEF Flushed
  <2>2. t.d.weof = FALSE /\ t.d \in DevType
      BY <1>2 DEF Good, DevType
  <2>3. t.d = [t.d EXCEPT !.weof = FALSE]
      BY <2>2 DEF DevType
  <2> QED BY <1>2, <2>1, <2>3
<1> QED BY <1>1, <1>2

-----------------------------------------------------------------------------
(* A step of a motion.                                                      *)

\* s is where one step over a gap, or none, leads from t
Steps(t, s, by, fnum, block) ==
    /\ s.t.gaps = t.gaps
    /\ s.t.d \in DevType
    /\ s.t.d.pos = t.d.pos + by /\ s.t.d.fnum = fnum /\ s.t.d.block = block
    /\ s.t.d.weof = t.d.weof
    /\ Good(s.t)

LEMMA MovedIs ==
    ASSUME NEW t, Good(t), t.gaps # <<>>, NEW by \in Int, NEW fnum \in Nat, NEW block \in Nat,
           t.d.pos + by \in 2 .. Len(t.gaps), NEW gave,
           NEW s, s = Step(Moved(t, by, fnum, block), gave)
    PROVE  s.gave = gave /\ Steps(t, s, by, fnum, block)
<1> DEFINE e == [t.d EXCEPT !.pos = @ + by, !.fnum = fnum, !.block = block, !.leom = FALSE]
<1>1. s.t.gaps = t.gaps /\ s.t.d = e /\ s.gave = gave
    BY DEF Step, Moved, At
<1>2. t.d \in DevType /\ t.d.pos \in Nat /\ Sound(t.gaps)
    BY DEF Good, DevType
<1>3. e \in DevType /\ e.pos = t.d.pos + by /\ e.fnum = fnum /\ e.block = block
      /\ e.weof = t.d.weof
  <2>1. t.d.pos + by \in Nat
      BY GoodIs
  <2> DEFINE x == t.d.pos + by
  <2>2. x \in Nat /\ e = [t.d EXCEPT !.pos = x, !.fnum = fnum, !.block = block, !.leom = FALSE]
      BY <2>1
  <2> HIDE DEF x, e
  <2>3. e \in DevType /\ e.pos = x /\ e.fnum = fnum /\ e.block = block /\ e.weof = t.d.weof
      BY <1>2, <2>2 DEF DevType
  <2> QED BY <2>3 DEF x
<1> HIDE DEF e
<1>4. OnGap(t.gaps, s.t.d.pos)
    BY <1>1, <1>3 DEF OnGap
<1>5. Good(s.t)
    BY <1>1, <1>2, <1>3, <1>4 DEF Good
<1> QED BY <1>1, <1>3, <1>5 DEF Steps

LEMMA UnwarnedIs ==
    ASSUME NEW t, Good(t), NEW gave
    PROVE  LET s == Step(Unwarned(t), gave)
           IN  s.gave = gave /\ Steps(t, s, 0, t.d.fnum, t.d.block)
<1> DEFINE e == [t.d EXCEPT !.leom = FALSE]
           s == Step(Unwarned(t), gave)
<1>1. s.t.gaps = t.gaps /\ s.t.d = e /\ s.gave = gave
    BY DEF Step, Unwarned, At
<1>2. t.d \in DevType /\ t.d.pos \in Nat /\ Sound(t.gaps) /\ OnGap(t.gaps, t.d.pos)
    BY DEF Good, DevType
<1>3. e \in DevType /\ e.pos = t.d.pos /\ e.fnum = t.d.fnum /\ e.block = t.d.block
      /\ e.weof = t.d.weof
    BY <1>2 DEF DevType
<1> HIDE DEF e, s
<1>4. Good(s.t)
    BY <1>1, <1>2, <1>3 DEF Good
<1>5. t.d.pos + 0 = t.d.pos
    BY <1>2
<1> QED BY <1>1, <1>3, <1>4, <1>5 DEF Steps, s

\* What a sound tape has under the head and behind it
LEMMA HereIs ==
    ASSUME NEW t, Good(t), t.gaps # <<>>
    PROVE  /\ Readable(t) /\ Leads(t)
           /\ t.d.pos \in 2 .. Len(t.gaps)
           /\ Here(t).type \in {"DATA", "FILE", "EOT"}
           /\ Here(t).type = "EOT" <=> t.d.pos = Len(t.gaps)
           /\ Behind(t) \in {"BOT", "DATA", "FILE"}
           /\ Behind(t) = "BOT" <=> t.d.pos = 2
<1> DEFINE g == t.gaps
           p == t.d.pos
<1>1. g \in Seq(GapKind) /\ Len(g) \in Nat /\ p \in 2 .. Len(g) /\ Chain(g)
      /\ g[p] \in GapKind /\ g[p - 1] \in GapKind
    BY GoodIs DEF Good, Sound
<1> HIDE DEF g, p
<1>2. p \in 1 .. Len(g) /\ p - 1 \in 1 .. Len(g) /\ p # 1 /\ p - 1 # Len(g) /\ p > 1
      /\ (p - 1 = 1 <=> p = 2)
    BY <1>1
<1>3. /\ g[p].prev = g[p - 1].size
      /\ g[p].type # "BOT" /\ (g[p].type = "EOT" <=> p = Len(g))
      /\ g[p - 1].type # "EOT" /\ (g[p - 1].type = "BOT" <=> p - 1 = 1)
    BY <1>1, <1>2 DEF Chain
<1>4. g[p].type \in {"BOT", "DATA", "FILE", "EOT"} /\ g[p - 1].type \in {"BOT", "DATA", "FILE", "EOT"}
    BY <1>1 DEF GapKind
<1> QED BY <1>1, <1>2, <1>3, <1>4 DEF g, p, Readable, Leads, Here, Behind

\* simu_forw_one() on a tape that has gaps
LEMMA ForwardIs ==
    ASSUME NEW t, Good(t), t.gaps # <<>>, NEW overMark \in BOOLEAN
    PROVE  LET s == Forward(t, overMark)
           IN  \/ /\ Here(t).type = "DATA" /\ s.gave = "DATA"
                  /\ Steps(t, s, 1, t.d.fnum, t.d.block + 1)
               \/ /\ Here(t).type = "FILE" /\ overMark /\ s.gave = "FILE"
                  /\ Steps(t, s, 1, t.d.fnum + 1, 0)
               \/ /\ Here(t).type = "EOT" \/ (Here(t).type = "FILE" /\ ~overMark)
                  /\ s.gave = "none" /\ Steps(t, s, 0, t.d.fnum, t.d.block)
<1> DEFINE h == Here(t).type
           s == Forward(t, overMark)
<1>1. Readable(t) /\ h \in {"DATA", "FILE", "EOT"} /\ (h = "EOT" <=> t.d.pos = Len(t.gaps))
      /\ t.d.pos \in 2 .. Len(t.gaps) /\ t.d.fnum \in Nat /\ t.d.block \in Nat /\ Len(t.gaps) \in Nat
    BY HereIs, GoodIs DEF DevType
<1>2. h # "EOT" => t.d.pos + 1 \in 2 .. Len(t.gaps)
    BY <1>1
<1>3. /\ t.d.block + 1 \in Nat /\ t.d.fnum + 1 \in Nat /\ t.d.fnum \in Nat
      /\ 1 \in Int /\ 0 \in Nat
    BY <1>1
<1>4. CASE h = "DATA"
  <2>1. s = Step(Moved(t, 1, t.d.fnum, t.d.block + 1), "DATA")
      BY <1>1, <1>4 DEF Forward
  <2> HIDE DEF s
  <2> DEFINE k == t.d.block + 1
  <2>a. k \in Nat /\ t.d.pos + 1 \in 2 .. Len(t.gaps)
      BY <1>2, <1>3, <1>4
  <2>b. s = Step(Moved(t, 1, t.d.fnum, k), "DATA")
      BY <2>1
  <2> HIDE DEF k
  <2>2. s.gave = "DATA" /\ Steps(t, s, 1, t.d.fnum, k)
      BY <1>3, <2>a, <2>b, MovedIs
  <2> QED BY <1>4, <2>2 DEF s, k
<1>5. CASE h = "FILE" /\ overMark
  <2>1. s = Step(Moved(t, 1, t.d.fnum + 1, 0), "FILE")
      BY <1>1, <1>5 DEF Forward
  <2> HIDE DEF s
  <2> DEFINE f == t.d.fnum + 1
  <2>a. f \in Nat /\ t.d.pos + 1 \in 2 .. Len(t.gaps)
      BY <1>2, <1>3, <1>5
  <2>b. s = Step(Moved(t, 1, f, 0), "FILE")
      BY <2>1
  <2> HIDE DEF f
  <2>2. s.gave = "FILE" /\ Steps(t, s, 1, f, 0)
      BY <1>3, <2>a, <2>b, MovedIs
  <2> QED BY <1>5, <2>2 DEF s, f
<1>6. CASE h = "EOT" \/ (h = "FILE" /\ ~overMark)
  <2>1. s = Step(Unwarned(t), "none")
      BY <1>1, <1>6 DEF Forward
  <2> HIDE DEF s
  <2>2. s.gave = "none" /\ Steps(t, s, 0, t.d.fnum, t.d.block)
      BY <2>1, UnwarnedIs
  <2> QED BY <1>6, <2>2 DEF s
<1> QED BY <1>1, <1>4, <1>5, <1>6

LEMMA LessIs == ASSUME NEW n \in Nat PROVE Less(n) \in Nat /\ (n # 0 => Less(n) = n - 1)
                                           /\ (n = 0 => Less(n) = 0)
BY DEF Less

\* simu_back_one() on a tape that has gaps
LEMMA BackwardIs ==
    ASSUME NEW t, Good(t), t.gaps # <<>>, NEW overMark \in BOOLEAN
    PROVE  LET s == Backward(t, overMark)
           IN  \/ /\ Behind(t) = "BOT" /\ s.gave = "none" /\ Steps(t, s, 0, 0, 0)
               \/ /\ Behind(t) = "DATA" /\ s.gave = "DATA"
                  /\ Steps(t, s, -1, t.d.fnum, Less(t.d.block))
               \/ /\ Behind(t) = "FILE" /\ overMark /\ s.gave = "FILE"
                  /\ Steps(t, s, -1, Less(t.d.fnum), 0)
               \/ /\ Behind(t) = "FILE" /\ ~overMark /\ s.gave = "none"
                  /\ Steps(t, s, 0, t.d.fnum, 0)
<1> DEFINE b == Behind(t)
           s == Backward(t, overMark)
<1>1. Readable(t) /\ Leads(t) /\ b \in {"BOT", "DATA", "FILE"} /\ (b = "BOT" <=> t.d.pos = 2)
      /\ t.d.pos \in 2 .. Len(t.gaps) /\ t.d.fnum \in Nat /\ t.d.block \in Nat /\ Len(t.gaps) \in Nat
    BY HereIs, GoodIs DEF DevType
<1>2. t.d.pos + 0 \in 2 .. Len(t.gaps) /\ (b # "BOT" => t.d.pos + (-1) \in 2 .. Len(t.gaps))
    BY <1>1
<1>3. /\ Less(t.d.block) \in Nat /\ Less(t.d.fnum) \in Nat /\ t.d.fnum \in Nat
      /\ -1 \in Int /\ 0 \in Int /\ 0 \in Nat
  <2> DEFINE x == t.d.block
             y == t.d.fnum
  <2>1. x \in Nat /\ y \in Nat
      BY <1>1
  <2> HIDE DEF x, y
  <2>2. Less(x) \in Nat /\ Less(y) \in Nat
      BY <2>1, LessIs
  <2> QED BY <2>1, <2>2 DEF x, y
<1>4. CASE b = "BOT"
  <2>1. s = Step(Moved(t, 0, 0, 0), "none")
      BY <1>1, <1>4 DEF Backward
  <2> HIDE DEF s
  <2>2. s.gave = "none" /\ Steps(t, s, 0, 0, 0)
      BY <1>2, <1>3, <2>1, MovedIs
  <2> QED BY <1>4, <2>2 DEF s
<1>5. CASE b = "DATA"
  <2>1. s = Step(Moved(t, -1, t.d.fnum, Less(t.d.block)), "DATA")
      BY <1>1, <1>5 DEF Backward
  <2> HIDE DEF s
  <2> DEFINE k == Less(t.d.block)
  <2>a. k \in Nat /\ t.d.pos + (-1) \in 2 .. Len(t.gaps)
      BY <1>2, <1>3, <1>5
  <2>b. s = Step(Moved(t, -1, t.d.fnum, k), "DATA")
      BY <2>1
  <2> HIDE DEF k
  <2>2. s.gave = "DATA" /\ Steps(t, s, -1, t.d.fnum, k)
      BY <1>3, <2>a, <2>b, MovedIs
  <2> QED BY <1>5, <2>2 DEF s, k
<1>6. CASE b = "FILE" /\ overMark
  <2>1. s = Step(Moved(t, -1, Less(t.d.fnum), 0), "FILE")
      BY <1>1, <1>6 DEF Backward
  <2> HIDE DEF s
  <2>a. t.d.pos + (-1) \in 2 .. Len(t.gaps)
      BY <1>2, <1>6
  <2>2. s.gave = "FILE" /\ Steps(t, s, -1, Less(t.d.fnum), 0)
      BY <1>3, <2>1, <2>a, MovedIs
  <2> QED BY <1>6, <2>2 DEF s
<1>7. CASE b = "FILE" /\ ~overMark
  <2>1. s = Step(Moved(t, 0, t.d.fnum, 0), "none")
      BY <1>1, <1>7 DEF Backward
  <2> HIDE DEF s
  <2>2. s.gave = "none" /\ Steps(t, s, 0, t.d.fnum, 0)
      BY <1>2, <1>3, <2>1, MovedIs
  <2> QED BY <1>7, <2>2 DEF s
<1> QED BY <1>1, <1>4, <1>5, <1>6, <1>7

-----------------------------------------------------------------------------
(* The loop of a motion.                                                    *)

First(count) == [t |-> Now, left |-> count, gave |-> "DATA"]

Over(was) == was.left = 0 \/ was.gave \in {"none", "bad"}

Turn(op, was) ==
    LET now == OneStep(Flushed(was.t), op)
    IN  IF was.left = 0 \/ was.gave \in {"none", "bad"} THEN was
        ELSE [t |-> now.t, gave |-> now.gave,
              left |-> was.left - (IF Counts(now.gave, op) THEN 1 ELSE 0)]

Turns(f, op, count, n) ==
    f = [i \in 0 .. n |-> IF i = 0 THEN First(count) ELSE Turn(op, f[i - 1])]

\* The function turn[i] of Spaced exists
LEMMA TurnsExist ==
    ASSUME NEW op, NEW count, NEW n \in Nat
    PROVE  \E f : Turns(f, op, count, n)
<1> DEFINE T == {k \in Nat : \E f : Turns(f, op, count, k)}
<1>1. 0 \in T
  <2> DEFINE f == [i \in 0 .. 0 |-> First(count)]
  <2>1. Turns(f, op, count, 0)
      BY DEF Turns
  <2> QED BY <2>1
<1>2. \A k \in T : k + 1 \in T
  <2> SUFFICES ASSUME NEW k \in T PROVE k + 1 \in T
      OBVIOUS
  <2>1. PICK f : Turns(f, op, count, k)
      OBVIOUS
  <2> DEFINE g == [i \in 0 .. k + 1 |-> IF i = k + 1 THEN Turn(op, f[k]) ELSE f[i]]
  <2>2. \A i \in 0 .. k : f[i] = IF i = 0 THEN First(count) ELSE Turn(op, f[i - 1])
      BY <2>1 DEF Turns
  <2>3. \A i \in 0 .. k : g[i] = f[i]
      OBVIOUS
  <2>4. \A i \in 0 .. k + 1 : g[i] = IF i = 0 THEN First(count) ELSE Turn(op, g[i - 1])
      BY <2>2, <2>3
  <2>5. Turns(g, op, count, k + 1)
    <3> HIDE DEF g
    <3>1. g = [i \in 0 .. k + 1 |-> g[i]]
        BY DEF g
    <3> QED BY <2>4, <3>1 DEF Turns
  <2> QED BY <2>5
<1>3. T = Nat
  <2> HIDE DEF T
  <2>1. T \in SUBSET Nat
      BY DEF T
  <2> QED BY <1>1, <1>2, <2>1, NatSetInduction
<1> QED BY <1>3

LEMMA SpacedIs ==
    ASSUME NEW op, NEW count \in Nat
    PROVE  \E f : /\ f[0] = First(count)
                  /\ \A i \in 1 .. Limit + count : f[i] = Turn(op, f[i - 1])
                  /\ Spaced(op, count) = f[Limit + count]
<1> DEFINE f == CHOOSE f : Turns(f, op, count, Limit + count)
<1>1. Limit + count \in Nat
    BY TapeAssumption
<1>2. Turns(f, op, count, Limit + count)
    BY <1>1, TurnsExist
<1>3. Spaced(op, count) = f[Limit + count]
    BY Zenon DEF Spaced, Turns, Turn, First
<1> HIDE DEF f
<1>4. \A i \in 0 .. Limit + count : f[i] = IF i = 0 THEN First(count) ELSE Turn(op, f[i - 1])
    BY <1>2 DEF Turns
<1>5. f[0] = First(count)
    BY <1>1, <1>4
<1>6. \A i \in 1 .. Limit + count : f[i] = Turn(op, f[i - 1])
    BY <1>1, <1>4
<1> QED BY <1>3, <1>5, <1>6

\* A step of any motion keeps a sound tape sound and changes nothing that is on it
LEMMA OneStepIs ==
    ASSUME NEW t, Good(t), NEW op \in Motion
    PROVE  LET s == OneStep(t, op)
           IN  /\ Good(s.t) /\ s.t.gaps = t.gaps /\ s.t.d.weof = t.d.weof
               /\ s.gave \in {"DATA", "FILE", "none", "bad"}
               /\ t.gaps = <<>> => s.t = t /\ s.gave = "bad"
               /\ t.gaps # <<>> => s.gave # "bad"
<1> DEFINE s == OneStep(t, op)
<1>1. OverMark(op) \in BOOLEAN
    BY DEF OverMark
<1>2. s \in {Forward(t, OverMark(op)), Backward(t, OverMark(op))}
    BY DEF OneStep
<1>3. CASE t.gaps = <<>>
  <2>1. ~Readable(t)
      BY <1>3, GoodIs DEF Readable
  <2>2. Forward(t, OverMark(op)) = Step(t, "bad") /\ Backward(t, OverMark(op)) = Step(t, "bad")
      BY <2>1 DEF Forward, Backward
  <2> HIDE DEF s
  <2>3. s.t = t /\ s.gave = "bad"
      BY <1>2, <2>2 DEF Step
  <2> QED BY <1>3, <2>3 DEF s
<1>4. CASE t.gaps # <<>>
  <2>1. CASE s = Forward(t, OverMark(op))
    <3> HIDE DEF s
    <3>1. s.gave \in {"DATA", "FILE", "none"} /\ \E by, fnum, block : Steps(t, s, by, fnum, block)
      <4> DEFINE b == OverMark(op)
      <4> HIDE DEF b
      <4> QED BY <1>1, <1>4, <2>1, ForwardIs DEF b
    <3>2. Good(s.t) /\ s.t.gaps = t.gaps /\ s.t.d.weof = t.d.weof
        BY <3>1 DEF Steps
    <3> QED BY <1>4, <3>1, <3>2 DEF s
  <2>2. CASE s = Backward(t, OverMark(op))
    <3> HIDE DEF s
    <3>1. s.gave \in {"DATA", "FILE", "none"} /\ \E by, fnum, block : Steps(t, s, by, fnum, block)
      <4> DEFINE b == OverMark(op)
      <4> HIDE DEF b
      <4> QED BY <1>1, <1>4, <2>2, BackwardIs DEF b
    <3>2. Good(s.t) /\ s.t.gaps = t.gaps /\ s.t.d.weof = t.d.weof
        BY <3>1 DEF Steps
    <3> QED BY <1>4, <3>1, <3>2 DEF s
  <2> QED BY <1>2, <2>1, <2>2
<1> QED BY <1>3, <1>4

\* A turn of the loop
LEMMA TurnIs ==
    ASSUME NEW op \in Motion, NEW was, Good(was.t), was.left \in Nat,
           mode = "RDWR" => was.t.gaps # <<>>
    PROVE  LET now == Turn(op, was)
           IN  /\ Good(now.t) /\ now.left \in Nat
               /\ now.t.gaps = <<>> <=> was.t.gaps = <<>>
               /\ Over(was) => now = was
               /\ ~Over(was) =>
                     LET s == OneStep(Flushed(was.t), op)
                     IN  /\ ~now.t.d.weof /\ now.t = s.t /\ now.gave = s.gave
                         /\ now.t.gaps = Flushed(was.t).gaps
                         /\ Counts(s.gave, op) => now.left = was.left - 1
                         /\ ~Counts(s.gave, op) => now.left = was.left
<1>1. CASE Over(was)
  <2>1. Turn(op, was) = was
      BY <1>1 DEF Turn, Over
  <2> QED BY <1>1, <2>1
<1>2. CASE ~Over(was)
  <2> DEFINE m == Flushed(was.t)
             s == OneStep(m, op)
             now == Turn(op, was)
  <2>1. Good(m) /\ ~m.d.weof /\ (m.gaps = <<>> <=> was.t.gaps = <<>>)
      BY FlushedIs
  <2> HIDE DEF m
  <2>2. Good(s.t) /\ s.t.gaps = m.gaps /\ s.t.d.weof = m.d.weof
      BY <2>1, OneStepIs
  <2>3. now.t = s.t /\ now.gave = s.gave
        /\ now.left = was.left - (IF Counts(s.gave, op) THEN 1 ELSE 0)
      BY <1>2 DEF Turn, Over, m
  <2> HIDE DEF s, now
  <2>4. was.left # 0 /\ was.left \in Nat
      BY <1>2 DEF Over
  <2>5. /\ Counts(s.gave, op) => now.left = was.left - 1
        /\ ~Counts(s.gave, op) => now.left = was.left
        /\ now.left \in Nat
      BY <2>3, <2>4
  <2>6. Good(now.t) /\ now.t.gaps = m.gaps /\ ~now.t.d.weof
      BY <2>1, <2>2, <2>3
  <2> QED BY <1>2, <2>1, <2>3, <2>5, <2>6 DEF s, now, m
<1> QED BY <1>1, <1>2

LEMMA SpacedGood ==
    ASSUME Good(Now), mode = "RDWR" => file # <<>>,
           NEW op \in Motion, NEW count \in Nat, count # 0
    PROVE  LET s == Spaced(op, count)
           IN  /\ Good(s.t) /\ s.left \in Nat /\ ~s.t.d.weof
               /\ s.t.gaps = <<>> <=> file = <<>>
<1>1. PICK f : /\ f[0] = First(count)
               /\ \A i \in 1 .. Limit + count : f[i] = Turn(op, f[i - 1])
               /\ Spaced(op, count) = f[Limit + count]
    BY SpacedIs
<1> DEFINE P(w) == /\ Good(w.t) /\ w.left \in Nat
                   /\ w.t.gaps = <<>> <=> file = <<>>
           T == {i \in Nat : i < Limit + count => P(f[i + 1]) /\ ~f[i + 1].t.d.weof}
<1>2. Limit + count \in Nat /\ Limit + count # 0 /\ 1 \in 1 .. Limit + count
    BY TapeAssumption
<1>3. P(f[0]) /\ ~Over(f[0])
    BY <1>1 DEF First, Now, At, Over
<1>4. \A w : P(w) => P(Turn(op, w)) /\ (~Over(w) => ~Turn(op, w).t.d.weof)
                                     /\ (Over(w) => Turn(op, w) = w)
  <2> SUFFICES ASSUME NEW w, P(w)
               PROVE  P(Turn(op, w)) /\ (~Over(w) => ~Turn(op, w).t.d.weof)
                                     /\ (Over(w) => Turn(op, w) = w)
      OBVIOUS
  <2>1. mode = "RDWR" => w.t.gaps # <<>>
      OBVIOUS
  <2> QED BY <2>1, TurnIs
<1>5. 0 \in T
  <2>1. f[0 + 1] = Turn(op, f[0])
      BY <1>1, <1>2
  <2> HIDE DEF P
  <2> QED BY <1>3, <1>4, <2>1
<1>6. \A i \in T : i + 1 \in T
  <2> SUFFICES ASSUME NEW i \in Nat, i + 1 < Limit + count, P(f[i + 1]), ~f[i + 1].t.d.weof
               PROVE  P(f[i + 2]) /\ ~f[i + 2].t.d.weof
      BY <1>2
  <2>1. i + 2 \in 1 .. Limit + count /\ (i + 2) - 1 = i + 1
      BY <1>2
  <2>2. f[i + 2] = Turn(op, f[i + 1])
      BY <1>1, <2>1
  <2> HIDE DEF P
  <2> QED BY <1>4, <2>2
<1>7. T = Nat
  <2> HIDE DEF T
  <2>1. T \in SUBSET Nat
      BY DEF T
  <2> QED BY <1>5, <1>6, <2>1, NatSetInduction
<1>8. \A k \in Nat : k # 0 => k - 1 \in Nat /\ k - 1 < k /\ (k - 1) + 1 = k
    OBVIOUS
<1> DEFINE n == Limit + count
           last == n - 1
<1>9. last \in Nat /\ last < n /\ last + 1 = n
  <2>1. n \in Nat /\ n # 0
      BY <1>2
  <2> HIDE DEF n
  <2> QED BY <1>8, <2>1
<1>10. last \in T /\ last < Limit + count /\ f[last + 1] = Spaced(op, count)
  <2>1. f[n] = Spaced(op, count) /\ n = Limit + count
      BY <1>1
  <2> HIDE DEF last, n, T
  <2> QED BY <1>7, <1>9, <2>1
<1> HIDE DEF last, n
<1> QED BY <1>10

-----------------------------------------------------------------------------
(* The loop of a request for marks.                                         *)

MarkRun(f, n) == f = [i \in 0 .. n |-> IF i = 0 THEN Now ELSE WriteMark(f[i - 1])]

\* The function marked[i] of WriteMarks exists
LEMMA MarkRunExists ==
    ASSUME NEW n \in Nat
    PROVE  \E f : MarkRun(f, n)
<1> DEFINE T == {k \in Nat : \E f : MarkRun(f, k)}
<1>1. 0 \in T
  <2> DEFINE f == [i \in 0 .. 0 |-> Now]
  <2>1. MarkRun(f, 0)
      BY DEF MarkRun
  <2> QED BY <2>1
<1>2. \A k \in T : k + 1 \in T
  <2> SUFFICES ASSUME NEW k \in T PROVE k + 1 \in T
      OBVIOUS
  <2>1. PICK f : MarkRun(f, k)
      OBVIOUS
  <2> DEFINE g == [i \in 0 .. k + 1 |-> IF i = k + 1 THEN WriteMark(f[k]) ELSE f[i]]
  <2>2. \A i \in 0 .. k : f[i] = IF i = 0 THEN Now ELSE WriteMark(f[i - 1])
      BY <2>1 DEF MarkRun
  <2>3. \A i \in 0 .. k : g[i] = f[i]
      OBVIOUS
  <2>4. \A i \in 0 .. k + 1 : g[i] = IF i = 0 THEN Now ELSE WriteMark(g[i - 1])
      BY <2>2, <2>3
  <2>5. MarkRun(g, k + 1)
    <3> HIDE DEF g
    <3>1. g = [i \in 0 .. k + 1 |-> g[i]]
        BY DEF g
    <3> QED BY <2>4, <3>1 DEF MarkRun
  <2> QED BY <2>5
<1>3. T = Nat
  <2> HIDE DEF T
  <2>1. T \in SUBSET Nat
      BY DEF T
  <2> QED BY <1>1, <1>2, <2>1, NatSetInduction
<1> QED BY <1>3

\* The marks of a run that did not fit
Unfit(f, n) == {i \in 1 .. n : ~MarkFits(f[i - 1])}

MarksWritten(f, n) ==
    /\ f[0] = Now /\ \A i \in 1 .. n : f[i] = WriteMark(f[i - 1])
    /\ Becomes(f[n])
    /\ IF Unfit(f, n) = {} THEN Replies("NO_ERR", 0)
                           ELSE Replies("IO_ERR", Cardinality(Unfit(f, n)))
    /\ UNCHANGED <<mode, disk>>

LEMMA MarksAre ==
    ASSUME WriteMarks, mode = "RDWR"
    PROVE  \E n \in 1 .. CountMax : \E f : MarksWritten(f, n)
<1> DEFINE F(n) == CHOOSE f : MarkRun(f, n)
<1>1. PICK n \in 1 .. CountMax :
         /\ Becomes(F(n)[n])
         /\ IF Unfit(F(n), n) = {} THEN Replies("NO_ERR", 0)
                                   ELSE Replies("IO_ERR", Cardinality(Unfit(F(n), n)))
         /\ UNCHANGED <<mode, disk>>
    BY Zenon DEF WriteMarks, MarkRun, Unfit
<1> DEFINE f == F(n)
<1>2. n \in Nat /\ MarkRun(f, n)
    BY MarkRunExists
<1> HIDE DEF F
<1>3. \A i \in 0 .. n : f[i] = IF i = 0 THEN Now ELSE WriteMark(f[i - 1])
    BY <1>2 DEF MarkRun
<1>4. f[0] = Now /\ \A i \in 1 .. n : f[i] = WriteMark(f[i - 1])
    BY <1>2, <1>3
<1> QED BY <1>1, <1>4 DEF MarksWritten

LEMMA MarksGood ==
    ASSUME Good(Now), mode = "RDWR", file # <<>>,
           NEW n \in Nat \ {0}, NEW f, f[0] = Now,
           \A i \in 1 .. n : f[i] = WriteMark(f[i - 1])
    PROVE  Good(f[n]) /\ ~f[n].d.weof /\ f[n].gaps # <<>>
<1> DEFINE P(t) == Good(t) /\ t.gaps # <<>>
           T == {i \in Nat : i < n => P(f[i + 1]) /\ ~f[i + 1].d.weof}
<1>1. P(f[0])
    BY DEF Now, At
<1>2. \A t : P(t) => P(WriteMark(t)) /\ ~WriteMark(t).d.weof
    BY MarkIs
<1> HIDE DEF P
<1>3. 0 \in T
  <2>1. 1 \in 1 .. n /\ f[0 + 1] = WriteMark(f[0])
      OBVIOUS
  <2> QED BY <1>1, <1>2, <2>1
<1>4. \A i \in T : i + 1 \in T
  <2> SUFFICES ASSUME NEW i \in Nat, i + 1 < n, P(f[i + 1])
               PROVE  P(f[i + 2]) /\ ~f[i + 2].d.weof
      OBVIOUS
  <2>1. i + 2 \in 1 .. n /\ (i + 2) - 1 = i + 1
      OBVIOUS
  <2>2. f[i + 2] = WriteMark(f[i + 1])
      BY <2>1
  <2> QED BY <1>2, <2>2
<1>5. T = Nat
  <2> HIDE DEF T
  <2>1. T \in SUBSET Nat
      BY DEF T
  <2> QED BY <1>3, <1>4, <2>1, NatSetInduction
<1>6. n - 1 \in Nat /\ n - 1 < n /\ (n - 1) + 1 = n
    OBVIOUS
<1>7. n - 1 \in T
    BY <1>5, <1>6, Zenon
<1> QED BY <1>6, <1>7 DEF P

\* The marks that did not fit are at most as many as were asked for
LEMMA UnfitIs ==
    ASSUME NEW f, NEW n \in Nat
    PROVE  Cardinality(Unfit(f, n)) \in 0 .. n
<1>1. IsFiniteSet(1 .. n) /\ Cardinality(1 .. n) = n
    BY FS_Interval
<1>2. Unfit(f, n) \subseteq 1 .. n
    BY DEF Unfit
<1>3. IsFiniteSet(Unfit(f, n)) /\ Cardinality(Unfit(f, n)) <= n
    BY <1>1, <1>2, FS_Subset
<1>4. Cardinality(Unfit(f, n)) \in Nat
    BY <1>3, FS_CardinalityType
<1> QED BY <1>3, <1>4

-----------------------------------------------------------------------------
(* The invariant.                                                           *)

LEMMA TapeInit == Init => TapeInv
<1> SUFFICES ASSUME Init PROVE TapeInv
    OBVIOUS
<1>1. Sound(<<>>)
    BY DEF Sound, Chain
<1> QED BY <1>1 DEF Init, TapeInv, DevType, Fresh, NoLink, OnGap

\* What the requests that the drive refuses, and those that are about the other
\* files of the drive, leave as it was
LEMMA RefusedKeeps == ASSUME TapeInv, NEW err, Refused(err) PROVE TapeInv'
BY DEF TapeInv, Refused, Replies

\* An open drive has a sound tape with the head on a gap
LEMMA OpenIs ==
    ASSUME TapeInv, mode # "CLOSED"
    PROVE  /\ Good(Now) /\ (mode = "RDWR" => Now.gaps # <<>>) /\ Now.gaps = file /\ Now.d = dev
           /\ disk.lock /\ disk.link = NoLink
BY DEF TapeInv, Good, Now, At

\* A request leaves an open drive with a sound tape
LEMMA BecomesKeeps ==
    ASSUME TapeInv, mode # "CLOSED", NEW t, Good(t), file' = t.gaps, dev' = t.d,
           mode = "RDWR" => t.gaps # <<>>,
           t.d.weof => mode = "RDWR" /\ t.d.pos = Len(t.gaps),
           reply'.n \in Nat, UNCHANGED <<mode, disk>>
    PROVE  TapeInv'
BY DEF TapeInv, Good

LEMMA BlankIs ==
    Sound(<<Gap("BOT", 0, 0), Gap("EOT", 0, 0)>>)
<1> DEFINE g == <<Gap("BOT", 0, 0), Gap("EOT", 0, 0)>>
<1>1. g \in Seq(GapKind) /\ Len(g) = 2 /\ g[1] = Gap("BOT", 0, 0) /\ g[2] = Gap("EOT", 0, 0)
    BY DEF Gap, GapKind
<1> HIDE DEF g
<1>2. /\ g[1].type = "BOT" /\ g[1].prev = 0 /\ g[1].size = 0
      /\ g[2].type = "EOT" /\ g[2].prev = 0 /\ g[2].size = 0
    BY <1>1 DEF Gap
<1>3. \A i \in 1 .. 2 : i = 1 \/ i = 2
    OBVIOUS
<1>4. Chain(g)
  <2> SUFFICES ASSUME NEW i \in 1 .. 2
               PROVE  /\ g[i].prev = IF i = 1 THEN 0 ELSE g[i - 1].size
                      /\ g[i].type = "BOT" <=> i = 1
                      /\ g[i].type = "EOT" <=> i = 2
                      /\ g[i].type = "DATA" <=> g[i].size # 0
      BY <1>1 DEF Chain
  <2> QED BY <1>2, <1>3
<1>5. 2 \in 2 .. Limit + 2
    BY TapeAssumption
<1> QED BY <1>1, <1>4, <1>5 DEF Sound, g

LEMMA OpenKeeps == ASSUME TapeInv, Open PROVE TapeInv'
<1> USE DEF TapeInv
<1>1. CASE \E err : Refused(err)
    BY <1>1, RefusedKeeps
<1>2. ASSUME NEW m \in {"READ", "RDWR"},
             mode = "CLOSED",
             IF file = <<>>
             THEN IF m = "RDWR"
                  THEN Becomes(At(<<Gap("BOT", 0, 0), Gap("EOT", 0, 0)>>, Fresh(2)))
                  ELSE Becomes(At(file, Fresh(1)))
             ELSE Becomes(At(file, Fresh(IF disk.link = NoLink THEN 2 ELSE disk.link))),
             mode' = m, disk' = [lock |-> TRUE, link |-> NoLink],
             Replies("NO_ERR", 0)
      PROVE  TapeInv'
  <2>1. reply'.n = 0 /\ disk'.lock /\ disk'.link = NoLink /\ disk' \in [lock : BOOLEAN, link : Nat]
      BY <1>2 DEF Replies, NoLink
  <2>2. CASE file = <<>> /\ m = "RDWR"
    <3> DEFINE g == <<Gap("BOT", 0, 0), Gap("EOT", 0, 0)>>
    <3>1. file' = g /\ dev' = Fresh(2)
        BY <1>2, <2>2 DEF Becomes, At
    <3>2. Sound(g) /\ g # <<>> /\ OnGap(g, 2)
      <4>1. Len(g) = 2 /\ g # <<>>
          OBVIOUS
      <4> QED BY <4>1, BlankIs DEF OnGap
    <3> HIDE DEF g
    <3>3. dev' \in DevType /\ dev'.pos = 2 /\ ~dev'.weof
        BY <3>1 DEF Fresh, DevType
    <3> QED BY <1>2, <2>1, <2>2, <3>1, <3>2, <3>3
  <2>3. CASE file = <<>> /\ m = "READ"
    <3>1. file' = file /\ dev' = Fresh(1)
        BY <1>2, <2>3 DEF Becomes, At
    <3>2. dev' \in DevType /\ dev'.pos = 1 /\ ~dev'.weof
        BY <3>1 DEF Fresh, DevType
    <3> QED BY <1>2, <2>1, <2>3, <3>1, <3>2 DEF OnGap
  <2>4. CASE file # <<>>
    <3> DEFINE p == IF disk.link = NoLink THEN 2 ELSE disk.link
    <3>1. file' = file /\ dev' = Fresh(p)
        BY <1>2, <2>4 DEF Becomes, At
    <3>2. OnGap(file, p) /\ p \in Nat
      <4>1. 2 \in 2 .. Len(file)
          BY <2>4 DEF Sound
      <4> QED BY <2>4, <4>1 DEF OnGap
    <3> HIDE DEF p
    <3>3. dev' \in DevType /\ dev'.pos = p /\ ~dev'.weof
        BY <3>1, <3>2 DEF Fresh, DevType
    <3> QED BY <1>2, <2>1, <2>4, <3>1, <3>2, <3>3
  <2> QED BY <1>2, <2>2, <2>3, <2>4
<1> QED BY <1>1, <1>2 DEF Open

LEMMA CloseKeeps == ASSUME TapeInv, Close PROVE TapeInv'
<1>1. CASE \E err : Refused(err)
    BY <1>1, RefusedKeeps
<1>2. CASE /\ mode # "CLOSED" /\ mode' = "CLOSED"
           /\ file' = ClosedAs.gaps
           /\ dev' = Fresh(1)
           /\ disk' = [lock |-> FALSE, link |-> ClosedAs.d.pos]
           /\ Replies("NO_ERR", 0)
  <2> DEFINE m == ClosedAs
  <2>1. Good(m)
      BY <1>2, OpenIs, FlushedIs DEF ClosedAs
  <2>2. file' = m.gaps /\ disk' = [lock |-> FALSE, link |-> m.d.pos] /\ reply'.n = 0
      BY <1>2 DEF Replies
  <2> HIDE DEF m
  <2>3. Sound(m.gaps) /\ m.d.pos \in Nat /\ OnGap(m.gaps, m.d.pos)
      BY <2>1 DEF Good, DevType
  <2>4. dev' \in DevType /\ ~dev'.weof
      BY <1>2 DEF Fresh, DevType
  <2>5. disk' \in [lock : BOOLEAN, link : Nat] /\ disk'.link = m.d.pos
      BY <2>2, <2>3
  <2> QED BY <1>2, <2>2, <2>3, <2>4, <2>5 DEF TapeInv
<1> QED BY <1>1, <1>2 DEF Close

LEMMA VanishKeeps == ASSUME TapeInv, Vanish \/ Unlock PROVE TapeInv'
<1>1. CASE Vanish
  <2>1. dev' \in DevType /\ ~dev'.weof
      BY <1>1 DEF Vanish, Fresh, DevType
  <2> QED BY <1>1, <2>1 DEF Vanish, TapeInv
<1>2. CASE Unlock
  <2>1. disk' \in [lock : BOOLEAN, link : Nat] /\ disk'.link = disk.link
      BY <1>2 DEF Unlock, TapeInv
  <2> QED BY <1>2, <2>1 DEF Unlock, TapeInv
<1> QED BY <1>1, <1>2

LEMMA SpaceKeeps == ASSUME TapeInv, Space PROVE TapeInv'
<1>1. CASE \E err : Refused(err)
    BY <1>1, RefusedKeeps
<1>2. ASSUME NEW op \in Motion, NEW n \in 1 .. CountMax,
             mode # "CLOSED",
             Becomes(Spaced(op, n).t),
             \E err : Replies(err, Spaced(op, n).left),
             UNCHANGED <<mode, disk>>
      PROVE  TapeInv'
  <2> DEFINE s == Spaced(op, n)
  <2>1. n \in Nat /\ n # 0
      OBVIOUS
  <2>2. Good(Now) /\ (mode = "RDWR" => file # <<>>)
      BY <1>2, OpenIs
  <2>3. Good(s.t) /\ s.left \in Nat /\ ~s.t.d.weof /\ (s.t.gaps = <<>> <=> file = <<>>)
      BY <2>1, <2>2, SpacedGood
  <2>4. file' = s.t.gaps /\ dev' = s.t.d /\ reply'.n = s.left
      BY <1>2 DEF Becomes, Replies
  <2> HIDE DEF s
  <2> QED BY <1>2, <2>2, <2>3, <2>4, BecomesKeeps
<1> QED BY <1>1, <1>2 DEF Space

LEMMA RewindKeeps == ASSUME TapeInv, Rewind \/ Offline PROVE TapeInv'
<1> DEFINE m == Flushed(Now)
<1>1. mode # "CLOSED" /\ UNCHANGED <<mode, disk>> /\ reply'.n \in Nat
    BY DEF Rewind, Offline, Replies
<1>2. Good(Now) /\ (mode = "RDWR" => Now.gaps # <<>>) /\ Now.gaps = file
    BY <1>1, OpenIs
<1>3. Good(m) /\ ~m.d.weof /\ (m.gaps = <<>> <=> file = <<>>)
    BY <1>2, FlushedIs
<1>4. CASE Offline
  <2>1. file' = m.gaps /\ dev' = m.d
      BY <1>4 DEF Offline, Becomes
  <2> HIDE DEF m
  <2> QED BY <1>1, <1>2, <1>3, <2>1, BecomesKeeps
<1>5. CASE Rewind
  <2> DEFINE d == [m.d EXCEPT !.pos = 2, !.fnum = 0, !.block = 0]
             t == At(m.gaps, d)
  <2>1. file' = m.gaps /\ dev' = d
      BY <1>5 DEF Rewind, Becomes, At
  <2> HIDE DEF m
  <2>2. d \in DevType /\ d.pos = 2 /\ d.weof = m.d.weof
      BY <1>3 DEF Good, DevType
  <2>3. OnGap(m.gaps, 2)
      BY <1>3 DEF Good, Sound, OnGap
  <2> HIDE DEF d
  <2>4. Good(t) /\ t.gaps = m.gaps /\ t.d = d
      BY <1>3, <2>2, <2>3 DEF Good, At
  <2> HIDE DEF t
  <2> QED BY <1>1, <1>2, <1>3, <2>1, <2>2, <2>4, BecomesKeeps
<1> QED BY <1>4, <1>5

LEMMA WriteMarksKeeps == ASSUME TapeInv, WriteMarks PROVE TapeInv'
<1>1. CASE mode # "RDWR"
  <2>1. \E err : Refused(err)
      BY <1>1 DEF WriteMarks
  <2> QED BY <2>1, RefusedKeeps
<1>2. CASE mode = "RDWR"
  <2>1. PICK n \in 1 .. CountMax : \E f : MarksWritten(f, n)
      BY <1>2, MarksAre
  <2>2. PICK f : MarksWritten(f, n)
      BY <2>1
  <2>3. Good(Now) /\ file # <<>> /\ n \in Nat \ {0} /\ n \in Nat
      BY <1>2, OpenIs
  <2>4. Good(f[n]) /\ ~f[n].d.weof /\ f[n].gaps # <<>>
      BY <1>2, <2>2, <2>3, MarksGood DEF MarksWritten
  <2>5. reply'.n \in Nat
    <3>1. reply'.n \in {0, Cardinality(Unfit(f, n))}
        BY <2>2 DEF MarksWritten, Replies
    <3> QED BY <2>3, <3>1, UnfitIs
  <2>6. file' = f[n].gaps /\ dev' = f[n].d /\ UNCHANGED <<mode, disk>>
      BY <2>2 DEF MarksWritten, Becomes
  <2> QED BY <1>2, <2>4, <2>5, <2>6, BecomesKeeps
<1> QED BY <1>1, <1>2

\* ndmos_tape_write(): a record, or where its data did not get to the disk the
\* end of the tape in its place
LEMMA WriteKeeps == ASSUME TapeInv, Write PROVE TapeInv'
<1>1. CASE \E err : Refused(err)
    BY <1>1, RefusedKeeps
<1>2. CASE /\ mode = "RDWR"
           /\ dev' = [dev EXCEPT !.leom = TRUE]
           /\ Replies("EOM_ERR", 0)
           /\ UNCHANGED <<file, mode, disk>>
  <2>1. dev \in DevType /\ OnGap(file, dev.pos) /\ reply'.n = 0
      BY <1>2 DEF TapeInv, Replies
  <2>2. dev' \in DevType /\ dev'.pos = dev.pos /\ dev'.weof = dev.weof
      BY <1>2, <2>1 DEF DevType
  <2> QED BY <1>2, <2>1, <2>2 DEF TapeInv
<1>3. ASSUME NEW size \in Sizes,
             mode = "RDWR", ~PastPhysicalEnd(Now, size), Readable(Now),
             \/ Becomes(Written(Now, size)) /\ Replies("NO_ERR", size)
             \/ Becomes(Cut(Now)) /\ Replies("IO_ERR", 0),
             UNCHANGED <<mode, disk>>
      PROVE  TapeInv'
  <2> DEFINE p == dev.pos
  <2>1. /\ Good(Now) /\ file # <<>> /\ Now.gaps = file /\ Now.d = dev /\ dev \in DevType
        /\ Sound(file) /\ size \in Nat \ {0} /\ file \in Seq(GapKind)
      BY <1>3, OpenIs, TapeAssumption DEF TapeInv, Sound
  <2>2. p \in 2 .. Len(file) /\ p \in 1 .. Len(file) /\ Len(file) \in 2 .. Limit + 2
    <3>1. p \in 2 .. Len(file) /\ Len(file) \in 2 .. Limit + 2
        BY <2>1, GoodIs
    <3> QED BY <3>1
  <2>3. p <= Limit
    <3>1. ~ (Offset(file, p) + 1 + size > Limit)
        BY <1>3, <2>1 DEF PastPhysicalEnd, GapSize
    <3>2. Offset(file, p) \in Nat /\ Offset(file, p) >= p - 1
        BY <2>1, <2>2, OffsetIs
    <3> QED BY <2>1, <2>2, <3>1, <3>2, TapeAssumption
  <2>4. CASE Becomes(Written(Now, size)) /\ Replies("NO_ERR", size)
    <3> DEFINE g == SubSeq(file, 1, p - 1)
                       \o <<Gap("DATA", file[p].prev, size), Gap("EOT", size, 0)>>
               e == [dev EXCEPT !.pos = @ + 1, !.block = @ + 1, !.weof = TRUE]
    <3>1. file' = g /\ dev' = e /\ reply'.n = size
        BY <2>1, <2>4 DEF Becomes, Written, At, Before, Here, Replies
    <3>2. Sound(g) /\ Len(g) = p + 1
      <4> HIDE DEF p
      <4> DEFINE h == SubSeq(file, 1, p - 1)
                       \o <<Gap("DATA", file[p].prev, size), Gap("EOT", size, 0)>>
      <4>1. "DATA" \in {"DATA", "FILE"} /\ size \in Sizes \cup {0} /\ ("DATA" = "DATA" <=> size # 0)
          BY <2>1
      <4>2. Sound(h) /\ Len(h) = p + 1
          BY <2>1, <2>2, <2>3, <4>1, WrittenSound
      <4> QED BY <4>2
    <3> HIDE DEF g
    <3>3. e \in DevType /\ e.pos = p + 1
      <4> DEFINE x == p + 1
                 y == dev.block + 1
      <4>1. x \in Nat /\ y \in Nat /\ e = [dev EXCEPT !.pos = x, !.block = y, !.weof = TRUE]
        <5>1. p \in Nat /\ dev.block \in Nat
            BY <2>1 DEF DevType
        <5> QED BY <5>1
      <4> HIDE DEF x, y, e
      <4>2. e \in DevType /\ e.pos = x
          BY <2>1, <4>1 DEF DevType
      <4> QED BY <4>2 DEF x
    <3>4. g # <<>> /\ OnGap(g, p + 1)
        BY <2>2, <3>2 DEF OnGap
    <3> HIDE DEF e, p
    <3>5. Good(At(g, e)) /\ At(g, e).gaps = g /\ At(g, e).d = e /\ e.pos = Len(g)
        BY <3>2, <3>3, <3>4 DEF Good, At
    <3> QED BY <1>3, <2>1, <3>1, <3>4, <3>5, BecomesKeeps
  <2>5. CASE Becomes(Cut(Now)) /\ Replies("IO_ERR", 0)
    <3> DEFINE g == SubSeq(file, 1, p - 1) \o <<Gap("EOT", file[p].prev, 0)>>
               e == [dev EXCEPT !.weof = TRUE]
    <3>1. file' = g /\ dev' = e /\ reply'.n = 0
        BY <2>1, <2>5 DEF Becomes, Cut, At, Before, Here, Replies
    <3>2. Sound(g) /\ Len(g) = p
        BY <2>1, <2>2, CutSound
    <3> HIDE DEF g
    <3>3. e \in DevType /\ e.pos = p
        BY <2>1 DEF DevType
    <3>4. g # <<>> /\ OnGap(g, p)
        BY <2>2, <3>2 DEF OnGap
    <3> HIDE DEF e, p
    <3>5. Good(At(g, e)) /\ At(g, e).gaps = g /\ At(g, e).d = e /\ e.pos = Len(g)
        BY <3>2, <3>3, <3>4 DEF Good, At
    <3> QED BY <1>3, <2>1, <3>1, <3>4, <3>5, BecomesKeeps
  <2> QED BY <1>3, <2>4, <2>5
<1> QED BY <1>1, <1>2, <1>3 DEF Write

\* ndmos_tape_read(): behind data there is another gap
LEMMA ReadKeeps == ASSUME TapeInv, Read PROVE TapeInv'
<1>1. CASE \E err : Refused(err)
    BY <1>1, RefusedKeeps
<1>2. ASSUME NEW size \in Sizes,
             mode # "CLOSED", Readable(Now), Here(Now).type = "DATA",
             dev' = [dev EXCEPT !.pos = @ + 1, !.block = @ + 1],
             Replies("NO_ERR", IF size < Here(Now).size THEN size ELSE Here(Now).size),
             UNCHANGED <<file, mode, disk>>
      PROVE  TapeInv'
  <2>1. Good(Now) /\ Now.gaps = file /\ Now.d = dev /\ dev \in DevType
      BY <1>2, OpenIs DEF TapeInv
  <2>2. file # <<>> /\ dev.pos \in 2 .. Len(file) /\ Here(Now) \in GapKind /\ Len(file) \in Nat
      BY <1>2, <2>1, GoodIs DEF Readable, Here
  <2>3. dev.pos + 1 \in 2 .. Len(file) /\ ~dev.weof
    <3>1. dev.pos # Len(file)
        BY <1>2, <2>1, <2>2, HereIs
    <3>2. ~dev.weof
        BY <3>1 DEF TapeInv
    <3> QED BY <2>2, <3>1, <3>2
  <2>4. dev' \in DevType /\ dev'.pos = dev.pos + 1 /\ dev'.weof = dev.weof
    <3> DEFINE x == dev.pos + 1
               y == dev.block + 1
    <3>1. x \in Nat /\ y \in Nat /\ dev' = [dev EXCEPT !.pos = x, !.block = y]
      <4>1. dev.pos \in Nat /\ dev.block \in Nat
          BY <2>1 DEF DevType
      <4> QED BY <1>2, <4>1
    <3> HIDE DEF x, y
    <3>2. dev' \in DevType /\ dev'.pos = x /\ dev'.weof = dev.weof
        BY <2>1, <3>1 DEF DevType
    <3> QED BY <3>2 DEF x
  <2>5. reply'.n \in Nat
    <3>1. reply'.n \in {size, Here(Now).size}
        BY <1>2 DEF Replies
    <3>2. Here(Now).size \in Sizes \cup {0}
        BY <2>2 DEF GapKind
    <3> QED BY <3>1, <3>2, SizeIs
  <2>6. OnGap(file, dev'.pos)
      BY <2>2, <2>3, <2>4 DEF OnGap
  <2> QED BY <1>2, <2>1, <2>3, <2>4, <2>5, <2>6 DEF TapeInv
<1> QED BY <1>1, <1>2 DEF Read

LEMMA TapeStep == TapeInv /\ [Next]_vars => TapeInv'
<1> SUFFICES ASSUME TapeInv, [Next]_vars PROVE TapeInv'
    OBVIOUS
<1>1. CASE Next
    BY <1>1, OpenKeeps, CloseKeeps, VanishKeeps, SpaceKeeps, RewindKeeps, WriteMarksKeeps,
       WriteKeeps, ReadKeeps DEF Next
<1>2. CASE UNCHANGED vars
    BY <1>2 DEF vars, TapeInv
<1> QED BY <1>1, <1>2

\* The tape's file stays a sound chain of gaps within the tape's length, and the
\* head behind BOT and at a gap, whatever is written, cut off, marked, spaced
\* over, closed and opened again (ndma_tape_simulator.c).
THEOREM TapeInvariant == Spec => []TapeInv
BY TapeInit, TapeStep, PTL DEF Spec

\* The offset stays on a gap and no number of the tape's state goes below zero.
THEOREM TypeCorrect == Spec => []TypeOK
<1>1. TapeInv => TypeOK
  <2> SUFFICES ASSUME TapeInv PROVE TypeOK
      OBVIOUS
  <2>1. file \in Seq([type : {"BOT", "DATA", "FILE", "EOT"},
                      prev : Sizes \cup {0}, size : Sizes \cup {0}])
      BY DEF TapeInv, Sound, GapKind
  <2>2. \A p : p \in Nat /\ OnGap(file, p) => p \in 1 .. Limit + 2
    <3> SUFFICES ASSUME NEW p \in Nat, OnGap(file, p) PROVE p \in 1 .. Limit + 2
        OBVIOUS
    <3>1. CASE file = <<>>
        BY <3>1, TapeAssumption DEF OnGap
    <3>2. CASE file # <<>>
        BY <3>2, TapeAssumption DEF OnGap, TapeInv, Sound
    <3> QED BY <3>1, <3>2
  <2>3. dev.pos \in 1 .. Limit + 2
    <3>1. CASE mode = "CLOSED"
        BY <3>1, TapeAssumption DEF TapeInv, Fresh
    <3>2. CASE mode # "CLOSED"
        BY <3>2, <2>2 DEF TapeInv, DevType
    <3> QED BY <3>1, <3>2
  <2>4. dev \in [pos : 1 .. Limit + 2, fnum : Nat, block : Nat, leom : BOOLEAN, weof : BOOLEAN]
      BY <2>3 DEF TapeInv, DevType
  <2>5. disk.link \in 0 .. Limit + 2
    <3>1. CASE disk.link = NoLink
        BY <3>1, TapeAssumption DEF NoLink
    <3>2. CASE disk.link # NoLink
        BY <3>2, <2>2, TapeAssumption DEF TapeInv
    <3> QED BY <3>1, <3>2
  <2>6. disk \in [lock : BOOLEAN, link : 0 .. Limit + 2]
      BY <2>5 DEF TapeInv
  <2> QED BY <2>1, <2>4, <2>6 DEF TapeInv, TypeOK
<1> QED BY <1>1, TapeInvariant, PTL

\* Every gap leads back to the one before it, however the tape was written, cut
\* off, marked and written over again: simu_back_one() finds its way by it.
THEOREM ChainHolds == Spec => []GapChain
<1>1. TapeInv => GapChain
    BY DEF TapeInv, Sound, Chain, GapChain
<1> QED BY <1>1, TapeInvariant, PTL

\* The drive warns before it refuses: where every record and the gap before it fit
\* between the two ends of the tape, a write that no longer fits is refused only
\* after the logical end has been told (ndmos_tape_write()).
THEOREM WarnedInTime ==
    (\A size \in Sizes : size + GapSize <= LogicalEOM) => (Spec => WarnedBeforeTheEnd)
<1> SUFFICES ASSUME \A size \in Sizes : size + GapSize <= LogicalEOM
             PROVE  Spec => WarnedBeforeTheEnd
    OBVIOUS
<1>1. ASSUME TapeInv, Write, mode = "RDWR", reply'.err = "IO_ERR",
             \E size \in Sizes : PastPhysicalEnd(Now, size)
      PROVE  dev.leom
  <2>1. PICK size \in Sizes : PastPhysicalEnd(Now, size)
      BY <1>1
  <2>2. PastLogicalEnd(Now)
    <3> DEFINE o == Offset(file, dev.pos)
    <3>1. Good(Now) /\ file # <<>> /\ Now.gaps = file /\ Now.d = dev
        BY <1>1, OpenIs
    <3>2. file \in Seq(GapKind) /\ dev.pos \in 1 .. Len(file)
        BY <3>1, GoodIs
    <3>3. o \in Nat
        BY <3>2, OffsetIs
    <3>4. o + 1 + size > Limit
        BY <2>1, <3>1 DEF PastPhysicalEnd, GapSize
    <3>5. size \in Nat /\ size + 1 <= LogicalEOM
        BY TapeAssumption DEF GapSize
    <3> HIDE DEF o
    <3>6. o > Limit - LogicalEOM
        BY <3>3, <3>4, <3>5, TapeAssumption
    <3> QED BY <3>1, <3>6 DEF PastLogicalEnd, o
  <2>3. PastLogicalEnd(Now) => dev.leom \/ reply'.err = "EOM_ERR"
      BY <1>1 DEF Write, Replies
  <2> QED BY <1>1, <2>2, <2>3
<1>2. TapeInv /\ [Next]_vars
        => [Write /\ mode = "RDWR" /\ reply'.err = "IO_ERR"
            /\ (\E size \in Sizes : PastPhysicalEnd(Now, size)) => dev.leom]_vars
    BY <1>1
<1> QED BY <1>2, TapeInvariant, PTL DEF Spec, WarnedBeforeTheEnd

-----------------------------------------------------------------------------
(* The numbers of the tape's state.                                         *)

FilesBefore(gaps, p) == Cardinality({i \in 1 .. p - 1 : gaps[i].type = "FILE"})

BlocksBefore(gaps, p) ==
    Cardinality({i \in 1 .. p - 1 :
        /\ gaps[i].type = "DATA"
        /\ \A k \in i .. p - 1 : gaps[k].type # "FILE"})

\* The numbers of the state are what is really before the head
Right(t) ==
    /\ t.d.fnum = FilesBefore(t.gaps, t.d.pos)
    /\ t.d.block = BlocksBefore(t.gaps, t.d.pos)

LEMMA BeforeIs ==
    ASSUME NEW gaps, NEW p \in Nat \ {0}
    PROVE  FilesBefore(gaps, p) \in Nat /\ BlocksBefore(gaps, p) \in Nat
<1> DEFINE A == {i \in 1 .. p - 1 : gaps[i].type = "FILE"}
           B == {i \in 1 .. p - 1 :
                   /\ gaps[i].type = "DATA"
                   /\ \A k \in i .. p - 1 : gaps[k].type # "FILE"}
<1>1. IsFiniteSet(1 .. p - 1)
    BY FS_Interval
<1>2. A \subseteq 1 .. p - 1 /\ B \subseteq 1 .. p - 1
    OBVIOUS
<1> HIDE DEF A, B
<1>3. IsFiniteSet(A) /\ IsFiniteSet(B)
    BY <1>1, <1>2, FS_Subset
<1>4. Cardinality(A) \in Nat /\ Cardinality(B) \in Nat
    BY <1>3, FS_CardinalityType
<1> QED BY <1>4 DEF FilesBefore, BlocksBefore, A, B

\* A set counts one more with one more element
LEMMA OneMore ==
    ASSUME NEW S, IsFiniteSet(S), NEW x, x \notin S
    PROVE  Cardinality(S \cup {x}) = Cardinality(S) + 1
<1>1. Cardinality(S \cup {x}) = IF x \in S THEN Cardinality(S) ELSE Cardinality(S) + 1
    BY FS_AddElement
<1> QED BY <1>1

\* What one more gap before the head adds
LEMMA NextBefore ==
    ASSUME NEW gaps, NEW p \in Nat \ {0}
    PROVE  /\ gaps[p].type = "FILE" =>
                 /\ FilesBefore(gaps, p + 1) = FilesBefore(gaps, p) + 1
                 /\ BlocksBefore(gaps, p + 1) = 0
           /\ gaps[p].type = "DATA" =>
                 /\ FilesBefore(gaps, p + 1) = FilesBefore(gaps, p)
                 /\ BlocksBefore(gaps, p + 1) = BlocksBefore(gaps, p) + 1
<1> DEFINE A(q) == {i \in 1 .. q - 1 : gaps[i].type = "FILE"}
           B(q) == {i \in 1 .. q - 1 :
                      /\ gaps[i].type = "DATA"
                      /\ \A k \in i .. q - 1 : gaps[k].type # "FILE"}
<1>1. (p + 1) - 1 = p /\ p \in 1 .. p /\ p \notin 1 .. p - 1
      /\ (\A i \in 1 .. p : i \in 1 .. p - 1 \/ i = p) /\ \A i \in 1 .. p - 1 : i \in 1 .. p
    OBVIOUS
<1>2. IsFiniteSet(A(p)) /\ IsFiniteSet(B(p)) /\ p \notin A(p) /\ p \notin B(p)
  <2>1. A(p) \subseteq 1 .. p - 1 /\ B(p) \subseteq 1 .. p - 1 /\ IsFiniteSet(1 .. p - 1)
      BY FS_Interval
  <2> HIDE DEF A, B
  <2> QED BY <1>1, <2>1, FS_Subset
<1>3. ASSUME gaps[p].type = "FILE"
      PROVE  /\ Cardinality(A(p + 1)) = Cardinality(A(p)) + 1
             /\ Cardinality(B(p + 1)) = 0
  <2>1. A(p + 1) = A(p) \cup {p}
    <3> DEFINE C == {i \in 1 .. p : gaps[i].type = "FILE"}
    <3>1. A(p + 1) = C
        BY <1>1, Zenon
    <3>2. C = A(p) \cup {p}
        BY <1>1, <1>3
    <3> QED BY <3>1, <3>2
  <2>2. B(p + 1) = {}
    <3> DEFINE C == {i \in 1 .. p :
                       /\ gaps[i].type = "DATA"
                       /\ \A k \in i .. p : gaps[k].type # "FILE"}
    <3>1. B(p + 1) = C
        BY <1>1, Zenon
    <3>2. \A i \in 1 .. p : p \in i .. p
        OBVIOUS
    <3>3. C = {}
        BY <1>3, <3>2
    <3> QED BY <3>1, <3>3
  <2> HIDE DEF A, B
  <2>3. Cardinality(A(p) \cup {p}) = Cardinality(A(p)) + 1
      BY <1>2, OneMore
  <2>4. Cardinality({}) = 0
      BY FS_EmptySet
  <2> QED BY <2>1, <2>2, <2>3, <2>4
<1>4. ASSUME gaps[p].type = "DATA"
      PROVE  /\ Cardinality(A(p + 1)) = Cardinality(A(p))
             /\ Cardinality(B(p + 1)) = Cardinality(B(p)) + 1
  <2>1. A(p + 1) = A(p)
    <3> DEFINE C == {i \in 1 .. p : gaps[i].type = "FILE"}
    <3>1. A(p + 1) = C
        BY <1>1, Zenon
    <3>2. C = A(p)
        BY <1>1, <1>4
    <3> QED BY <3>1, <3>2
  <2>2. B(p + 1) = B(p) \cup {p}
    <3> DEFINE C == {i \in 1 .. p :
                       /\ gaps[i].type = "DATA"
                       /\ \A k \in i .. p : gaps[k].type # "FILE"}
    <3>1. B(p + 1) = C
        BY <1>1, Zenon
    <3>2. \A i \in 1 .. p : \A k \in i .. p : k \in i .. p - 1 \/ k = p
        OBVIOUS
    <3>3. \A i \in 1 .. p : \A k \in i .. p - 1 : k \in i .. p
        OBVIOUS
    <3>4. \A i \in 1 .. p :
             (\A k \in i .. p : gaps[k].type # "FILE")
             <=> (\A k \in i .. p - 1 : gaps[k].type # "FILE")
        BY <1>4, <3>2, <3>3
    <3>5. \A k \in p .. p : k = p
        OBVIOUS
    <3>6. \A i : i \in C <=> i \in B(p) \cup {p}
        BY <1>1, <1>4, <3>4, <3>5
    <3> HIDE DEF B, C
    <3> QED BY <3>1, <3>6
  <2> HIDE DEF A, B
  <2>3. Cardinality(B(p) \cup {p}) = Cardinality(B(p)) + 1
      BY <1>2, OneMore
  <2> QED BY <2>1, <2>2, <2>3
<1> QED BY <1>3, <1>4 DEF FilesBefore, BlocksBefore

\* Only what is before the head counts
LEMMA SameBefore ==
    ASSUME NEW gaps, NEW g, NEW p \in Nat \ {0},
           \A i \in 1 .. p - 1 : g[i] = gaps[i]
    PROVE  /\ FilesBefore(g, p) = FilesBefore(gaps, p)
           /\ BlocksBefore(g, p) = BlocksBefore(gaps, p)
<1>1. {i \in 1 .. p - 1 : g[i].type = "FILE"} = {i \in 1 .. p - 1 : gaps[i].type = "FILE"}
    OBVIOUS
<1>2. \A i \in 1 .. p - 1 : \A k \in i .. p - 1 : g[k] = gaps[k]
    OBVIOUS
<1>3. {i \in 1 .. p - 1 : g[i].type = "DATA" /\ \A k \in i .. p - 1 : g[k].type # "FILE"}
        = {i \in 1 .. p - 1 : gaps[i].type = "DATA" /\ \A k \in i .. p - 1 : gaps[k].type # "FILE"}
    BY <1>2
<1> QED BY <1>1, <1>3 DEF FilesBefore, BlocksBefore

\* Before the first gap behind BOT there is nothing
LEMMA StartBefore ==
    ASSUME NEW gaps, gaps[1].type = "BOT"
    PROVE  FilesBefore(gaps, 2) = 0 /\ BlocksBefore(gaps, 2) = 0
<1>1. \A i \in 1 .. 2 - 1 : i = 1
    OBVIOUS
<1>2. {i \in 1 .. 2 - 1 : gaps[i].type = "FILE"} = {}
    BY <1>1
<1>3. {i \in 1 .. 2 - 1 : gaps[i].type = "DATA" /\ \A k \in i .. 2 - 1 : gaps[k].type # "FILE"} = {}
    BY <1>1
<1> QED BY <1>2, <1>3, FS_EmptySet, Zenon DEF FilesBefore, BlocksBefore

\* A mark counts one file more and starts its blocks anew
LEMMA MarkedRight ==
    ASSUME NEW t, Good(t), t.gaps # <<>>, MarkFits(t), Right(t)
    PROVE  Right(Marked(t))
<1> DEFINE m == Marked(t)
           p == t.d.pos
<1>1. /\ m.d.pos = p + 1 /\ m.d.fnum = t.d.fnum + 1 /\ m.d.block = 0
      /\ m.gaps[p].type = "FILE" /\ \A i \in 1 .. p - 1 : m.gaps[i] = t.gaps[i]
    BY MarkedIs
<1>2. p \in Nat \ {0}
    BY GoodIs
<1> HIDE DEF m, p
<1>3. FilesBefore(m.gaps, p) = FilesBefore(t.gaps, p)
    BY <1>1, <1>2, SameBefore
<1>4. FilesBefore(m.gaps, p + 1) = FilesBefore(m.gaps, p) + 1 /\ BlocksBefore(m.gaps, p + 1) = 0
    BY <1>1, <1>2, NextBefore
<1>5. t.d.fnum = FilesBefore(t.gaps, p)
    BY DEF Right, p
<1> QED BY <1>1, <1>3, <1>4, <1>5 DEF Right, m

\* simu_flush_weof() and ndmos_tape_wfm() keep the numbers right
LEMMA MarkRight ==
    ASSUME NEW t, Good(t), mode = "RDWR" => t.gaps # <<>>, Right(t)
    PROVE  Right(WriteMark(t)) /\ Right(Flushed(t))
<1>1. Right(WriteMark(t))
  <2>1. CASE mode = "RDWR" /\ MarkFits(t)
      BY <2>1, MarkedRight DEF WriteMark
  <2>2. CASE ~ (mode = "RDWR" /\ MarkFits(t))
    <3> DEFINE m == WriteMark(t)
    <3>1. m.gaps = t.gaps /\ m.d = [t.d EXCEPT !.weof = FALSE]
        BY <2>2 DEF WriteMark, At
    <3>2. m.d.fnum = t.d.fnum /\ m.d.block = t.d.block /\ m.d.pos = t.d.pos
        BY <3>1 DEF Good, DevType
    <3> HIDE DEF m
    <3> QED BY <3>1, <3>2 DEF Right, m
  <2> QED BY <2>1, <2>2
<1> QED BY <1>1 DEF Flushed

\* simu_forw_one() keeps the numbers right
LEMMA ForwardRight ==
    ASSUME NEW t, Good(t), t.gaps # <<>>, NEW overMark \in BOOLEAN, Right(t)
    PROVE  Right(Forward(t, overMark).t)
<1> DEFINE s == Forward(t, overMark)
           p == t.d.pos
<1>1. \/ /\ Here(t).type = "DATA"
         /\ Steps(t, s, 1, t.d.fnum, t.d.block + 1)
      \/ /\ Here(t).type = "FILE"
         /\ Steps(t, s, 1, t.d.fnum + 1, 0)
      \/ Steps(t, s, 0, t.d.fnum, t.d.block)
    BY ForwardIs
<1>2. p \in Nat \ {0} /\ p + 0 = p /\ t.d.fnum = FilesBefore(t.gaps, p)
      /\ t.d.block = BlocksBefore(t.gaps, p)
    BY GoodIs DEF Right
<1> HIDE DEF s
<1>3. CASE Here(t).type = "DATA" /\ Steps(t, s, 1, t.d.fnum, t.d.block + 1)
  <2>1. t.gaps[p].type = "DATA"
      BY <1>3 DEF Here
  <2>2. FilesBefore(t.gaps, p + 1) = FilesBefore(t.gaps, p)
        /\ BlocksBefore(t.gaps, p + 1) = BlocksBefore(t.gaps, p) + 1
      BY <1>2, <2>1, NextBefore
  <2>3. s.t.gaps = t.gaps /\ s.t.d.pos = p + 1 /\ s.t.d.fnum = t.d.fnum
        /\ s.t.d.block = t.d.block + 1
      BY <1>3 DEF Steps
  <2> HIDE DEF p
  <2> QED BY <1>2, <2>2, <2>3 DEF Right, s
<1>4. CASE Here(t).type = "FILE" /\ Steps(t, s, 1, t.d.fnum + 1, 0)
  <2>1. t.gaps[p].type = "FILE"
      BY <1>4 DEF Here
  <2>2. FilesBefore(t.gaps, p + 1) = FilesBefore(t.gaps, p) + 1
        /\ BlocksBefore(t.gaps, p + 1) = 0
      BY <1>2, <2>1, NextBefore
  <2>3. s.t.gaps = t.gaps /\ s.t.d.pos = p + 1 /\ s.t.d.fnum = t.d.fnum + 1
        /\ s.t.d.block = 0
      BY <1>4 DEF Steps
  <2> HIDE DEF p
  <2> QED BY <1>2, <2>2, <2>3 DEF Right, s
<1>5. CASE Steps(t, s, 0, t.d.fnum, t.d.block)
  <2>1. s.t.gaps = t.gaps /\ s.t.d.pos = p /\ s.t.d.fnum = t.d.fnum
        /\ s.t.d.block = t.d.block
      BY <1>2, <1>5 DEF Steps
  <2> QED BY <1>2, <2>1 DEF Right, s
<1> QED BY <1>1, <1>3, <1>4, <1>5

\* Right but for the blocks, which are 0 once a mark behind "from" was passed
RightBack(t, from) ==
    /\ t.d.pos <= from
    /\ t.d.fnum = FilesBefore(t.gaps, t.d.pos)
    /\ \/ t.d.block = BlocksBefore(t.gaps, t.d.pos)
       \/ /\ t.d.block = 0
          /\ \E i \in t.d.pos .. from - 1 : t.gaps[i].type = "FILE"

\* simu_back_one() keeps the number of the file, and that of the block within it
LEMMA BackwardRight ==
    ASSUME NEW t, Good(t), t.gaps # <<>>, NEW overMark \in BOOLEAN,
           NEW from \in Nat, RightBack(t, from)
    PROVE  RightBack(Backward(t, overMark).t, from)
<1> DEFINE s == Backward(t, overMark)
           p == t.d.pos
           q == p - 1
<1>1. \/ Behind(t) = "BOT" /\ Steps(t, s, 0, 0, 0)
      \/ Behind(t) = "DATA" /\ Steps(t, s, -1, t.d.fnum, Less(t.d.block))
      \/ Behind(t) = "FILE" /\ Steps(t, s, -1, Less(t.d.fnum), 0)
      \/ Behind(t) = "FILE" /\ Steps(t, s, 0, t.d.fnum, 0)
    BY BackwardIs
<1>2. /\ p \in Nat \ {0} /\ p \in 2 .. Len(t.gaps) /\ p + 0 = p /\ q \in Nat \ {0} /\ q + 1 = p
      /\ p + (-1) = q /\ p <= from /\ Len(t.gaps) \in Nat /\ q <= from
      /\ t.d.fnum \in Nat /\ t.d.block \in Nat /\ Behind(t) = t.gaps[q].type
  <2>1. p \in 2 .. Len(t.gaps) /\ Len(t.gaps) \in Nat /\ t.d.fnum \in Nat /\ t.d.block \in Nat
      BY GoodIs DEF DevType
  <2> QED BY <2>1 DEF RightBack, Behind
<1>3. t.gaps[1].type = "BOT"
    BY <1>2 DEF Good, Sound, Chain
<1>4. q \in q .. from - 1 /\ \A i \in p .. from - 1 : i \in q .. from - 1
    BY <1>2
<1>5. FilesBefore(t.gaps, q) \in Nat /\ BlocksBefore(t.gaps, q) \in Nat
    BY <1>2, BeforeIs
<1>6. t.d.fnum = FilesBefore(t.gaps, p)
    BY DEF RightBack
<1> DEFINE g == t.gaps
           n == FilesBefore(g, q)
           b == BlocksBefore(g, q)
<1> HIDE DEF s, q
<1>7. CASE Behind(t) = "BOT" /\ Steps(t, s, 0, 0, 0)
  <2>1. p = 2
      BY <1>7, HereIs
  <2>2. s.t.gaps = g /\ s.t.d.pos = 2 /\ s.t.d.fnum = 0 /\ s.t.d.block = 0
      BY <1>2, <1>7, <2>1 DEF Steps
  <2>3. FilesBefore(g, 2) = 0 /\ BlocksBefore(g, 2) = 0
      BY <1>3, StartBefore
  <2> QED BY <1>2, <2>1, <2>2, <2>3 DEF RightBack, s
<1>8. CASE Behind(t) = "DATA" /\ Steps(t, s, -1, t.d.fnum, Less(t.d.block))
  <2>1. FilesBefore(g, p) = n /\ BlocksBefore(g, p) = b + 1
      BY <1>2, <1>8, NextBefore
  <2>2. s.t.gaps = g /\ s.t.d.pos = q /\ s.t.d.fnum = t.d.fnum /\ s.t.d.block = Less(t.d.block)
      BY <1>2, <1>8 DEF Steps
  <2>3. \/ t.d.block = b + 1
        \/ /\ t.d.block = 0
           /\ \E i \in q .. from - 1 : g[i].type = "FILE"
      BY <1>4, <2>1 DEF RightBack
  <2>4. t.d.block = b + 1 => Less(t.d.block) = b
    <3> HIDE DEF b
    <3>1. b \in Nat
        BY <1>5 DEF b
    <3>2. Less(b + 1) = b
        BY <3>1 DEF Less
    <3> QED BY <3>2
  <2>5. Less(0) = 0
      BY DEF Less
  <2> HIDE DEF n, b, p
  <2>6. s.t.d.block = b \/ (s.t.d.block = 0 /\ \E i \in q .. from - 1 : g[i].type = "FILE")
      BY <2>2, <2>3, <2>4, <2>5
  <2> QED BY <1>2, <1>6, <2>1, <2>2, <2>6 DEF RightBack, s, n, b
<1>9. CASE Behind(t) = "FILE" /\ Steps(t, s, -1, Less(t.d.fnum), 0)
  <2>1. FilesBefore(g, p) = n + 1
      BY <1>2, <1>9, NextBefore
  <2>2. s.t.gaps = g /\ s.t.d.pos = q /\ s.t.d.fnum = Less(t.d.fnum) /\ s.t.d.block = 0
      BY <1>2, <1>9 DEF Steps
  <2>3. Less(t.d.fnum) = n
    <3> HIDE DEF n
    <3>1. n \in Nat
        BY <1>5 DEF n
    <3>2. Less(n + 1) = n
        BY <3>1 DEF Less
    <3> QED BY <1>6, <2>1, <3>2
  <2>4. \E i \in q .. from - 1 : g[i].type = "FILE"
      BY <1>2, <1>4, <1>9
  <2> HIDE DEF p
  <2> QED BY <1>2, <2>2, <2>3, <2>4 DEF RightBack, s
<1>10. CASE Behind(t) = "FILE" /\ Steps(t, s, 0, t.d.fnum, 0)
  <2>1. BlocksBefore(g, p) = 0
    <3>1. g[q].type = "FILE"
        BY <1>2, <1>10
    <3> HIDE DEF g
    <3>2. BlocksBefore(g, q + 1) = 0
        BY <1>2, <3>1, NextBefore
    <3> QED BY <1>2, <3>2
  <2>2. s.t.gaps = g /\ s.t.d.pos = p /\ s.t.d.fnum = t.d.fnum /\ s.t.d.block = 0
      BY <1>2, <1>10 DEF Steps
  <2> QED BY <1>2, <1>6, <2>1, <2>2 DEF RightBack, s
<1> QED BY <1>1, <1>7, <1>8, <1>9, <1>10

-----------------------------------------------------------------------------
(* A motion from where the drive settled, turn by turn.                     *)

LEMMA UpTo ==
    ASSUME NEW T, NEW n \in Nat, 0 \in T, \A i \in 0 .. n - 1 : i \in T => i + 1 \in T
    PROVE  \A i \in 0 .. n : i \in T
<1> DEFINE U == {i \in Nat : i <= n => i \in T}
<1>1. 0 \in U
    OBVIOUS
<1>2. \A i \in U : i + 1 \in U
    OBVIOUS
<1>3. U = Nat
  <2> HIDE DEF U
  <2>1. U \in SUBSET Nat
      BY DEF U
  <2> QED BY <1>1, <1>2, <2>1, NatSetInduction
<1> QED BY <1>3

\* Nothing is left to be marked, and the tape is the one the motion began on
Fine(w) ==
    /\ Good(w.t) /\ ~w.t.d.weof /\ w.left \in Nat
    /\ w.t.gaps = Flushed(Now).gaps

Start(count) == [t |-> Flushed(Now), left |-> count, gave |-> "DATA"]

Onward(op, was, now) ==
    /\ Over(was) => now = was
    /\ ~Over(was) =>
          /\ now.t = OneStep(was.t, op).t /\ now.gave = OneStep(was.t, op).gave
          /\ Counts(now.gave, op) => now.left = was.left - 1
          /\ ~Counts(now.gave, op) => now.left = was.left

Run(g, op, count) ==
    /\ g[0] = Start(count) /\ Fine(g[0])
    /\ \A i \in 0 .. (Limit + count) - 1 :
          Onward(op, g[i], g[i + 1]) /\ Fine(g[i]) /\ Fine(g[i + 1])
    /\ Spaced(op, count) = g[Limit + count]

LEMMA OnwardIs ==
    ASSUME NEW op \in Motion, NEW was, Fine(was), mode = "RDWR" => was.t.gaps # <<>>
    PROVE  Onward(op, was, Turn(op, was)) /\ Fine(Turn(op, was))
<1> DEFINE now == Turn(op, was)
           m == Flushed(was.t)
<1>1. m = was.t
    BY DEF Flushed, Fine
<1>2. Good(was.t) /\ was.left \in Nat
    BY DEF Fine
<1>3. /\ Good(now.t) /\ now.left \in Nat
      /\ Over(was) => now = was
      /\ ~Over(was) =>
            /\ ~now.t.d.weof /\ now.t = OneStep(m, op).t /\ now.gave = OneStep(m, op).gave
            /\ now.t.gaps = m.gaps
            /\ Counts(OneStep(m, op).gave, op) => now.left = was.left - 1
            /\ ~Counts(OneStep(m, op).gave, op) => now.left = was.left
    BY <1>2, TurnIs
<1> HIDE DEF now, m
<1> QED BY <1>1, <1>3 DEF Onward, Fine, now

LEMMA RunIs ==
    ASSUME Good(Now), mode = "RDWR" => file # <<>>,
           NEW op \in Motion, NEW count \in Nat, count # 0
    PROVE  \E g : Run(g, op, count)
<1>1. PICK f : /\ f[0] = First(count)
               /\ \A i \in 1 .. Limit + count : f[i] = Turn(op, f[i - 1])
               /\ Spaced(op, count) = f[Limit + count]
    BY SpacedIs
<1> DEFINE n == Limit + count
           m == Flushed(Now)
           g == [i \in 0 .. n |-> IF i = 0 THEN Start(count) ELSE f[i]]
<1>2. n \in Nat /\ n # 0
    BY TapeAssumption
<1>3. Good(m) /\ ~m.d.weof /\ (m.gaps = <<>> <=> file = <<>>)
  <2>1. mode = "RDWR" => Now.gaps # <<>>
      BY DEF Now, At
  <2>2. Now.gaps = file
      BY DEF Now, At
  <2> QED BY <2>1, <2>2, FlushedIs
<1>4. Fine(Start(count))
    BY <1>3 DEF Fine, Start
<1>5. Turn(op, First(count)) = Turn(op, Start(count))
  <2>1. Flushed(m) = m
      BY <1>3 DEF Flushed
  <2>2. Flushed(First(count).t) = m /\ Flushed(Start(count).t) = m
      BY <2>1 DEF First, Start
  <2>3. First(count).left = count /\ First(count).gave = "DATA"
        /\ Start(count).left = count /\ Start(count).gave = "DATA"
      BY DEF First, Start
  <2> HIDE DEF m
  <2> QED BY <2>2, <2>3 DEF Turn
<1>6. g[0] = Start(count) /\ \A i \in 1 .. n : g[i] = f[i]
    BY <1>2
<1> HIDE DEF g
<1>7. \A i \in 0 .. n - 1 : g[i + 1] = Turn(op, g[i])
  <2> SUFFICES ASSUME NEW i \in 0 .. n - 1 PROVE g[i + 1] = Turn(op, g[i])
      OBVIOUS
  <2>1. i + 1 \in 1 .. n /\ (i + 1) - 1 = i /\ (i # 0 => i \in 1 .. n)
      BY <1>2
  <2>2. f[i + 1] = Turn(op, f[i])
      BY <1>1, <2>1
  <2> QED BY <1>1, <1>5, <1>6, <2>1, <2>2
<1>8. \A w : Fine(w) => Onward(op, w, Turn(op, w)) /\ Fine(Turn(op, w))
  <2> SUFFICES ASSUME NEW w, Fine(w)
               PROVE  Onward(op, w, Turn(op, w)) /\ Fine(Turn(op, w))
      OBVIOUS
  <2>1. mode = "RDWR" => w.t.gaps # <<>>
      BY <1>3 DEF Fine
  <2> QED BY <2>1, OnwardIs
<1> DEFINE T == {i \in 0 .. n : Fine(g[i])}
<1>9. \A i \in 0 .. n : i \in T
  <2>1. 0 \in T
      BY <1>2, <1>4, <1>6
  <2>2. \A i \in 0 .. n - 1 : i \in T => i + 1 \in T
      BY <1>2, <1>7, <1>8
  <2> HIDE DEF T, n
  <2> QED BY <1>2, <2>1, <2>2, UpTo
<1>10. \A i \in 0 .. n - 1 : Onward(op, g[i], g[i + 1]) /\ Fine(g[i]) /\ Fine(g[i + 1])
  <2> SUFFICES ASSUME NEW i \in 0 .. n - 1
               PROVE  Onward(op, g[i], g[i + 1]) /\ Fine(g[i]) /\ Fine(g[i + 1])
      OBVIOUS
  <2>1. i \in 0 .. n
      BY <1>2
  <2> QED BY <1>7, <1>8, <1>9, <2>1
<1>11. Spaced(op, count) = g[n]
  <2>1. n \in 1 .. n
      BY <1>2
  <2> QED BY <1>1, <1>6, <2>1
<1> QED BY <1>4, <1>6, <1>10, <1>11 DEF Run

\* A motion gets somewhere in every turn but the last, and the loop has turns enough
LEMMA RunEnds ==
    ASSUME Good(Now), mode = "RDWR" => file # <<>>, file # <<>>,
           NEW op \in Motion, NEW count \in Nat, count # 0, NEW g, Run(g, op, count)
    PROVE  Over(g[Limit + count])
<1> DEFINE n == Limit + count
           p == g[0].t.d.pos
           Q(i) == \/ Over(g[i])
                   \/ op \in {"FSR", "FSF"} /\ g[i].t.d.pos = p + i
                   \/ op \notin {"FSR", "FSF"} /\ g[i].t.d.pos = p - i
           T == {i \in 0 .. n : Q(i)}
<1>1. n \in Nat /\ n > Limit /\ Limit \in Nat
    BY TapeAssumption
<1>2. \A i \in 0 .. n : Fine(g[i]) /\ g[i].t.gaps # <<>> /\ g[i].t.d.pos \in 2 .. Limit + 2
  <2> SUFFICES ASSUME NEW i \in 0 .. n
               PROVE  Fine(g[i]) /\ g[i].t.gaps # <<>> /\ g[i].t.d.pos \in 2 .. Limit + 2
      OBVIOUS
  <2>1. Fine(g[i])
    <3>1. i = 0 \/ (i - 1 \in 0 .. n - 1 /\ (i - 1) + 1 = i)
        BY <1>1
    <3>2. \A k \in 0 .. n - 1 : Fine(g[k + 1])
        BY DEF Run
    <3>3. Fine(g[0])
        BY DEF Run
    <3> HIDE DEF n
    <3> QED BY <3>1, <3>2, <3>3
  <2>2. g[i].t.gaps # <<>>
    <3>1. Now.gaps = file
        BY DEF Now, At
    <3>2. Flushed(Now).gaps # <<>>
        BY <3>1, FlushedIs
    <3> QED BY <2>1, <3>2 DEF Fine
  <2>3. Good(g[i].t)
      BY <2>1 DEF Fine
  <2>4. g[i].t.d.pos \in 2 .. Len(g[i].t.gaps) /\ Len(g[i].t.gaps) \in 2 .. Limit + 2
      BY <2>2, <2>3, GoodIs
  <2>5. g[i].t.d.pos \in 2 .. Limit + 2
      BY <1>1, <2>4
  <2> QED BY <2>1, <2>2, <2>5
<1>3. 0 \in T
  <2>1. p + 0 = p /\ p - 0 = p /\ 0 \in 0 .. n
      BY <1>1, <1>2
  <2> QED BY <2>1
<1>4. ASSUME NEW i \in 0 .. n - 1, Q(i)
      PROVE  Q(i + 1)
  <2> DEFINE w == g[i]
             v == g[i + 1]
             s == OneStep(w.t, op)
  <2>1. Onward(op, w, v)
      BY DEF Run
  <2>2. i \in 0 .. n /\ i + 1 \in 0 .. n
      BY <1>1
  <2>3. CASE Over(w)
    <3> HIDE DEF w, v
    <3>1. v = w
        BY <2>1, <2>3 DEF Onward
    <3> QED BY <2>3, <3>1 DEF w, v
  <2>4. CASE ~Over(w)
    <3>1. v.t = s.t /\ v.gave = s.gave
        BY <2>1, <2>4 DEF Onward
    <3>2. Good(w.t) /\ w.t.gaps # <<>> /\ OverMark(op) \in BOOLEAN /\ w.t.d.pos \in Nat
          /\ p \in Nat
        BY <1>1, <1>2, <2>2 DEF Fine, OverMark
    <3>3. CASE op \in {"FSR", "FSF"}
      <4>1. s = Forward(w.t, OverMark(op))
          BY <3>3 DEF OneStep
      <4>2. s.gave = "none" \/ s.t.d.pos = w.t.d.pos + 1
        <5> DEFINE b == OverMark(op)
                   x == w.t
        <5>1. b \in BOOLEAN /\ Good(x) /\ x.gaps # <<>> /\ s = Forward(x, b)
            BY <3>2, <4>1
        <5> HIDE DEF b, x, s
        <5>2. s.gave = "none" \/ s.t.d.pos = x.d.pos + 1
            BY <5>1, ForwardIs DEF Steps
        <5> QED BY <5>2 DEF x
      <4>3. Over(v) \/ v.t.d.pos = w.t.d.pos + 1
          BY <3>1, <4>2 DEF Over
      <4>4. w.t.d.pos = p + i
          BY <1>4, <2>4, <3>3
      <4> HIDE DEF v, w, p
      <4>5. Over(v) \/ v.t.d.pos = p + (i + 1)
          BY <3>2, <4>3, <4>4
      <4> QED BY <3>3, <4>5 DEF v
    <3>4. CASE op \notin {"FSR", "FSF"}
      <4>1. s = Backward(w.t, OverMark(op))
          BY <3>4 DEF OneStep
      <4>2. s.gave = "none" \/ s.t.d.pos = w.t.d.pos + (-1)
        <5> DEFINE b == OverMark(op)
                   x == w.t
        <5>1. b \in BOOLEAN /\ Good(x) /\ x.gaps # <<>> /\ s = Backward(x, b)
            BY <3>2, <4>1
        <5> HIDE DEF b, x, s
        <5>2. s.gave = "none" \/ s.t.d.pos = x.d.pos + (-1)
            BY <5>1, BackwardIs DEF Steps
        <5> QED BY <5>2 DEF x
      <4>3. Over(v) \/ v.t.d.pos = w.t.d.pos + (-1)
          BY <3>1, <4>2 DEF Over
      <4>4. w.t.d.pos = p - i
          BY <1>4, <2>4, <3>4
      <4> HIDE DEF v, w, p
      <4>5. Over(v) \/ v.t.d.pos = p - (i + 1)
          BY <3>2, <4>3, <4>4
      <4> QED BY <3>4, <4>5 DEF v
    <3> QED BY <3>3, <3>4
  <2> QED BY <2>3, <2>4
<1>5. \A i \in 0 .. n : i \in T
  <2>1. \A i \in 0 .. n - 1 : i \in T => i + 1 \in T
    <3> SUFFICES ASSUME NEW i \in 0 .. n - 1, Q(i) PROVE i + 1 \in T
        OBVIOUS
    <3>1. i + 1 \in 0 .. n
        BY <1>1
    <3>2. Q(i + 1)
        BY <1>4
    <3> HIDE DEF Q
    <3> QED BY <3>1, <3>2
  <2> HIDE DEF T, n
  <2> QED BY <1>1, <1>3, <2>1, UpTo
<1>6. n \in 0 .. n
    BY <1>1
<1>7. Over(g[n]) \/ g[n].t.d.pos = p + n \/ g[n].t.d.pos = p - n
    BY <1>5, <1>6
<1>8. p \in 2 .. Limit + 2 /\ g[n].t.d.pos \in 2 .. Limit + 2
    BY <1>1, <1>2
<1>9. Over(g[n])
  <2> DEFINE x == g[n].t.d.pos
  <2>1. Over(g[n]) \/ x = p + n \/ x = p - n
      BY <1>7
  <2>2. x \in 2 .. Limit + 2
      BY <1>8
  <2> HIDE DEF x, n, p
  <2> QED BY <1>1, <1>8, <2>1, <2>2
<1> QED BY <1>9

\* What a motion leaves of the numbers of the tape's state
LEMMA SpacedRight ==
    ASSUME Good(Now), mode = "RDWR" => file # <<>>, file # <<>>, Right(Now),
           NEW op \in Motion, NEW count \in Nat, count # 0
    PROVE  LET s == Spaced(op, count)
           IN  /\ Good(s.t) /\ s.t.gaps # <<>>
               /\ s.t.gaps = Flushed(Now).gaps
               /\ Right(s.t) \/ RightBack(s.t, Flushed(Now).d.pos)
<1>1. PICK g : Run(g, op, count)
    BY RunIs
<1> DEFINE n == Limit + count
           m == Flushed(Now)
           forward == op \in {"FSR", "FSF"}
           P(i) == /\ Fine(g[i])
                   /\ forward => Right(g[i].t)
                   /\ ~forward => RightBack(g[i].t, m.d.pos)
           T == {i \in 0 .. n : P(i)}
<1>2. n \in Nat /\ n \in 0 .. n /\ 0 \in 0 .. n
    BY TapeAssumption
<1>3. Good(m) /\ m.gaps # <<>> /\ Right(m) /\ m.d.pos \in Nat
  <2>1. Now.gaps = file
      BY DEF Now, At
  <2>2. Good(m) /\ m.gaps # <<>> /\ Right(m)
      BY <2>1, FlushedIs, MarkRight
  <2> QED BY <2>2 DEF Good, DevType
<1>4. 0 \in T
  <2>1. g[0].t = m /\ Fine(g[0])
      BY <1>1 DEF Run, Start
  <2>2. RightBack(m, m.d.pos)
      BY <1>3 DEF Right, RightBack
  <2> HIDE DEF m, forward
  <2> QED BY <1>2, <1>3, <2>1, <2>2
<1>5. ASSUME NEW i \in 0 .. n - 1, P(i)
      PROVE  P(i + 1)
  <2> DEFINE w == g[i]
             v == g[i + 1]
             b == OverMark(op)
             x == w.t
  <2>1. Onward(op, w, v) /\ Fine(w) /\ Fine(v)
      BY <1>1 DEF Run
  <2>2. CASE Over(w)
    <3> HIDE DEF w, v, forward
    <3>1. v = w
        BY <2>1, <2>2 DEF Onward
    <3> QED BY <1>5, <3>1 DEF w, v
  <2>3. CASE ~Over(w)
    <3>1. v.t = OneStep(x, op).t
        BY <2>1, <2>3 DEF Onward
    <3>2. Good(x) /\ x.gaps # <<>> /\ b \in BOOLEAN
        BY <1>3, <2>1 DEF Fine, OverMark
    <3>3. CASE forward
      <4>1. OneStep(x, op) = Forward(x, b) /\ Right(x)
          BY <1>5, <3>3 DEF OneStep
      <4> HIDE DEF x, b, v, forward
      <4>2. Right(v.t)
          BY <3>1, <3>2, <4>1, ForwardRight
      <4> QED BY <2>1, <3>3, <4>2 DEF v
    <3>4. CASE ~forward
      <4>1. OneStep(x, op) = Backward(x, b) /\ RightBack(x, m.d.pos)
          BY <1>5, <3>4 DEF OneStep
      <4> DEFINE from == m.d.pos
      <4>2. from \in Nat
          BY <1>3
      <4> HIDE DEF x, b, v, forward, from
      <4>3. RightBack(v.t, from)
          BY <3>1, <3>2, <4>1, <4>2, BackwardRight DEF from
      <4> QED BY <2>1, <3>4, <4>3 DEF v, from
    <3> QED BY <3>3, <3>4
  <2> QED BY <2>2, <2>3
<1>6. \A i \in 0 .. n : i \in T
  <2>1. \A i \in 0 .. n - 1 : i \in T => i + 1 \in T
    <3> SUFFICES ASSUME NEW i \in 0 .. n - 1, P(i) PROVE i + 1 \in T
        OBVIOUS
    <3>1. i + 1 \in 0 .. n
        BY <1>2
    <3>2. P(i + 1)
        BY <1>5
    <3> HIDE DEF P
    <3> QED BY <3>1, <3>2
  <2> HIDE DEF T, n
  <2> QED BY <1>2, <1>4, <2>1, UpTo
<1>7. P(n) /\ Spaced(op, count) = g[n]
    BY <1>1, <1>2, <1>6 DEF Run
<1> HIDE DEF n, forward
<1> QED BY <1>3, <1>7 DEF Fine

LEMMA MarksRight ==
    ASSUME Good(Now), mode = "RDWR", file # <<>>, Right(Now),
           NEW n \in Nat \ {0}, NEW f, f[0] = Now,
           \A i \in 1 .. n : f[i] = WriteMark(f[i - 1])
    PROVE  Right(f[n])
<1> DEFINE P(t) == Good(t) /\ t.gaps # <<>> /\ Right(t)
           T == {i \in 0 .. n : P(f[i])}
<1>1. P(f[0])
    BY DEF Now, At
<1>2. \A t : P(t) => P(WriteMark(t))
    BY MarkIs, MarkRight
<1> HIDE DEF P
<1>3. \A i \in 0 .. n - 1 : i \in T => i + 1 \in T
  <2> SUFFICES ASSUME NEW i \in 0 .. n - 1, P(f[i]) PROVE i + 1 \in 0 .. n /\ P(f[i + 1])
      OBVIOUS
  <2>1. i + 1 \in 1 .. n /\ (i + 1) - 1 = i /\ i + 1 \in 0 .. n
      OBVIOUS
  <2> QED BY <1>2, <2>1
<1>4. \A i \in 0 .. n : i \in T
  <2>1. 0 \in T
      BY <1>1
  <2> HIDE DEF T
  <2> QED BY <1>3, <2>1, UpTo
<1> QED BY <1>4 DEF P

LEMMA ExactIs == Exact <=> Right(Now)
BY DEF Exact, Right, Now, At, TrueFile, TrueBlock, FilesBefore, BlocksBefore

LEMMA ExactNext ==
    ASSUME NEW t, file' = t.gaps, dev' = t.d, Right(t)
    PROVE  Exact'
BY DEF Exact, Right, TrueFile, TrueBlock, FilesBefore, BlocksBefore

\* Back over records and marks the numbers stay right where no mark was passed and
\* at the beginning of the tape
LEMMA BackExact ==
    ASSUME TapeInv, mode # "CLOSED", file # <<>>,
           NEW t, Good(t), t.gaps # <<>>, RightBack(t, Flushed(Now).d.pos),
           file' = t.gaps, dev' = t.d, dev'.pos = 2 \/ PassedBack = {}
    PROVE  Exact'
<1> DEFINE from == Flushed(Now).d.pos
           p == t.d.pos
<1>1. t.d.fnum = FilesBefore(t.gaps, p)
    BY DEF RightBack
<1>2. t.d.block = BlocksBefore(t.gaps, p)
        \/ (t.d.block = 0 /\ \E i \in p .. from - 1 : t.gaps[i].type = "FILE")
    BY DEF RightBack
<1>3. CASE t.d.block = BlocksBefore(t.gaps, p)
    BY <1>1, <1>3, ExactNext DEF Right
<1>4. CASE p = 2 /\ t.d.block = 0
  <2>1. t.gaps[1].type = "BOT"
    <3>1. 1 \in 1 .. Len(t.gaps)
        BY GoodIs
    <3> QED BY <3>1 DEF Good, Sound, Chain
  <2>2. BlocksBefore(t.gaps, 2) = 0
      BY <2>1, StartBefore
  <2> QED BY <1>1, <1>4, <2>2, ExactNext DEF Right
<1>5. CASE PassedBack = {} /\ \E i \in p .. from - 1 : t.gaps[i].type = "FILE"
  <2>1. PICK i \in p .. from - 1 : t.gaps[i].type = "FILE"
      BY <1>5
  <2>2. dev \in DevType /\ p \in Nat
      BY GoodIs DEF TapeInv, DevType
  <2>3. from \in Nat /\ (from = dev.pos \/ (dev.weof /\ from = dev.pos + 1))
    <3> DEFINE m == Flushed(Now)
    <3>1. Good(Now) /\ (mode = "RDWR" => Now.gaps # <<>>) /\ Now.d = dev /\ Now.gaps = file
        BY OpenIs
    <3>2. /\ \/ dev.weof /\ MarkFits(Now) /\ m = Marked(Now)
             \/ m.d = [dev EXCEPT !.weof = FALSE]
          /\ m.d \in DevType
        BY <3>1, FlushedIs DEF Good
    <3>3. m = Marked(Now) /\ MarkFits(Now) => m.d.pos = dev.pos + 1
        BY <3>1, MarkedIs
    <3>4. m.d = [dev EXCEPT !.weof = FALSE] => m.d.pos = dev.pos
        BY <2>2 DEF DevType
    <3> HIDE DEF m
    <3>5. m.d.pos \in Nat
        BY <3>2 DEF DevType
    <3> QED BY <3>2, <3>3, <3>4, <3>5 DEF m
  <2> HIDE DEF from
  <2> DEFINE last == IF dev.weof THEN dev.pos ELSE dev.pos - 1
  <2>4. dev.pos \in Nat
      BY <2>2 DEF DevType
  <2>5. i \in p .. last
      BY <2>1, <2>2, <2>3, <2>4
  <2>6. file'[i].type = "FILE" /\ dev'.pos = p
      BY <2>1
  <2>7. i \in PassedBack
      BY <2>5, <2>6 DEF PassedBack
  <2> QED BY <1>5, <2>7
<1> QED BY <1>2, <1>3, <1>4, <1>5

LEMMA SpaceExact ==
    ASSUME TapeInv, Space, mode # "CLOSED", file # <<>>, Exact,
           dev'.pos = 2 \/ PassedBack = {}
    PROVE  Exact'
<1>1. PICK op \in Motion, n \in 1 .. CountMax : Becomes(Spaced(op, n).t)
    BY DEF Space
<1> DEFINE t == Spaced(op, n).t
<1>2. n \in Nat /\ n # 0
    OBVIOUS
<1>3. Good(Now) /\ Right(Now)
    BY OpenIs, ExactIs
<1>4. Good(t) /\ t.gaps # <<>> /\ (Right(t) \/ RightBack(t, Flushed(Now).d.pos))
    BY <1>2, <1>3, SpacedRight
<1>5. file' = t.gaps /\ dev' = t.d
    BY <1>1 DEF Becomes
<1> HIDE DEF t
<1> QED BY <1>4, <1>5, ExactNext, BackExact

LEMMA WriteExact ==
    ASSUME TapeInv, Write, mode # "CLOSED", file # <<>>, Exact
    PROVE  Exact'
<1> DEFINE p == dev.pos
<1>1. /\ Good(Now) /\ Right(Now) /\ Now.gaps = file /\ Now.d = dev
      /\ file \in Seq(GapKind) /\ p \in 2 .. Len(file) /\ dev \in DevType
  <2>1. Good(Now) /\ Right(Now) /\ Now.gaps = file /\ Now.d = dev
      BY OpenIs, ExactIs
  <2> QED BY <2>1, GoodIs
<1>2. CASE file' = file /\ dev' \in {dev, [dev EXCEPT !.leom = TRUE]}
  <2> DEFINE t == At(file, dev')
  <2>1. dev'.pos = dev.pos /\ dev'.fnum = dev.fnum /\ dev'.block = dev.block
      BY <1>1, <1>2 DEF DevType
  <2>2. Right(t) /\ t.gaps = file' /\ t.d = dev'
      BY <1>1, <1>2, <2>1 DEF Right, At
  <2> HIDE DEF t
  <2> QED BY <2>2, ExactNext
<1>3. ASSUME NEW size \in Sizes, Becomes(Written(Now, size)) \/ Becomes(Cut(Now))
      PROVE  Exact'
  <2> DEFINE gap == Gap("DATA", file[p].prev, size)
             new == <<gap, Gap("EOT", size, 0)>>
             cut == <<Gap("EOT", file[p].prev, 0)>>
  <2>1. new \in Seq(GapKind) /\ Len(new) = 2 /\ new[1].type = "DATA"
        /\ cut \in Seq(GapKind)
    <3>1. file[p] \in GapKind
        BY <1>1, GoodIs
    <3> QED BY <3>1 DEF Gap, GapKind
  <2>2. p \in Nat \ {0}
      BY <1>1
  <2>3. CASE Becomes(Written(Now, size))
    <3> DEFINE g == SubSeq(file, 1, p - 1) \o new
               e == [dev EXCEPT !.pos = @ + 1, !.block = @ + 1, !.weof = TRUE]
    <3>1. file' = g /\ dev' = e
        BY <1>1, <2>3 DEF Becomes, Written, At, Before, Here
    <3> HIDE DEF new, p
    <3>2. (\A i \in 1 .. p - 1 : g[i] = file[i])
          /\ (\A i \in 1 .. Len(new) : g[p - 1 + i] = new[i])
        BY <1>1, <2>1, PutIs
    <3>3. p - 1 + 1 = p /\ 1 \in 1 .. 2
        BY <2>2
    <3> HIDE DEF g
    <3>4. g[p].type = "DATA"
        BY <2>1, <3>2, <3>3
    <3>5. FilesBefore(g, p + 1) = FilesBefore(file, p)
          /\ BlocksBefore(g, p + 1) = BlocksBefore(file, p) + 1
        BY <2>2, <3>2, <3>4, NextBefore, SameBefore
    <3>6. e.pos = p + 1 /\ e.fnum = dev.fnum /\ e.block = dev.block + 1
      <4> DEFINE x == dev.pos + 1
                 y == dev.block + 1
      <4>1. e = [dev EXCEPT !.pos = x, !.block = y, !.weof = TRUE]
          OBVIOUS
      <4> HIDE DEF e, x, y
      <4>2. e.pos = x /\ e.fnum = dev.fnum /\ e.block = y
          BY <1>1, <4>1 DEF DevType
      <4> QED BY <4>2 DEF x, y, p
    <3> HIDE DEF e
    <3>7. Right(At(g, e)) /\ At(g, e).gaps = g /\ At(g, e).d = e
        BY <1>1, <3>5, <3>6 DEF Right, At, p
    <3> QED BY <3>1, <3>7, ExactNext
  <2>4. CASE Becomes(Cut(Now))
    <3> DEFINE g == SubSeq(file, 1, p - 1) \o cut
               e == [dev EXCEPT !.weof = TRUE]
    <3>1. file' = g /\ dev' = e
        BY <1>1, <2>4 DEF Becomes, Cut, At, Before, Here
    <3> HIDE DEF cut, p
    <3>2. \A i \in 1 .. p - 1 : g[i] = file[i]
        BY <1>1, <2>1, PutIs
    <3> HIDE DEF g
    <3>3. FilesBefore(g, p) = FilesBefore(file, p) /\ BlocksBefore(g, p) = BlocksBefore(file, p)
        BY <2>2, <3>2, SameBefore
    <3>4. e.pos = dev.pos /\ e.fnum = dev.fnum /\ e.block = dev.block
        BY <1>1 DEF DevType
    <3> HIDE DEF e
    <3>5. Right(At(g, e)) /\ At(g, e).gaps = g /\ At(g, e).d = e
        BY <1>1, <3>3, <3>4 DEF Right, At, p
    <3> QED BY <3>1, <3>5, ExactNext
  <2> QED BY <1>3, <2>3, <2>4
<1>4. \/ file' = file /\ dev' \in {dev, [dev EXCEPT !.leom = TRUE]}
      \/ \E size \in Sizes : Becomes(Written(Now, size)) \/ Becomes(Cut(Now))
    BY DEF Write, Refused
<1> QED BY <1>2, <1>3, <1>4

LEMMA ReadExact ==
    ASSUME TapeInv, Read, mode # "CLOSED", file # <<>>, Exact
    PROVE  Exact'
<1>1. Good(Now) /\ Right(Now) /\ Now.gaps = file /\ Now.d = dev /\ dev \in DevType
      /\ dev.pos \in Nat \ {0}
  <2>1. Good(Now) /\ Right(Now) /\ Now.gaps = file /\ Now.d = dev
      BY OpenIs, ExactIs
  <2> QED BY <2>1, GoodIs
<1>2. CASE UNCHANGED <<file, dev>>
    BY <1>1, <1>2, ExactNext
<1>3. CASE /\ Here(Now).type = "DATA" /\ file' = file
           /\ dev' = [dev EXCEPT !.pos = @ + 1, !.block = @ + 1]
  <2> DEFINE p == dev.pos
             y == dev.block + 1
  <2>1. file[p].type = "DATA"
      BY <1>1, <1>3 DEF Here
  <2>2. FilesBefore(file, p + 1) = FilesBefore(file, p)
        /\ BlocksBefore(file, p + 1) = BlocksBefore(file, p) + 1
    <3> HIDE DEF p
    <3> QED BY <1>1, <2>1, NextBefore DEF p
  <2>3. dev'.pos = p + 1 /\ dev'.fnum = dev.fnum /\ dev'.block = y
    <3> DEFINE x == p + 1
    <3>1. dev' = [dev EXCEPT !.pos = x, !.block = y]
        BY <1>3
    <3> HIDE DEF x, y
    <3>2. dev'.pos = x /\ dev'.fnum = dev.fnum /\ dev'.block = y
        BY <1>1, <3>1 DEF DevType
    <3> QED BY <3>2 DEF x
  <2>4. Right(At(file, dev')) /\ At(file, dev').gaps = file /\ At(file, dev').d = dev'
      BY <1>1, <2>2, <2>3 DEF Right, At
  <2> QED BY <1>3, <2>4, ExactNext
<1>4. UNCHANGED <<file, dev>>
      \/ /\ Here(Now).type = "DATA" /\ file' = file
         /\ dev' = [dev EXCEPT !.pos = @ + 1, !.block = @ + 1]
    BY DEF Read, Refused
<1> QED BY <1>2, <1>3, <1>4

LEMMA RewindExact ==
    ASSUME TapeInv, Rewind \/ Offline, file # <<>>, Exact
    PROVE  Exact'
<1> DEFINE m == Flushed(Now)
<1>1. mode # "CLOSED"
    BY DEF Rewind, Offline
<1>2. Good(Now) /\ Right(Now) /\ Now.gaps = file
    BY <1>1, OpenIs, ExactIs
<1>3. Good(m) /\ m.gaps # <<>> /\ Right(m)
    BY <1>2, FlushedIs, MarkRight
<1>4. CASE Offline
    BY <1>3, <1>4, ExactNext DEF Offline, Becomes
<1>5. CASE Rewind
  <2> DEFINE d == [m.d EXCEPT !.pos = 2, !.fnum = 0, !.block = 0]
  <2>1. file' = m.gaps /\ dev' = d
      BY <1>5 DEF Rewind, Becomes, At
  <2> HIDE DEF m
  <2>2. d.pos = 2 /\ d.fnum = 0 /\ d.block = 0
      BY <1>3 DEF Good, DevType
  <2>3. m.gaps[1].type = "BOT"
    <3>1. 1 \in 1 .. Len(m.gaps)
        BY <1>3, GoodIs
    <3> QED BY <1>3, <3>1 DEF Good, Sound, Chain
  <2>4. FilesBefore(m.gaps, 2) = 0 /\ BlocksBefore(m.gaps, 2) = 0
      BY <2>3, StartBefore
  <2> HIDE DEF d
  <2>5. Right(At(m.gaps, d)) /\ At(m.gaps, d).gaps = m.gaps /\ At(m.gaps, d).d = d
      BY <2>2, <2>4 DEF Right, At
  <2> QED BY <2>1, <2>5, ExactNext
<1> QED BY <1>4, <1>5

LEMMA WriteMarksExact ==
    ASSUME TapeInv, WriteMarks, mode # "CLOSED", file # <<>>, Exact
    PROVE  Exact'
<1>1. Good(Now) /\ Right(Now) /\ Now.gaps = file /\ Now.d = dev
    BY OpenIs, ExactIs
<1>2. CASE mode # "RDWR"
  <2>1. UNCHANGED <<file, dev>>
      BY <1>2 DEF WriteMarks, Refused
  <2> QED BY <1>1, <2>1, ExactNext
<1>3. CASE mode = "RDWR"
  <2>1. PICK n \in 1 .. CountMax : \E f : MarksWritten(f, n)
      BY <1>3, MarksAre
  <2>2. PICK f : MarksWritten(f, n)
      BY <2>1
  <2>3. n \in Nat \ {0} /\ f[0] = Now /\ \A i \in 1 .. n : f[i] = WriteMark(f[i - 1])
      BY <2>2 DEF MarksWritten
  <2>4. Right(f[n])
      BY <1>1, <1>3, <2>3, MarksRight
  <2>5. file' = f[n].gaps /\ dev' = f[n].d
      BY <2>2 DEF MarksWritten, Becomes
  <2> QED BY <2>4, <2>5, ExactNext
<1> QED BY <1>2, <1>3

\* file_num and blockno stay right, once they are, over whatever the drive is asked,
\* but for the blocks of a file that was entered back over its mark
\* (ndma_tape_simulator.c: simu_forw_one(), simu_back_one()).
THEOREM NumbersExact == Spec => NumbersStayExact
<1>1. ASSUME TapeInv, [Next]_vars,
             OnTape, OnTape', Exact, dev'.pos = 2 \/ PassedBack = {}
      PROVE  Exact'
  <2>1. mode # "CLOSED" /\ mode' # "CLOSED" /\ file # <<>>
      BY <1>1 DEF OnTape
  <2>2. Right(Now) /\ Now.gaps = file /\ Now.d = dev
      BY <1>1, <2>1, OpenIs, ExactIs
  <2>3. CASE UNCHANGED <<file, dev>>
      BY <2>2, <2>3, ExactNext
  <2>4. CASE Open
    <3>1. UNCHANGED <<file, dev>>
        BY <2>1, <2>4 DEF Open, Refused
    <3> QED BY <2>3, <3>1
  <2>5. CASE Close \/ Vanish \/ Unlock
      BY <2>1, <2>5 DEF Close, Vanish, Unlock
  <2>6. CASE Space
      BY <1>1, <2>1, <2>6, SpaceExact
  <2>7. CASE Rewind \/ Offline
      BY <1>1, <2>1, <2>7, RewindExact
  <2>8. CASE WriteMarks
      BY <1>1, <2>1, <2>8, WriteMarksExact
  <2>9. CASE Write
      BY <1>1, <2>1, <2>9, WriteExact
  <2>10. CASE Read
      BY <1>1, <2>1, <2>10, ReadExact
  <2>11. CASE UNCHANGED vars
      BY <2>3, <2>11 DEF vars
  <2> QED BY <1>1, <2>4, <2>5, <2>6, <2>7, <2>8, <2>9, <2>10, <2>11 DEF Next
<1>2. TapeInv /\ [Next]_vars
        => [OnTape /\ OnTape' /\ Exact /\ (dev'.pos = 2 \/ PassedBack = {}) => Exact']_vars
    BY <1>1
<1> QED BY <1>2, TapeInvariant, PTL DEF Spec, NumbersStayExact

-----------------------------------------------------------------------------
(* The medium: the records and marks of a sound tape.                       *)

Recs(gaps) ==
    IF gaps = <<>> THEN <<>> ELSE [i \in 1 .. Len(gaps) - 2 |-> gaps[i + 1].size]

Med(t) == [recs |-> Recs(t.gaps), head |-> HeadOf(t.d.pos)]

LEMMA RecsIs ==
    ASSUME NEW gaps, Sound(gaps), gaps # <<>>
    PROVE  /\ Recs(gaps) \in Seq(Nat) /\ Len(Recs(gaps)) = Len(gaps) - 2
           /\ Len(gaps) - 2 \in Nat
           /\ \A i \in 1 .. Len(gaps) - 2 :
                 /\ Recs(gaps)[i] = gaps[i + 1].size
                 /\ Recs(gaps)[i] # 0 <=> gaps[i + 1].type = "DATA"
                 /\ Recs(gaps)[i] = 0 <=> gaps[i + 1].type = "FILE"
<1> DEFINE n == Len(gaps) - 2
           r == [i \in 1 .. n |-> gaps[i + 1].size]
<1>1. gaps \in Seq(GapKind) /\ Len(gaps) \in Nat /\ Chain(gaps) /\ n \in Nat
    BY DEF Sound
<1>2. Recs(gaps) = r
    BY DEF Recs
<1>3. ASSUME NEW i \in 1 .. n
      PROVE  /\ gaps[i + 1].size \in Nat
             /\ gaps[i + 1].size # 0 <=> gaps[i + 1].type = "DATA"
             /\ gaps[i + 1].size = 0 <=> gaps[i + 1].type = "FILE"
  <2> DEFINE k == i + 1
  <2>1. k \in 1 .. Len(gaps) /\ k # 1 /\ k # Len(gaps)
      BY <1>1
  <2> HIDE DEF k
  <2>2. gaps[k] \in GapKind
      BY <1>1, <2>1
  <2>3. gaps[k].size \in Sizes \cup {0} /\ gaps[k].type \in {"BOT", "DATA", "FILE", "EOT"}
      BY <2>2 DEF GapKind
  <2>4. gaps[k].size \in Nat
      BY <2>3, SizeIs
  <2>5. gaps[k].type # "BOT" /\ gaps[k].type # "EOT"
        /\ (gaps[k].type = "DATA" <=> gaps[k].size # 0)
      BY <1>1, <2>1 DEF Chain
  <2> QED BY <2>3, <2>4, <2>5 DEF k
<1> HIDE DEF n
<1>4. r \in Seq(Nat) /\ Len(r) = n
    BY <1>1, <1>3
<1>5. \A i \in 1 .. n : r[i] = gaps[i + 1].size
    OBVIOUS
<1> HIDE DEF r
<1> QED BY <1>1, <1>2, <1>3, <1>4, <1>5 DEF n

LEMMA HeadIs ==
    ASSUME NEW p \in Nat
    PROVE  (p >= 2 => HeadOf(p) = p - 2 /\ HeadOf(p) \in Nat) /\ (p <= 2 => HeadOf(p) = 0)
BY DEF HeadOf

\* The tape g is `gaps` up to the head at p, and `new` behind that
Put(gaps, p, g, new) ==
    /\ Sound(gaps) /\ p \in 2 .. Len(gaps) /\ Sound(g)
    /\ new \in Seq(Nat) /\ Len(g) = p + Len(new)
    /\ \A i \in 1 .. p - 1 : g[i] = gaps[i]
    /\ \A i \in 1 .. Len(new) : g[p - 1 + i].size = new[i]

Onto(gaps, p, new) == SubSeq(Recs(gaps), 1, HeadOf(p)) \o new

LEMMA HeadMoves ==
    ASSUME NEW p \in Nat, p >= 2, NEW k \in Nat
    PROVE  HeadOf(p + k) = HeadOf(p) + k
<1> DEFINE q == p + k
<1>1. q \in Nat /\ q >= 2 /\ q - 2 = (p - 2) + k
  OBVIOUS
<1> HIDE DEF q
<1>2. HeadOf(q) = q - 2 /\ HeadOf(p) = p - 2
  BY <1>1, HeadIs
<1> QED BY <1>1, <1>2 DEF q

\* What is put on a tape behind the head, as records and marks
LEMMA PutRecs ==
    ASSUME NEW gaps, NEW p, NEW g, NEW new, Put(gaps, p, g, new)
    PROVE  Recs(g) = Onto(gaps, p, new)
<1>0. /\ Sound(gaps) /\ p \in 2 .. Len(gaps) /\ Sound(g)
      /\ new \in Seq(Nat) /\ Len(g) = p + Len(new)
      /\ \A i \in 1 .. p - 1 : g[i] = gaps[i]
      /\ \A i \in 1 .. Len(new) : g[p - 1 + i].size = new[i]
    BY DEF Put
<1> USE <1>0
<1> DEFINE n == p - 2
           kept == SubSeq(Recs(gaps), 1, n)
           k == Len(new)
<1>1. p \in Nat /\ n \in Nat /\ n <= Len(gaps) - 2 /\ Len(gaps) \in Nat /\ k \in Nat
      /\ HeadOf(p) = n /\ gaps # <<>> /\ p + k >= 2
  <2>1. Len(gaps) \in Nat /\ k \in Nat
      BY DEF Sound
  <2>2. p \in Nat /\ p >= 2 /\ n \in Nat /\ n <= Len(gaps) - 2 /\ p + k \in Nat /\ p + k >= 2
        /\ (p + k) - 2 = n + k
      BY <2>1
  <2>3. HeadOf(p) = n
      BY <2>2, HeadIs
  <2> QED BY <2>1, <2>2, <2>3
<1>2. g # <<>>
  <2>1. Len(g) # 0
      BY <1>1
  <2> QED BY <2>1
<1>3. /\ Recs(gaps) \in Seq(Nat) /\ Len(Recs(gaps)) = Len(gaps) - 2
      /\ \A i \in 1 .. Len(gaps) - 2 : Recs(gaps)[i] = gaps[i + 1].size
    BY <1>1, RecsIs
<1>4. /\ Recs(g) \in Seq(Nat) /\ Len(Recs(g)) = Len(g) - 2
      /\ \A i \in 1 .. Len(g) - 2 : Recs(g)[i] = g[i + 1].size
    BY <1>2, RecsIs
<1>5. kept \in Seq(Nat) /\ Len(kept) = n /\ \A i \in 1 .. n : kept[i] = Recs(gaps)[i]
  <2> DEFINE r == Recs(gaps)
  <2>1. r \in Seq(Nat) /\ n \in Nat /\ n <= Len(r)
      BY <1>1, <1>3
  <2> HIDE DEF r, n
  <2>2. \A i \in 1 .. n : r[i] \in Nat
      BY <2>1
  <2>3. SubSeq(r, 1, n) \in Seq(Nat) /\ Len(SubSeq(r, 1, n)) = n
        /\ \A i \in 1 .. n : SubSeq(r, 1, n)[i] = r[i]
      BY <2>1, <2>2, SubSeqProperties
  <2> QED BY <2>3 DEF r
<1> HIDE DEF kept
<1>6. /\ kept \o new \in Seq(Nat) /\ Len(kept \o new) = n + k
      /\ \A i \in 1 .. n + k : (kept \o new)[i] = IF i <= n THEN kept[i] ELSE new[i - n]
  <2>1. /\ kept \o new \in Seq(Nat) /\ Len(kept \o new) = Len(kept) + Len(new)
        /\ \A i \in 1 .. Len(kept) + Len(new) :
              (kept \o new)[i] = IF i <= Len(kept) THEN kept[i] ELSE new[i - Len(kept)]
      BY <1>5, ConcatProperties
  <2> HIDE DEF n
  <2> QED BY <1>5, <2>1
<1>7. Len(g) - 2 = n + k
    BY <1>1
<1>8. ASSUME NEW i \in 1 .. n + k
      PROVE  Recs(g)[i] = (kept \o new)[i]
  <2>1. Recs(g)[i] = g[i + 1].size
      BY <1>4, <1>7
  <2>2. CASE i <= n
    <3>1. i + 1 \in 1 .. p - 1 /\ i \in 1 .. n /\ i \in 1 .. Len(gaps) - 2
        BY <1>1, <2>2
    <3>2. g[i + 1] = gaps[i + 1]
        BY <3>1
    <3> QED BY <1>3, <1>5, <1>6, <2>1, <2>2, <3>1, <3>2
  <2>3. CASE ~ (i <= n)
    <3>1. i - n \in 1 .. Len(new) /\ p - 1 + (i - n) = i + 1
        BY <1>1, <2>3
    <3>2. g[i + 1].size = new[i - n]
        BY <3>1
    <3> QED BY <1>6, <2>1, <2>3, <3>2
  <2> QED BY <2>2, <2>3
<1>9. Recs(g) = kept \o new
  <2> DEFINE a == Recs(g)
             b == kept \o new
  <2>1. a \in Seq(Nat) /\ b \in Seq(Nat) /\ Len(a) = n + k /\ Len(b) = n + k
        /\ \A i \in 1 .. n + k : a[i] = b[i]
      BY <1>4, <1>6, <1>7, <1>8
  <2> HIDE DEF a, b
  <2>2. a = b
      BY <2>1, SeqEqual
  <2> QED BY <2>2 DEF a, b
<1>10. Recs(g) = SubSeq(Recs(gaps), 1, HeadOf(p)) \o new
    BY <1>1, <1>9 DEF kept
<1> QED BY <1>10 DEF Onto

-----------------------------------------------------------------------------
(* Where the requests of TapeMedium lead: there is one such place.          *)

LEMMA ForwardRecordsIs ==
    ASSUME NEW m, m.head \in Nat, Len(m.recs) \in Nat, NEW n \in Nat,
           NEW h \in m.head .. Len(m.recs), h <= m.head + n,
           \A i \in m.head + 1 .. h : m.recs[i] # 0,
           h = m.head + n \/ h = Len(m.recs) \/ m.recs[h + 1] = 0
    PROVE  Medium!ForwardRecords(m, n) = h
<1> DEFINE a == m.head
           z == Len(m.recs)
           R(x) == /\ {i \in a + 1 .. x : m.recs[i] = 0} = {} /\ x <= a + n
                   /\ \/ x = a + n \/ x = z \/ m.recs[x + 1] = 0
<1>1. Medium!ForwardRecords(m, n) = CHOOSE x \in a .. z : R(x)
    BY Zenon DEF Medium!ForwardRecords, Medium!Marks, Medium!Mark
<1>2. R(h)
    OBVIOUS
<1>3. ASSUME NEW x \in a .. z, R(x), NEW y \in a .. z, R(y), x < y
      PROVE  FALSE
  <2>1. x # a + n /\ x # z /\ x + 1 \in a + 1 .. y
      BY <1>3
  <2>2. m.recs[x + 1] # 0
      BY <1>3, <2>1
  <2> QED BY <1>3, <2>1, <2>2
<1>4. \A x \in a .. z : R(x) => x = h
  <2> SUFFICES ASSUME NEW x \in a .. z, R(x) PROVE x = h
      OBVIOUS
  <2>1. ~ (x < h) /\ ~ (h < x)
    <3> HIDE DEF R
    <3> QED BY <1>2, <1>3
  <2> QED BY <2>1
<1>5. h \in a .. z
    OBVIOUS
<1> HIDE DEF R, a, z
<1> QED BY <1>1, <1>2, <1>4, <1>5

LEMMA BackRecordsIs ==
    ASSUME NEW m, m.head \in Nat, NEW n \in Nat,
           NEW h \in 0 .. m.head, h >= m.head - n,
           \A i \in h + 1 .. m.head : m.recs[i] # 0,
           h = m.head - n \/ h = 0 \/ m.recs[h] = 0
    PROVE  Medium!BackRecords(m, n) = h
<1> DEFINE a == m.head
           R(x) == /\ {i \in x + 1 .. a : m.recs[i] = 0} = {} /\ x >= a - n
                   /\ \/ x = a - n \/ x = 0 \/ m.recs[x] = 0
<1>1. Medium!BackRecords(m, n) = CHOOSE x \in 0 .. a : R(x)
    BY Zenon DEF Medium!BackRecords, Medium!Marks, Medium!Mark
<1>2. R(h)
    OBVIOUS
<1>3. ASSUME NEW x \in 0 .. a, R(x), NEW y \in 0 .. a, R(y), x < y
      PROVE  FALSE
  <2>1. y # a - n /\ y # 0 /\ y \in x + 1 .. a
      BY <1>3
  <2>2. m.recs[y] # 0
      BY <1>3, <2>1
  <2> QED BY <1>3, <2>1, <2>2
<1>4. \A x \in 0 .. a : R(x) => x = h
  <2> SUFFICES ASSUME NEW x \in 0 .. a, R(x) PROVE x = h
      OBVIOUS
  <2>1. ~ (x < h) /\ ~ (h < x)
    <3> HIDE DEF R
    <3> QED BY <1>2, <1>3
  <2> QED BY <2>1
<1>5. h \in 0 .. a
    OBVIOUS
<1> HIDE DEF R, a
<1> QED BY <1>1, <1>2, <1>4, <1>5

\* A mark more among those passed
MarksIn(r, from, to) == {i \in from .. to : r[i] = 0}

LEMMA MarksInIs ==
    ASSUME NEW r, NEW a \in Int, NEW b \in Int
    PROVE  IsFiniteSet(MarksIn(r, a, b)) /\ Cardinality(MarksIn(r, a, b)) \in Nat
<1>1. IsFiniteSet(a .. b)
    BY FS_Interval
<1>2. MarksIn(r, a, b) \subseteq a .. b
    BY DEF MarksIn
<1>3. IsFiniteSet(MarksIn(r, a, b))
    BY <1>1, <1>2, FS_Subset
<1> QED BY <1>3, FS_CardinalityType

\* A range within another one with a mark outside has fewer marks
LEMMA FewerMarks ==
    ASSUME NEW r, NEW a \in Int, NEW b \in Int, NEW c \in Int, NEW d \in Int,
           NEW i \in c .. d, r[i] = 0, i \notin a .. b, c <= a, b <= d
    PROVE  Cardinality(MarksIn(r, a, b)) < Cardinality(MarksIn(r, c, d))
<1> DEFINE A == MarksIn(r, a, b)
           B == MarksIn(r, c, d)
<1>1. A \cup {i} \subseteq B /\ i \notin A
    BY DEF MarksIn
<1>2. IsFiniteSet(A) /\ IsFiniteSet(B) /\ Cardinality(A) \in Nat /\ Cardinality(B) \in Nat
    BY MarksInIs
<1> HIDE DEF A, B
<1>3. Cardinality(A \cup {i}) = Cardinality(A) + 1
    BY <1>1, <1>2, OneMore
<1>4. Cardinality(A \cup {i}) <= Cardinality(B)
    BY <1>1, <1>2, FS_Subset
<1>5. Cardinality(A) < Cardinality(B)
    BY <1>2, <1>3, <1>4
<1> QED BY <1>5 DEF A, B

LEMMA ForwardFilesIs ==
    ASSUME NEW m, m.head \in Nat, Len(m.recs) \in Nat, NEW n \in Nat,
           NEW h \in m.head .. Len(m.recs),
           \/ Cardinality(MarksIn(m.recs, m.head + 1, h)) = n /\ m.recs[h] = 0
           \/ Cardinality(MarksIn(m.recs, m.head + 1, h)) < n /\ h = Len(m.recs)
    PROVE  Medium!ForwardFiles(m, n) = h
<1> DEFINE a == m.head
           z == Len(m.recs)
           C(x) == Cardinality(MarksIn(m.recs, a + 1, x))
           R(x) == (C(x) = n /\ m.recs[x] = 0) \/ (C(x) < n /\ x = z)
<1>1. Medium!ForwardFiles(m, n) = CHOOSE x \in a .. z : R(x)
    BY Zenon DEF Medium!ForwardFiles, Medium!Marks, Medium!Mark, MarksIn,
                 Medium!Cardinality, Cardinality
<1>2. R(h)
    OBVIOUS
<1>3. \A x \in a .. z : C(x) \in Nat
    BY MarksInIs
<1>4. \A x, y \in a .. z : x < y => C(x) <= C(y) /\ (m.recs[y] = 0 => C(x) < C(y))
  <2> SUFFICES ASSUME NEW x \in a .. z, NEW y \in a .. z, x < y
               PROVE  C(x) <= C(y) /\ (m.recs[y] = 0 => C(x) < C(y))
      OBVIOUS
  <2>1. C(x) <= C(y)
    <3>1. MarksIn(m.recs, a + 1, x) \subseteq MarksIn(m.recs, a + 1, y)
        BY DEF MarksIn
    <3>2. IsFiniteSet(MarksIn(m.recs, a + 1, y))
        BY MarksInIs
    <3> QED BY <3>1, <3>2, FS_Subset
  <2>2. ASSUME m.recs[y] = 0 PROVE C(x) < C(y)
    <3>1. y \in a + 1 .. y /\ y \notin a + 1 .. x /\ a + 1 <= a + 1 /\ x <= y
          /\ x \in Int /\ y \in Int /\ a + 1 \in Int
        OBVIOUS
    <3> DEFINE b == a + 1
               r == m.recs
    <3>2. b \in Int /\ y \in b .. y /\ y \notin b .. x /\ b <= b /\ r[y] = 0
        BY <2>2, <3>1
    <3> HIDE DEF b, r
    <3>3. Cardinality(MarksIn(r, b, x)) < Cardinality(MarksIn(r, b, y))
        BY <3>1, <3>2, FewerMarks
    <3> QED BY <3>3 DEF b, r
  <2> QED BY <2>1, <2>2
<1> HIDE DEF C
<1>5. ASSUME NEW x \in a .. z, R(x), NEW y \in a .. z, R(y), x < y
      PROVE  FALSE
  <2>1. x # z /\ C(x) \in Nat /\ C(y) \in Nat
      BY <1>3, <1>5
  <2>2. C(x) = n
      BY <1>5, <2>1
  <2>3. C(x) <= C(y) /\ (m.recs[y] = 0 => C(x) < C(y))
      BY <1>4, <1>5
  <2> QED BY <1>5, <2>1, <2>2, <2>3
<1>6. \A x \in a .. z : R(x) => x = h
  <2> SUFFICES ASSUME NEW x \in a .. z, R(x) PROVE x = h
      OBVIOUS
  <2>1. ~ (x < h) /\ ~ (h < x)
    <3> HIDE DEF R
    <3> QED BY <1>2, <1>5
  <2> QED BY <2>1
<1>7. h \in a .. z
    OBVIOUS
<1> HIDE DEF R, a, z
<1> QED BY <1>1, <1>2, <1>6, <1>7

LEMMA BackFilesIs ==
    ASSUME NEW m, m.head \in Nat, NEW n \in Nat,
           NEW h \in 0 .. m.head,
           \/ Cardinality(MarksIn(m.recs, h + 1, m.head)) = n /\ m.recs[h + 1] = 0
           \/ Cardinality(MarksIn(m.recs, h + 1, m.head)) < n /\ h = 0,
           n # 0
    PROVE  Medium!BackFiles(m, n) = h
<1> DEFINE a == m.head
           C(x) == Cardinality(MarksIn(m.recs, x + 1, a))
           R(x) == (C(x) = n /\ m.recs[x + 1] = 0) \/ (C(x) < n /\ x = 0)
<1>1. Medium!BackFiles(m, n) = CHOOSE x \in 0 .. a : R(x)
    BY Zenon DEF Medium!BackFiles, Medium!Marks, Medium!Mark, MarksIn,
                 Medium!Cardinality, Cardinality
<1>2. R(h)
    OBVIOUS
<1>3. \A x \in 0 .. a : C(x) \in Nat
    BY MarksInIs
<1>4. \A x, y \in 0 .. a : x < y => C(y) <= C(x) /\ (m.recs[x + 1] = 0 => C(y) < C(x))
  <2> SUFFICES ASSUME NEW x \in 0 .. a, NEW y \in 0 .. a, x < y
               PROVE  C(y) <= C(x) /\ (m.recs[x + 1] = 0 => C(y) < C(x))
      OBVIOUS
  <2>1. C(y) <= C(x)
    <3>1. MarksIn(m.recs, y + 1, a) \subseteq MarksIn(m.recs, x + 1, a)
        BY DEF MarksIn
    <3>2. IsFiniteSet(MarksIn(m.recs, x + 1, a))
        BY MarksInIs
    <3> QED BY <3>1, <3>2, FS_Subset
  <2>2. ASSUME m.recs[x + 1] = 0 PROVE C(y) < C(x)
    <3> DEFINE b == x + 1
               c == y + 1
               r == m.recs
    <3>2. b \in Int /\ c \in Int /\ a \in Int /\ b \in b .. a /\ b \notin c .. a /\ b <= c
          /\ a <= a /\ r[b] = 0
        BY <2>2
    <3> HIDE DEF b, c, r, a
    <3>3. Cardinality(MarksIn(r, c, a)) < Cardinality(MarksIn(r, b, a))
        BY <3>2, FewerMarks
    <3> QED BY <3>3 DEF b, c, r
  <2> QED BY <2>1, <2>2
<1> HIDE DEF C
<1>5. ASSUME NEW x \in 0 .. a, R(x), NEW y \in 0 .. a, R(y), x < y
      PROVE  FALSE
  <2>1. y # 0 /\ C(x) \in Nat /\ C(y) \in Nat
      BY <1>3, <1>5
  <2>2. C(y) = n
      BY <1>5, <2>1
  <2>3. C(y) <= C(x) /\ (m.recs[x + 1] = 0 => C(y) < C(x))
      BY <1>4, <1>5
  <2> QED BY <1>5, <2>1, <2>2, <2>3
<1>6. \A x \in 0 .. a : R(x) => x = h
  <2> SUFFICES ASSUME NEW x \in 0 .. a, R(x) PROVE x = h
      OBVIOUS
  <2>1. ~ (x < h) /\ ~ (h < x)
    <3> HIDE DEF R
    <3> QED BY <1>2, <1>5
  <2> QED BY <2>1
<1>7. h \in 0 .. a
    OBVIOUS
<1> HIDE DEF R, a
<1> QED BY <1>1, <1>2, <1>6, <1>7

LEMMA OneMoreMark ==
    ASSUME NEW r, NEW a \in Int, NEW b \in Int, a <= b
    PROVE  /\ r[b] = 0 => Cardinality(MarksIn(r, a, b)) = Cardinality(MarksIn(r, a, b - 1)) + 1
           /\ r[b] # 0 => Cardinality(MarksIn(r, a, b)) = Cardinality(MarksIn(r, a, b - 1))
           /\ r[a] = 0 => Cardinality(MarksIn(r, a, b)) = Cardinality(MarksIn(r, a + 1, b)) + 1
           /\ r[a] # 0 => Cardinality(MarksIn(r, a, b)) = Cardinality(MarksIn(r, a + 1, b))
<1> DEFINE A == MarksIn(r, a, b)
           B == MarksIn(r, a, b - 1)
           C == MarksIn(r, a + 1, b)
<1>1. IsFiniteSet(B) /\ IsFiniteSet(C)
    BY MarksInIs
<1>2. b \notin B /\ a \notin C
    BY DEF MarksIn
<1>3. (r[b] = 0 => A = B \cup {b}) /\ (r[b] # 0 => A = B)
  <2>1. \A i : i \in a .. b <=> (i \in a .. b - 1 \/ i = b)
      OBVIOUS
  <2>2. (r[b] = 0 => \A i : i \in A <=> i \in B \/ i = b) /\ (r[b] # 0 => \A i : i \in A <=> i \in B)
      BY <2>1 DEF MarksIn
  <2> HIDE DEF A, B
  <2> QED BY <2>2
<1>4. (r[a] = 0 => A = C \cup {a}) /\ (r[a] # 0 => A = C)
  <2>1. \A i : i \in a .. b <=> (i \in a + 1 .. b \/ i = a)
      OBVIOUS
  <2>2. (r[a] = 0 => \A i : i \in A <=> i \in C \/ i = a) /\ (r[a] # 0 => \A i : i \in A <=> i \in C)
      BY <2>1 DEF MarksIn
  <2> HIDE DEF A, C
  <2> QED BY <2>2
<1> HIDE DEF A, B, C
<1>5. /\ r[b] = 0 => Cardinality(A) = Cardinality(B) + 1
      /\ r[b] # 0 => Cardinality(A) = Cardinality(B)
  <2>1. Cardinality(B \cup {b}) = Cardinality(B) + 1
      BY <1>1, <1>2, OneMore
  <2> QED BY <1>3, <2>1
<1>6. /\ r[a] = 0 => Cardinality(A) = Cardinality(C) + 1
      /\ r[a] # 0 => Cardinality(A) = Cardinality(C)
  <2>1. Cardinality(C \cup {a}) = Cardinality(C) + 1
      BY <1>1, <1>2, OneMore
  <2> QED BY <1>4, <2>1
<1> QED BY <1>5, <1>6 DEF A, B, C

-----------------------------------------------------------------------------
(* A motion over the records and marks r from the head a to the head h.     *)

OverRecords(count, r, a, h, left, gave) ==
    /\ a <= h /\ left = count - (h - a)
    /\ \A i \in a + 1 .. h : r[i] # 0
    /\ gave = "none" => h = Len(r) \/ r[h + 1] = 0

BackOverRecords(count, r, a, h, left, gave) ==
    /\ h <= a /\ left = count - (a - h)
    /\ \A i \in h + 1 .. a : r[i] # 0
    /\ gave = "none" => h = 0 \/ r[h] = 0

OverFiles(count, r, a, h, left, gave) ==
    /\ a <= h /\ left = count - Cardinality(MarksIn(r, a + 1, h))
    /\ left = 0 => r[h] = 0
    /\ gave = "none" => h = Len(r)

BackOverFiles(count, r, a, h, left, gave) ==
    /\ h <= a /\ left = count - Cardinality(MarksIn(r, h + 1, a))
    /\ left = 0 => r[h + 1] = 0
    /\ gave = "none" => h = 0

Moves(op, count, r, a, h, left, gave) ==
    /\ gave # "bad" /\ h \in 0 .. Len(r)
    /\ op = "FSR" => OverRecords(count, r, a, h, left, gave)
    /\ op = "BSR" => BackOverRecords(count, r, a, h, left, gave)
    /\ op = "FSF" => OverFiles(count, r, a, h, left, gave)
    /\ op = "BSF" => BackOverFiles(count, r, a, h, left, gave)

\* One step forward, or back, from the head h to the head k
OnePast(r, h, k, gave, overMark) ==
    \/ h < Len(r) /\ r[h + 1] # 0 /\ gave = "DATA" /\ k = h + 1
    \/ h < Len(r) /\ r[h + 1] = 0 /\ overMark /\ gave = "FILE" /\ k = h + 1
    \/ (h = Len(r) \/ (r[h + 1] = 0 /\ ~overMark)) /\ gave = "none" /\ k = h

OneBack(r, h, k, gave, overMark) ==
    \/ h > 0 /\ r[h] # 0 /\ gave = "DATA" /\ k = h - 1
    \/ h > 0 /\ r[h] = 0 /\ overMark /\ gave = "FILE" /\ k = h - 1
    \/ (h = 0 \/ (r[h] = 0 /\ ~overMark)) /\ gave = "none" /\ k = h

LEMMA PastIs ==
    ASSUME NEW t, Good(t), t.gaps # <<>>, NEW overMark \in BOOLEAN
    PROVE  LET s == Forward(t, overMark)
           IN  /\ OnePast(Recs(t.gaps), HeadOf(t.d.pos), HeadOf(s.t.d.pos), s.gave, overMark)
               /\ HeadOf(t.d.pos) \in 0 .. Len(Recs(t.gaps))
<1> DEFINE s == Forward(t, overMark)
           p == t.d.pos
           r == Recs(t.gaps)
           n == Len(t.gaps)
           h == HeadOf(p)
           k == HeadOf(s.t.d.pos)
           y == Here(t).type
<1>1. \/ y = "DATA" /\ s.gave = "DATA" /\ s.t.d.pos = p + 1
      \/ y = "FILE" /\ overMark /\ s.gave = "FILE" /\ s.t.d.pos = p + 1
      \/ (y = "EOT" \/ (y = "FILE" /\ ~overMark)) /\ s.gave = "none" /\ s.t.d.pos = p + 0
    BY ForwardIs DEF Steps
<1>2. p \in 2 .. n /\ n \in Nat /\ (y = "EOT" <=> p = n) /\ Sound(t.gaps)
    BY GoodIs, HereIs DEF Good
<1>3. Len(r) = n - 2 /\ \A i \in 1 .. n - 2 : (r[i] # 0 <=> t.gaps[i + 1].type = "DATA")
                                          /\ (r[i] = 0 <=> t.gaps[i + 1].type = "FILE")
    BY <1>2, RecsIs
<1>4. p < n => (r[p - 1] # 0 <=> y = "DATA") /\ (r[p - 1] = 0 <=> y = "FILE")
  <2> SUFFICES ASSUME p < n
               PROVE  (r[p - 1] # 0 <=> y = "DATA") /\ (r[p - 1] = 0 <=> y = "FILE")
      OBVIOUS
  <2>1. p - 1 \in 1 .. n - 2 /\ (p - 1) + 1 = p
      BY <1>2
  <2>2. y = t.gaps[p].type
      BY DEF Here
  <2> HIDE DEF r, n, y, p
  <2> QED BY <1>3, <2>1, <2>2
<1>5. p \in Nat /\ p + 1 \in Nat /\ p >= 2 /\ p + 1 >= 2 /\ h = p - 2 /\ HeadOf(p + 1) = h + 1
      /\ h \in Nat /\ p + 0 = p
  <2>1. p \in Nat /\ p >= 2
      BY <1>2
  <2> HIDE DEF p
  <2> QED BY <2>1 DEF HeadOf
<1> HIDE DEF s, p, r, n, h, y
<1>6. OnePast(r, h, k, s.gave, overMark)
  <2>1. CASE y = "DATA" /\ s.gave = "DATA" /\ s.t.d.pos = p + 1
    <3>1. p < n /\ p - 1 = h + 1 /\ h < Len(r) /\ k = h + 1
        BY <1>2, <1>3, <1>5, <2>1
    <3>2. r[h + 1] # 0
        BY <1>4, <2>1, <3>1
    <3> QED BY <2>1, <3>1, <3>2 DEF OnePast
  <2>2. CASE y = "FILE" /\ overMark /\ s.gave = "FILE" /\ s.t.d.pos = p + 1
    <3>1. p < n /\ p - 1 = h + 1 /\ h < Len(r) /\ k = h + 1
        BY <1>2, <1>3, <1>5, <2>2
    <3>2. r[h + 1] = 0
        BY <1>4, <2>2, <3>1
    <3> QED BY <2>2, <3>1, <3>2 DEF OnePast
  <2>3. CASE y = "EOT" /\ s.gave = "none" /\ s.t.d.pos = p + 0
    <3>1. h = Len(r) /\ k = h
        BY <1>2, <1>3, <1>5, <2>3 DEF h
    <3> QED BY <2>3, <3>1 DEF OnePast
  <2>4. CASE y = "FILE" /\ ~overMark /\ s.gave = "none" /\ s.t.d.pos = p + 0
    <3>1. p < n /\ p - 1 = h + 1 /\ k = h
        BY <1>2, <1>3, <1>5, <2>4 DEF h
    <3>2. r[h + 1] = 0
        BY <1>4, <2>4, <3>1
    <3> QED BY <2>4, <3>1, <3>2 DEF OnePast
  <2> QED BY <1>1, <2>1, <2>2, <2>3, <2>4
<1>7. h \in 0 .. Len(r)
    BY <1>2, <1>3, <1>5
<1> QED BY <1>6, <1>7 DEF s, p, r, h

LEMMA BackIs ==
    ASSUME NEW t, Good(t), t.gaps # <<>>, NEW overMark \in BOOLEAN
    PROVE  LET s == Backward(t, overMark)
           IN  OneBack(Recs(t.gaps), HeadOf(t.d.pos), HeadOf(s.t.d.pos), s.gave, overMark)
<1> DEFINE s == Backward(t, overMark)
           p == t.d.pos
           r == Recs(t.gaps)
           n == Len(t.gaps)
           h == HeadOf(p)
           k == HeadOf(s.t.d.pos)
           y == Behind(t)
<1>1. \/ y = "BOT" /\ s.gave = "none" /\ s.t.d.pos = p + 0
      \/ y = "DATA" /\ s.gave = "DATA" /\ s.t.d.pos = p + (-1)
      \/ y = "FILE" /\ overMark /\ s.gave = "FILE" /\ s.t.d.pos = p + (-1)
      \/ y = "FILE" /\ ~overMark /\ s.gave = "none" /\ s.t.d.pos = p + 0
    BY BackwardIs DEF Steps
<1>2. p \in 2 .. n /\ n \in Nat /\ (y = "BOT" <=> p = 2) /\ Sound(t.gaps)
    BY GoodIs, HereIs DEF Good
<1>3. Len(r) = n - 2 /\ \A i \in 1 .. n - 2 : (r[i] # 0 <=> t.gaps[i + 1].type = "DATA")
                                          /\ (r[i] = 0 <=> t.gaps[i + 1].type = "FILE")
    BY <1>2, RecsIs
<1>4. p > 2 => (r[p - 2] # 0 <=> y = "DATA") /\ (r[p - 2] = 0 <=> y = "FILE")
  <2> SUFFICES ASSUME p > 2
               PROVE  (r[p - 2] # 0 <=> y = "DATA") /\ (r[p - 2] = 0 <=> y = "FILE")
      OBVIOUS
  <2>1. p - 2 \in 1 .. n - 2 /\ (p - 2) + 1 = p - 1
      BY <1>2
  <2>2. y = t.gaps[p - 1].type
      BY DEF Behind
  <2> HIDE DEF r, n, y, p
  <2> QED BY <1>3, <2>1, <2>2
<1>5. p \in Nat /\ p >= 2 /\ h = p - 2 /\ (p > 2 => HeadOf(p + (-1)) = h - 1)
      /\ h \in Nat /\ p + 0 = p
  <2>1. p \in Nat /\ p >= 2
      BY <1>2
  <2> HIDE DEF p
  <2> QED BY <2>1 DEF HeadOf
<1> HIDE DEF s, p, r, n, h, y
<1>6. OneBack(r, h, k, s.gave, overMark)
  <2>1. CASE y = "DATA" /\ s.gave = "DATA" /\ s.t.d.pos = p + (-1)
    <3>1. p > 2 /\ h > 0 /\ k = h - 1
        BY <1>2, <1>5, <2>1
    <3>2. r[h] # 0
        BY <1>4, <1>5, <2>1, <3>1
    <3> QED BY <2>1, <3>1, <3>2 DEF OneBack
  <2>2. CASE y = "FILE" /\ overMark /\ s.gave = "FILE" /\ s.t.d.pos = p + (-1)
    <3>1. p > 2 /\ h > 0 /\ k = h - 1
        BY <1>2, <1>5, <2>2
    <3>2. r[h] = 0
        BY <1>4, <1>5, <2>2, <3>1
    <3> QED BY <2>2, <3>1, <3>2 DEF OneBack
  <2>3. CASE y = "BOT" /\ s.gave = "none" /\ s.t.d.pos = p + 0
    <3>1. h = 0 /\ k = h
        BY <1>2, <1>5, <2>3 DEF h
    <3> QED BY <2>3, <3>1 DEF OneBack
  <2>4. CASE y = "FILE" /\ ~overMark /\ s.gave = "none" /\ s.t.d.pos = p + 0
    <3>1. p > 2 /\ k = h
        BY <1>2, <1>5, <2>4 DEF h
    <3>2. r[h] = 0
        BY <1>4, <1>5, <2>4, <3>1
    <3> QED BY <2>4, <3>1, <3>2 DEF OneBack
  <2> QED BY <1>1, <2>1, <2>2, <2>3, <2>4
<1> QED BY <1>6 DEF s, p, r, h

\* A step keeps what is said of the motion
LEMMA PastMoves ==
    ASSUME NEW op \in {"FSR", "FSF"}, NEW count \in Nat, NEW r, Len(r) \in Nat,
           NEW a \in 0 .. Len(r), NEW h \in 0 .. Len(r), NEW left \in Nat, left # 0, NEW gave,
           Moves(op, count, r, a, h, left, gave),
           NEW k, NEW now, NEW rest, OnePast(r, h, k, now, OverMark(op)),
           Counts(now, op) => rest = left - 1, ~Counts(now, op) => rest = left
    PROVE  Moves(op, count, r, a, k, rest, now)
<1>1. k \in 0 .. Len(r) /\ now # "bad"
    BY DEF OnePast
<1>2. CASE op = "FSR"
  <2>1. OverRecords(count, r, a, h, left, gave)
      BY <1>2 DEF Moves
  <2>2. \/ r[h + 1] # 0 /\ now = "DATA" /\ k = h + 1 /\ rest = left - 1
        \/ (h = Len(r) \/ r[h + 1] = 0) /\ now = "none" /\ k = h /\ rest = left
      BY <1>2 DEF OnePast, OverMark, Counts
  <2>3. OverRecords(count, r, a, k, rest, now)
    <3>1. CASE r[h + 1] # 0 /\ now = "DATA" /\ k = h + 1 /\ rest = left - 1
      <4>1. a <= k /\ rest = count - (k - a)
          BY <2>1, <3>1 DEF OverRecords
      <4>2. \A i \in a + 1 .. k : i \in a + 1 .. h \/ i = h + 1
          BY <3>1
      <4> QED BY <2>1, <3>1, <4>1, <4>2 DEF OverRecords
    <3>2. CASE (h = Len(r) \/ r[h + 1] = 0) /\ now = "none" /\ k = h /\ rest = left
        BY <2>1, <3>2 DEF OverRecords
    <3> QED BY <2>2, <3>1, <3>2
  <2> QED BY <1>1, <1>2, <2>3 DEF Moves
<1>3. CASE op = "FSF"
  <2> DEFINE C(x) == Cardinality(MarksIn(r, a + 1, x))
  <2>1. a <= h /\ left = count - C(h)
      BY <1>3 DEF Moves, OverFiles
  <2>2. \/ r[h + 1] # 0 /\ now = "DATA" /\ k = h + 1 /\ rest = left
        \/ r[h + 1] = 0 /\ now = "FILE" /\ k = h + 1 /\ rest = left - 1
        \/ h = Len(r) /\ now = "none" /\ k = h /\ rest = left
      BY <1>3 DEF OnePast, OverMark, Counts
  <2>3. (r[h + 1] = 0 => C(h + 1) = C(h) + 1) /\ (r[h + 1] # 0 => C(h + 1) = C(h))
        /\ C(h) \in Nat
    <3> DEFINE b == h + 1
               c == a + 1
    <3>1. b \in Int /\ c \in Int /\ c <= b /\ b - 1 = h /\ h \in Int
        BY <2>1
    <3> HIDE DEF b, c
    <3>2. /\ r[b] = 0 => Cardinality(MarksIn(r, c, b)) = Cardinality(MarksIn(r, c, b - 1)) + 1
          /\ r[b] # 0 => Cardinality(MarksIn(r, c, b)) = Cardinality(MarksIn(r, c, b - 1))
          /\ Cardinality(MarksIn(r, c, h)) \in Nat
        BY <3>1, OneMoreMark, MarksInIs
    <3> QED BY <3>1, <3>2 DEF b, c
  <2> HIDE DEF C
  <2>4. a <= k /\ rest = count - C(k)
    <3> DEFINE x == C(h)
               y == C(h + 1)
    <3>1. x \in Nat /\ (r[h + 1] = 0 => y = x + 1) /\ (r[h + 1] # 0 => y = x) /\ left = count - x
        BY <2>1, <2>3
    <3>2. (k = h + 1 => C(k) = y) /\ (k = h => C(k) = x)
        OBVIOUS
    <3> HIDE DEF x, y
    <3>3. CASE r[h + 1] # 0 /\ now = "DATA" /\ k = h + 1 /\ rest = left
        BY <2>1, <3>1, <3>2, <3>3
    <3>4. CASE r[h + 1] = 0 /\ now = "FILE" /\ k = h + 1 /\ rest = left - 1
        BY <2>1, <3>1, <3>2, <3>4
    <3>5. CASE h = Len(r) /\ now = "none" /\ k = h /\ rest = left
        BY <2>1, <3>1, <3>2, <3>5
    <3> QED BY <2>2, <3>3, <3>4, <3>5
  <2>5. (rest = 0 => r[k] = 0) /\ (now = "none" => k = Len(r))
      BY <2>2
  <2>6. OverFiles(count, r, a, k, rest, now)
      BY <2>4, <2>5 DEF OverFiles, C
  <2> QED BY <1>1, <1>3, <2>6 DEF Moves
<1> QED BY <1>2, <1>3

LEMMA BackMoves ==
    ASSUME NEW op \in {"BSR", "BSF"}, NEW count \in Nat, NEW r, Len(r) \in Nat,
           NEW a \in 0 .. Len(r), NEW h \in 0 .. Len(r), NEW left \in Nat, left # 0, NEW gave,
           Moves(op, count, r, a, h, left, gave),
           NEW k, NEW now, NEW rest, OneBack(r, h, k, now, OverMark(op)),
           Counts(now, op) => rest = left - 1, ~Counts(now, op) => rest = left
    PROVE  Moves(op, count, r, a, k, rest, now)
<1>1. k \in 0 .. Len(r) /\ now # "bad"
    BY DEF OneBack
<1>2. CASE op = "BSR"
  <2>1. BackOverRecords(count, r, a, h, left, gave)
      BY <1>2 DEF Moves
  <2>2. \/ h > 0 /\ r[h] # 0 /\ now = "DATA" /\ k = h - 1 /\ rest = left - 1
        \/ (h = 0 \/ r[h] = 0) /\ now = "none" /\ k = h /\ rest = left
      BY <1>2 DEF OneBack, OverMark, Counts
  <2>3. BackOverRecords(count, r, a, k, rest, now)
    <3>1. CASE h > 0 /\ r[h] # 0 /\ now = "DATA" /\ k = h - 1 /\ rest = left - 1
      <4>1. k <= a /\ rest = count - (a - k)
          BY <2>1, <3>1 DEF BackOverRecords
      <4>2. \A i \in k + 1 .. a : i \in h + 1 .. a \/ i = h
          BY <3>1
      <4> QED BY <2>1, <3>1, <4>1, <4>2 DEF BackOverRecords
    <3>2. CASE (h = 0 \/ r[h] = 0) /\ now = "none" /\ k = h /\ rest = left
        BY <2>1, <3>2 DEF BackOverRecords
    <3> QED BY <2>2, <3>1, <3>2
  <2> QED BY <1>1, <1>2, <2>3 DEF Moves
<1>3. CASE op = "BSF"
  <2> DEFINE C(x) == Cardinality(MarksIn(r, x, a))
  <2>1. h <= a /\ left = count - C(h + 1)
      BY <1>3 DEF Moves, BackOverFiles
  <2>2. \/ h > 0 /\ r[h] # 0 /\ now = "DATA" /\ k = h - 1 /\ rest = left
        \/ h > 0 /\ r[h] = 0 /\ now = "FILE" /\ k = h - 1 /\ rest = left - 1
        \/ h = 0 /\ now = "none" /\ k = h /\ rest = left
      BY <1>3 DEF OneBack, OverMark, Counts
  <2>3. (r[h] = 0 => C(h) = C(h + 1) + 1) /\ (r[h] # 0 => C(h) = C(h + 1)) /\ C(h + 1) \in Nat
    <3>1. h \in Int /\ a \in Int /\ h + 1 \in Int /\ h <= a
        BY <2>1
    <3> QED BY <3>1, OneMoreMark, MarksInIs
  <2>4. h > 0 /\ k = h - 1 => k + 1 = h
      BY <1>1
  <2> HIDE DEF C
  <2>5. k <= a /\ rest = count - C(k + 1)
    <3> DEFINE x == C(h + 1)
               y == C(h)
    <3>1. x \in Nat /\ (r[h] = 0 => y = x + 1) /\ (r[h] # 0 => y = x) /\ left = count - x
        BY <2>1, <2>3
    <3>2. (k + 1 = h => C(k + 1) = y) /\ (k = h => C(k + 1) = x)
        OBVIOUS
    <3> HIDE DEF x, y
    <3>3. CASE h > 0 /\ r[h] # 0 /\ now = "DATA" /\ k = h - 1 /\ rest = left
        BY <2>1, <2>4, <3>1, <3>2, <3>3
    <3>4. CASE h > 0 /\ r[h] = 0 /\ now = "FILE" /\ k = h - 1 /\ rest = left - 1
        BY <2>1, <2>4, <3>1, <3>2, <3>4
    <3>5. CASE h = 0 /\ now = "none" /\ k = h /\ rest = left
        BY <2>1, <3>1, <3>2, <3>5
    <3> QED BY <2>2, <3>3, <3>4, <3>5
  <2>6. (rest = 0 => r[k + 1] = 0) /\ (now = "none" => k = 0)
    <3>1. CASE h > 0 /\ r[h] # 0 /\ now = "DATA" /\ k = h - 1 /\ rest = left
        BY <3>1
    <3>2. CASE h > 0 /\ r[h] = 0 /\ now = "FILE" /\ k = h - 1 /\ rest = left - 1
        BY <2>4, <3>2
    <3>3. CASE h = 0 /\ now = "none" /\ k = h /\ rest = left
        BY <3>3
    <3> QED BY <2>2, <3>1, <3>2, <3>3
  <2>7. BackOverFiles(count, r, a, k, rest, now)
      BY <2>5, <2>6 DEF BackOverFiles, C
  <2> QED BY <1>1, <1>3, <2>7 DEF Moves
<1> QED BY <1>2, <1>3

-----------------------------------------------------------------------------
(* The requests of the simulator are those of the medium.                   *)

LEMMA SpacedMoves ==
    ASSUME Good(Now), mode = "RDWR" => file # <<>>, file # <<>>,
           NEW op \in Motion, NEW count \in Nat, count # 0
    PROVE  LET s == Spaced(op, count)
               m == Flushed(Now)
               r == Recs(m.gaps)
           IN  /\ Good(m) /\ m.gaps # <<>> /\ Len(r) \in Nat /\ HeadOf(m.d.pos) \in 0 .. Len(r)
               /\ Good(s.t) /\ ~s.t.d.weof /\ s.t.gaps = m.gaps
               /\ s.left \in Nat /\ (s.left = 0 \/ s.gave = "none")
               /\ Moves(op, count, r, HeadOf(m.d.pos), HeadOf(s.t.d.pos), s.left, s.gave)
<1>1. PICK g : Run(g, op, count)
    BY RunIs
<1> DEFINE n == Limit + count
           m == Flushed(Now)
           r == Recs(m.gaps)
           a == HeadOf(m.d.pos)
           P(i) == /\ Fine(g[i])
                   /\ Moves(op, count, r, a, HeadOf(g[i].t.d.pos), g[i].left, g[i].gave)
           T == {i \in 0 .. n : P(i)}
<1>2. n \in Nat /\ n \in 0 .. n /\ 0 \in 0 .. n
    BY TapeAssumption
<1>3. Good(m) /\ m.gaps # <<>>
  <2>1. Now.gaps = file
      BY DEF Now, At
  <2> QED BY <2>1, FlushedIs
<1>4. \A t : Good(t) /\ t.gaps = m.gaps => HeadOf(t.d.pos) \in 0 .. Len(r)
  <2> SUFFICES ASSUME NEW t, Good(t), t.gaps = m.gaps PROVE HeadOf(t.d.pos) \in 0 .. Len(r)
      OBVIOUS
  <2>1. t.gaps # <<>> /\ TRUE \in BOOLEAN
      BY <1>3
  <2>2. HeadOf(t.d.pos) \in 0 .. Len(Recs(t.gaps))
      BY <2>1, PastIs
  <2> QED BY <2>2
<1>5. Len(r) \in Nat
  <2>1. Len(r) = Len(m.gaps) - 2 /\ Len(m.gaps) - 2 \in Nat
      BY <1>3, RecsIs DEF Good
  <2> QED BY <2>1
<1>6. a \in 0 .. Len(r)
    BY <1>3, <1>4
<1> HIDE DEF r, a
<1>7. 0 \in T
  <2>1. g[0].t = m /\ g[0].left = count /\ g[0].gave = "DATA" /\ Fine(g[0])
      BY <1>1 DEF Run, Start
  <2>2. HeadOf(g[0].t.d.pos) = a
      BY <2>1 DEF a
  <2>3. Moves(op, count, r, a, a, count, "DATA")
    <3>1. Cardinality(MarksIn(r, a + 1, a)) = 0
      <4>1. MarksIn(r, a + 1, a) = {}
          BY <1>5, <1>6 DEF MarksIn
      <4> QED BY <4>1, FS_EmptySet
    <3>2. a \in Nat /\ a <= a /\ count = count - (a - a) /\ count = count - 0
          /\ \A i \in a + 1 .. a : FALSE
        BY <1>6
    <3> QED BY <1>6, <3>1, <3>2 DEF Moves, OverRecords, BackOverRecords, OverFiles, BackOverFiles
  <2> HIDE DEF m
  <2> QED BY <1>2, <2>1, <2>2, <2>3
<1>8. ASSUME NEW i \in 0 .. n - 1, P(i)
      PROVE  P(i + 1)
  <2> DEFINE w == g[i]
             v == g[i + 1]
             b == OverMark(op)
             x == w.t
             h == HeadOf(x.d.pos)
             k == HeadOf(v.t.d.pos)
  <2>1. Onward(op, w, v) /\ Fine(w) /\ Fine(v)
      BY <1>1 DEF Run
  <2>2. CASE Over(w)
    <3>1. v = w
        BY <2>1, <2>2 DEF Onward
    <3> HIDE DEF m
    <3> QED BY <1>8, <2>1, <3>1
  <2>3. CASE ~Over(w)
    <3>1. /\ v.t = OneStep(x, op).t /\ v.gave = OneStep(x, op).gave
          /\ Counts(v.gave, op) => v.left = w.left - 1
          /\ ~Counts(v.gave, op) => v.left = w.left
        BY <2>1, <2>3 DEF Onward
    <3>2. /\ Good(x) /\ x.gaps # <<>> /\ b \in BOOLEAN /\ w.left \in Nat /\ w.left # 0
          /\ Recs(x.gaps) = r /\ h \in 0 .. Len(r)
        BY <1>3, <1>4, <2>1, <2>3 DEF Fine, OverMark, Over, r
    <3>3. Moves(op, count, r, a, h, w.left, w.gave)
        BY <1>8
    <3>4. CASE op \in {"FSR", "FSF"}
      <4>1. OneStep(x, op) = Forward(x, b)
          BY <3>4 DEF OneStep
      <4>2. OnePast(r, h, k, v.gave, b)
        <5> HIDE DEF x, b, v, m
        <5>1. OnePast(Recs(x.gaps), HeadOf(x.d.pos), HeadOf(v.t.d.pos), v.gave, b)
            BY <3>1, <3>2, <4>1, PastIs
        <5> QED BY <3>2, <5>1
      <4> DEFINE left == w.left
                 gave == w.gave
                 rest == v.left
                 now == v.gave
      <4>3. /\ Moves(op, count, r, a, h, left, gave) /\ OnePast(r, h, k, now, OverMark(op))
            /\ Counts(now, op) => rest = left - 1
            /\ ~Counts(now, op) => rest = left
            /\ left \in Nat /\ left # 0 /\ h \in 0 .. Len(r)
          BY <3>1, <3>2, <3>3, <4>2
      <4> HIDE DEF left, gave, rest, now, h, k
      <4>4. Moves(op, count, r, a, k, rest, now)
          BY <1>5, <1>6, <3>4, <4>3, PastMoves
      <4> HIDE DEF m
      <4> QED BY <2>1, <4>4 DEF rest, now, k
    <3>5. CASE op \in {"BSR", "BSF"}
      <4>1. OneStep(x, op) = Backward(x, b)
          BY <3>5 DEF OneStep
      <4>2. OneBack(r, h, k, v.gave, b)
        <5> HIDE DEF x, b, v, m
        <5>1. OneBack(Recs(x.gaps), HeadOf(x.d.pos), HeadOf(v.t.d.pos), v.gave, b)
            BY <3>1, <3>2, <4>1, BackIs
        <5> QED BY <3>2, <5>1
      <4> DEFINE left == w.left
                 gave == w.gave
                 rest == v.left
                 now == v.gave
      <4>3. /\ Moves(op, count, r, a, h, left, gave) /\ OneBack(r, h, k, now, OverMark(op))
            /\ Counts(now, op) => rest = left - 1
            /\ ~Counts(now, op) => rest = left
            /\ left \in Nat /\ left # 0 /\ h \in 0 .. Len(r)
          BY <3>1, <3>2, <3>3, <4>2
      <4> HIDE DEF left, gave, rest, now, h, k
      <4>4. Moves(op, count, r, a, k, rest, now)
          BY <1>5, <1>6, <3>5, <4>3, BackMoves
      <4> HIDE DEF m
      <4> QED BY <2>1, <4>4 DEF rest, now, k
    <3> QED BY <3>4, <3>5 DEF Motion
  <2> QED BY <2>2, <2>3
<1>9. \A i \in 0 .. n : i \in T
  <2>1. \A i \in 0 .. n - 1 : i \in T => i + 1 \in T
    <3> SUFFICES ASSUME NEW i \in 0 .. n - 1, P(i) PROVE i + 1 \in T
        OBVIOUS
    <3>1. i + 1 \in 0 .. n
        BY <1>2
    <3>2. P(i + 1)
        BY <1>8
    <3> HIDE DEF P
    <3> QED BY <3>1, <3>2
  <2> HIDE DEF T, n
  <2> QED BY <1>2, <1>7, <2>1, UpTo
<1>10. P(n) /\ Spaced(op, count) = g[n] /\ Over(g[n])
    BY <1>1, <1>2, <1>9, RunEnds DEF Run
<1>11. /\ Good(g[n].t) /\ ~g[n].t.d.weof /\ g[n].t.gaps = m.gaps /\ g[n].left \in Nat
       /\ g[n].left = 0 \/ g[n].gave = "none"
    BY <1>10 DEF Fine, Over, Moves
<1> HIDE DEF n, m
<1> QED BY <1>3, <1>5, <1>6, <1>10, <1>11 DEF m, r, a

\* Where a motion leads is where it leads on the medium
LEMMA MovesGo ==
    ASSUME NEW op \in Motion, NEW count \in Nat, count # 0, NEW m, Len(m.recs) \in Nat,
           m.head \in 0 .. Len(m.recs), NEW h, NEW left \in Nat, NEW gave,
           Moves(op, count, m.recs, m.head, h, left, gave), left = 0 \/ gave = "none"
    PROVE  \/ /\ h = Medium!ForwardRecords(m, count)
              /\ left = count - Medium!Span(m.head, h)
           \/ /\ h = Medium!BackRecords(m, count)
              /\ left = count - Medium!Span(m.head, h)
           \/ /\ h = Medium!ForwardFiles(m, count)
              /\ left = count - Medium!Cardinality(Medium!Marks(m.recs, m.head + 1, h))
           \/ /\ h = Medium!BackFiles(m, count)
              /\ left = count - Medium!Cardinality(Medium!Marks(m.recs, h + 1, m.head))
<1> DEFINE r == m.recs
           a == m.head
<1>1. r = m.recs /\ a = m.head /\ h \in 0 .. Len(r) /\ h \in Nat /\ a \in Nat /\ a <= Len(r)
    BY DEF Moves
<1>2. \A x, y : Medium!Cardinality(Medium!Marks(r, x, y)) = Cardinality(MarksIn(r, x, y))
    BY Zenon DEF Medium!Cardinality, Cardinality, Medium!Marks, Medium!Mark, MarksIn
<1>3. CASE op = "FSR"
  <2>1. OverRecords(count, r, a, h, left, gave)
      BY <1>3 DEF Moves
  <2> HIDE DEF r, a
  <2>2. /\ h \in a .. Len(r) /\ h <= a + count /\ left = count - (h - a)
        /\ \A i \in a + 1 .. h : r[i] # 0
        /\ h = a + count \/ h = Len(r) \/ r[h + 1] = 0
    <3>1. a <= h /\ left = count - (h - a)
        BY <2>1 DEF OverRecords
    <3>2. (\A i \in a + 1 .. h : r[i] # 0) /\ (gave = "none" => h = Len(r) \/ r[h + 1] = 0)
        BY <2>1 DEF OverRecords
    <3>3. h \in a .. Len(r) /\ h <= a + count /\ (left = 0 => h = a + count)
        BY <1>1, <3>1
    <3> QED BY <3>1, <3>2, <3>3
  <2>3. Medium!ForwardRecords(m, count) = h
      BY <1>1, <2>2, ForwardRecordsIs DEF r, a
  <2>4. left = count - Medium!Span(a, h)
      BY <1>1, <2>2 DEF Medium!Span
  <2> QED BY <2>3, <2>4 DEF a
<1>4. CASE op = "BSR"
  <2>1. BackOverRecords(count, r, a, h, left, gave)
      BY <1>4 DEF Moves
  <2> HIDE DEF r, a
  <2>2. /\ h \in 0 .. a /\ h >= a - count /\ left = count - (a - h)
        /\ \A i \in h + 1 .. a : r[i] # 0
        /\ h = a - count \/ h = 0 \/ r[h] = 0
    <3>1. h <= a /\ left = count - (a - h)
        BY <2>1 DEF BackOverRecords
    <3>2. (\A i \in h + 1 .. a : r[i] # 0) /\ (gave = "none" => h = 0 \/ r[h] = 0)
        BY <2>1 DEF BackOverRecords
    <3>3. h \in 0 .. a /\ h >= a - count /\ (left = 0 => h = a - count)
        BY <1>1, <3>1
    <3> QED BY <3>1, <3>2, <3>3
  <2>3. Medium!BackRecords(m, count) = h
      BY <1>1, <2>2, BackRecordsIs DEF r, a
  <2>4. left = count - Medium!Span(a, h)
      BY <1>1, <2>2 DEF Medium!Span
  <2> QED BY <2>3, <2>4 DEF a
<1>5. CASE op = "FSF"
  <2> DEFINE c == Cardinality(MarksIn(r, a + 1, h))
  <2>1. OverFiles(count, r, a, h, left, gave)
      BY <1>5 DEF Moves
  <2>2. c \in Nat
      BY <1>1, MarksInIs
  <2> HIDE DEF r, a
  <2>3. /\ h \in a .. Len(r) /\ left = count - c
        /\ (c = count /\ r[h] = 0) \/ (c < count /\ h = Len(r))
    <3>1. left = count - c /\ (left = 0 => r[h] = 0) /\ (gave = "none" => h = Len(r)) /\ a <= h
        BY <2>1 DEF OverFiles
    <3> HIDE DEF c
    <3> QED BY <1>1, <2>2, <3>1
  <2>4. Medium!ForwardFiles(m, count) = h
      BY <1>1, <2>3, ForwardFilesIs DEF r, a
  <2> QED BY <1>2, <2>3, <2>4 DEF r, a
<1>6. CASE op = "BSF"
  <2> DEFINE c == Cardinality(MarksIn(r, h + 1, a))
  <2>1. BackOverFiles(count, r, a, h, left, gave)
      BY <1>6 DEF Moves
  <2>2. c \in Nat
      BY <1>1, MarksInIs
  <2> HIDE DEF r, a
  <2>3. /\ h \in 0 .. a /\ left = count - c
        /\ (c = count /\ r[h + 1] = 0) \/ (c < count /\ h = 0)
    <3>1. left = count - c /\ (left = 0 => r[h + 1] = 0) /\ (gave = "none" => h = 0) /\ h <= a
        BY <2>1 DEF BackOverFiles
    <3> HIDE DEF c
    <3> QED BY <1>1, <2>2, <3>1
  <2>4. Medium!BackFiles(m, count) = h
      BY <1>1, <2>3, BackFilesIs DEF r, a
  <2> QED BY <1>2, <2>3, <2>4 DEF r, a
<1> QED BY <1>3, <1>4, <1>5, <1>6 DEF Motion

\* A request that the drive answers with an error and that does nothing else
LEMMA FailsAs ==
    ASSUME NEW err, Replies(err, 0), file' = file,
           HeadOf(dev'.pos) = HeadOf(dev.pos), dev'.weof = dev.weof,
           UNCHANGED <<mode, disk>>
    PROVE  Medium!Refused(err)
BY DEF Medium!Refused, Medium!Error, Replies

\* The requests that the way the drive is open has no room for
LEMMA RefusesAs ==
    ASSUME NEW err, Refused(err),
           \/ mode = "CLOSED" /\ err \in {"DEV_NOT_OPEN_ERR", "DEVICE_BUSY_ERR"}
           \/ mode # "CLOSED" /\ err = "DEVICE_OPENED_ERR"
           \/ mode = "READ" /\ err = "PERMISSION_ERR"
    PROVE  Medium!Next
<1>1. Medium!Refused(err)
    BY FailsAs DEF Refused
<1>2. Medium!Refuses
    BY <1>1 DEF Medium!Refuses
<1> QED BY <1>2 DEF Medium!Next, Medium!Fails

\* The mark a drive puts behind what it has written is where the medium has it
LEMMA SettledIs ==
    ASSUME TapeInv, mode # "CLOSED"
    PROVE  Med(Flushed(Now)) \in Medium!Settled
<1> DEFINE m == Flushed(Now)
           p == dev.pos
<1>1. Good(Now) /\ (mode = "RDWR" => Now.gaps # <<>>) /\ Now.gaps = file /\ Now.d = dev
    BY OpenIs
<1>2. \/ dev.weof /\ mode = "RDWR" /\ MarkFits(Now) /\ m = Marked(Now)
      \/ m.gaps = file /\ m.d = [dev EXCEPT !.weof = FALSE]
    BY <1>1, FlushedIs
<1>3. CASE m.gaps = file /\ m.d = [dev EXCEPT !.weof = FALSE]
  <2>1. m.d.pos = dev.pos
      BY <1>1, <1>3 DEF Good, DevType
  <2>2. Med(m) = [recs |-> Recs(file), head |-> HeadOf(dev.pos)]
      BY <1>3, <2>1 DEF Med
  <2> HIDE DEF m
  <2> QED BY <2>2 DEF Medium!Settled, Recs, m
<1>4. CASE dev.weof /\ mode = "RDWR" /\ MarkFits(Now) /\ m = Marked(Now)
  <2>1. file # <<>> /\ Sound(file) /\ p \in 2 .. Len(file) /\ p \in Nat
      BY <1>1, <1>4, GoodIs DEF Good
  <2>2. /\ Good(m) /\ Len(m.gaps) = p + 1 /\ m.d.pos = p + 1
        /\ \A i \in 1 .. p - 1 : m.gaps[i] = file[i]
        /\ m.gaps[p].size = 0
      BY <1>1, <1>4, <2>1, MarkedIs
  <2> DEFINE new == <<0>>
             g == m.gaps
  <2>3. /\ new \in Seq(Nat) /\ Len(new) = 1 /\ Sound(g) /\ Len(g) = p + 1
        /\ \A i \in 1 .. p - 1 : g[i] = file[i]
        /\ \A i \in 1 .. 1 : g[p - 1 + i].size = new[i]
    <3>1. \A i \in 1 .. 1 : i = 1 /\ p - 1 + i = p
        BY <2>1
    <3>2. new \in Seq(Nat) /\ Len(new) = 1 /\ new[1] = 0
        OBVIOUS
    <3>3. Sound(g)
        BY <2>2 DEF Good
    <3> HIDE DEF new, p, m
    <3> QED BY <2>2, <3>1, <3>2, <3>3
  <2> HIDE DEF g, new, p
  <2>4. Recs(g) = SubSeq(Recs(file), 1, HeadOf(p)) \o new /\ HeadOf(p + 1) = HeadOf(p) + 1
    <3>0. Put(file, p, g, new)
        BY <2>1, <2>3 DEF Put
    <3>1. Recs(g) = Onto(file, p, new)
        BY <3>0, PutRecs
    <3>2. HeadOf(p + 1) = HeadOf(p) + 1
        BY <2>1, HeadMoves
    <3> QED BY <3>1, <3>2 DEF Onto
  <2>5. Append(SubSeq(Recs(file), 1, HeadOf(p)), 0) = SubSeq(Recs(file), 1, HeadOf(p)) \o new
    <3>1. SubSeq(Recs(file), 1, HeadOf(p)) \in Seq(Nat)
      <4> DEFINE r == Recs(file)
                 h == HeadOf(p)
      <4>1. r \in Seq(Nat) /\ h \in Nat /\ h <= Len(r)
        <5>1. r \in Seq(Nat) /\ Len(r) = Len(file) - 2 /\ Len(file) \in Nat
            BY <2>1, RecsIs DEF Sound
        <5>2. h = p - 2 /\ h \in Nat
            BY <2>1, HeadIs
        <5> HIDE DEF r, h
        <5> QED BY <2>1, <5>1, <5>2
      <4> HIDE DEF r, h
      <4>2. \A i \in 1 .. h : r[i] \in Nat
          BY <4>1
      <4>3. SubSeq(r, 1, h) \in Seq(Nat)
          BY <4>1, <4>2, SubSeqProperties
      <4> QED BY <4>3 DEF r, h
    <3> DEFINE q == SubSeq(Recs(file), 1, HeadOf(p))
    <3>2. q \in Seq(Nat)
        BY <3>1
    <3> HIDE DEF q
    <3>3. Append(q, 0) = q \o <<0>>
        BY <3>2
    <3> QED BY <3>3 DEF q, new
  <2>6. Med(m) = [recs |-> Append(SubSeq(Recs(file), 1, HeadOf(dev.pos)), 0),
                  head |-> HeadOf(dev.pos) + 1]
      BY <2>2, <2>4, <2>5 DEF Med, g, p
  <2> HIDE DEF m
  <2> QED BY <1>4, <2>6 DEF Medium!Settled, Medium!Kept, Medium!Mark, Recs, m
<1> QED BY <1>2, <1>3, <1>4

\* On a blank tape there is nowhere to go
LEMMA SpacedBlank ==
    ASSUME Good(Now), mode # "RDWR", file = <<>>, ~dev.weof,
           NEW op \in Motion, NEW count \in Nat, count # 0
    PROVE  LET s == Spaced(op, count)
           IN  s.t = Now /\ s.left = count /\ s.gave = "bad"
<1>1. PICK g : Run(g, op, count)
    BY RunIs
<1> DEFINE n == Limit + count
           P(i) == /\ g[i].t = Now /\ g[i].left = count
                   /\ IF i = 0 THEN g[i].gave = "DATA" ELSE g[i].gave = "bad"
           T == {i \in 0 .. n : P(i)}
<1>2. n \in Nat /\ n \in 0 .. n /\ 0 \in 0 .. n /\ n # 0
    BY TapeAssumption
<1>3. Flushed(Now) = Now /\ Now.gaps = <<>>
    BY DEF Flushed, Now, At
<1>4. 0 \in T
    BY <1>1, <1>2, <1>3 DEF Run, Start
<1>5. \A i \in 0 .. n - 1 : i \in T => i + 1 \in T
  <2> SUFFICES ASSUME NEW i \in 0 .. n - 1, P(i) PROVE i + 1 \in 0 .. n /\ P(i + 1)
      OBVIOUS
  <2>1. Onward(op, g[i], g[i + 1])
      BY <1>1 DEF Run
  <2>2. i + 1 # 0 /\ i + 1 \in 0 .. n
      BY <1>2
  <2>3. CASE i # 0
    <3>1. g[i + 1] = g[i]
        BY <2>1, <2>3 DEF Onward, Over
    <3> QED BY <2>2, <2>3, <3>1
  <2>4. CASE i = 0
    <3>1. ~Over(g[i])
        BY <2>4 DEF Over
    <3>2. g[i + 1].t = OneStep(Now, op).t /\ g[i + 1].gave = OneStep(Now, op).gave
          /\ (~Counts(g[i + 1].gave, op) => g[i + 1].left = g[i].left)
        BY <2>1, <3>1 DEF Onward
    <3>3. OneStep(Now, op).t = Now /\ OneStep(Now, op).gave = "bad"
        BY <1>3, OneStepIs
    <3>4. ~Counts("bad", op)
        BY DEF Counts
    <3> QED BY <2>2, <3>2, <3>3, <3>4
  <2> QED BY <2>3, <2>4
<1>6. \A i \in 0 .. n : i \in T
  <2> HIDE DEF T, n
  <2> QED BY <1>2, <1>4, <1>5, UpTo
<1>7. P(n) /\ Spaced(op, count) = g[n]
    BY <1>1, <1>2, <1>6 DEF Run
<1> QED BY <1>2, <1>7

\* A request that moved the head
LEMMA SpaceOn ==
    ASSUME mode # "CLOSED", UNCHANGED <<mode, disk>>,
           NEW t, ~t.d.weof, t.d.weof \in BOOLEAN, file' = t.gaps, dev' = t.d,
           NEW m \in Medium!Settled, m.recs = Recs(t.gaps), NEW n \in 1 .. CountMax,
           NEW h, h = HeadOf(t.d.pos), NEW left, reply' = [err |-> "NO_ERR", n |-> left],
           \/ /\ h = Medium!ForwardRecords(m, n)
              /\ left = n - Medium!Span(m.head, h)
           \/ /\ h = Medium!BackRecords(m, n)
              /\ left = n - Medium!Span(m.head, h)
           \/ /\ h = Medium!ForwardFiles(m, n)
              /\ left = n - Medium!Cardinality(Medium!Marks(m.recs, m.head + 1, h))
           \/ /\ h = Medium!BackFiles(m, n)
              /\ left = n - Medium!Cardinality(Medium!Marks(m.recs, h + 1, m.head))
           \/ h = 0 /\ left = 0
           \/ h = m.head /\ left = n
    PROVE  Medium!Space
<1>1. n \in Medium!Counts
    BY DEF Medium!Counts
<1>2. Medium!Goes(m, h, left)
    BY DEF Medium!Goes, Medium!Ok, Recs
<1> SUFFICES \E x \in Medium!Settled, k \in Medium!Counts :
          \/ Medium!Goes(x, Medium!ForwardRecords(x, k),
                          k - Medium!Span(x.head, Medium!ForwardRecords(x, k)))
          \/ Medium!Goes(x, Medium!BackRecords(x, k),
                          k - Medium!Span(x.head, Medium!BackRecords(x, k)))
          \/ Medium!Goes(x, Medium!ForwardFiles(x, k),
                k - Medium!Cardinality(
                       Medium!Marks(x.recs, x.head + 1, Medium!ForwardFiles(x, k))))
          \/ Medium!Goes(x, Medium!BackFiles(x, k),
                k - Medium!Cardinality(
                       Medium!Marks(x.recs, Medium!BackFiles(x, k) + 1, x.head)))
          \/ Medium!Goes(x, 0, 0)
          \/ Medium!Goes(x, x.head, k)
    BY Zenon DEF Medium!Space
<1> WITNESS m \in Medium!Settled, n \in Medium!Counts
<1> QED BY <1>2

LEMMA SpaceMedium ==
    ASSUME TapeInv, Space
    PROVE  Medium!Next
<1>1. CASE mode = "CLOSED"
    BY <1>1, RefusesAs DEF Space
<1>2. ASSUME NEW op \in Motion, NEW n \in 1 .. CountMax, mode # "CLOSED",
             LET s == Spaced(op, n)
             IN  /\ Becomes(s.t)
                 /\ IF s.gave = "bad" THEN Replies("IO_ERR", s.left)
                                      ELSE Replies("NO_ERR", s.left),
             UNCHANGED <<mode, disk>>
      PROVE  Medium!Next
  <2> DEFINE s == Spaced(op, n)
             m == Flushed(Now)
             M == Med(m)
             h == HeadOf(s.t.d.pos)
  <2>1. /\ n \in Nat /\ n # 0 /\ Good(Now) /\ (mode = "RDWR" => file # <<>>)
        /\ Now.gaps = file /\ Now.d = dev
      BY <1>2, OpenIs
  <2>2. /\ file' = s.t.gaps /\ dev' = s.t.d
        /\ IF s.gave = "bad" THEN Replies("IO_ERR", s.left) ELSE Replies("NO_ERR", s.left)
      BY <1>2 DEF Becomes
  <2>3. CASE file = <<>>
    <3>1. mode # "RDWR" /\ ~dev.weof
        BY <2>1, <2>3 DEF TapeInv
    <3>2. s.t = Now /\ s.left = n /\ s.gave = "bad"
        BY <2>1, <2>3, <3>1, SpacedBlank
    <3> HIDE DEF s
    <3>3. Replies("IO_ERR", n) /\ file' = file /\ dev' = dev /\ n \in 0 .. CountMax
        BY <2>1, <2>2, <3>2
    <3>4. mode = "READ"
        BY <1>2, <3>1 DEF TapeInv
    <3>5. Medium!Blank
        BY <1>2, <2>3, <3>3, <3>4 DEF Medium!Blank, Medium!Error, Replies
    <3> QED BY <3>5 DEF Medium!Next, Medium!Fails
  <2>4. CASE file # <<>>
    <3>1. /\ Len(Recs(m.gaps)) \in Nat /\ HeadOf(m.d.pos) \in 0 .. Len(Recs(m.gaps))
          /\ Good(s.t) /\ ~s.t.d.weof /\ s.t.gaps = m.gaps
          /\ s.left \in Nat /\ (s.left = 0 \/ s.gave = "none")
          /\ Moves(op, n, Recs(m.gaps), HeadOf(m.d.pos), HeadOf(s.t.d.pos), s.left, s.gave)
        BY <2>1, <2>4, SpacedMoves
    <3>2. M \in Medium!Settled
        BY <1>2, SettledIs
    <3>3. M.recs = Recs(m.gaps) /\ M.head = HeadOf(m.d.pos) /\ M.recs = Recs(s.t.gaps)
        BY <3>1 DEF Med
    <3>4. s.gave # "bad" /\ s.t.d.weof \in BOOLEAN
        BY <3>1 DEF Moves, Good, DevType
    <3> HIDE DEF s, M, m
    <3>5. /\ Len(M.recs) \in Nat /\ M.head \in 0 .. Len(M.recs) /\ s.left \in Nat
          /\ Moves(op, n, M.recs, M.head, h, s.left, s.gave)
        BY <3>1, <3>3
    <3> DEFINE left == s.left
               gave == s.gave
    <3>6. /\ ~s.t.d.weof /\ s.t.d.weof \in BOOLEAN /\ M.recs = Recs(s.t.gaps)
          /\ h = HeadOf(s.t.d.pos) /\ file' = s.t.gaps /\ dev' = s.t.d
          /\ reply' = [err |-> "NO_ERR", n |-> left] /\ UNCHANGED <<mode, disk>>
        BY <1>2, <2>2, <3>1, <3>3, <3>4 DEF Replies
    <3>7. left \in Nat /\ Moves(op, n, M.recs, M.head, h, left, gave) /\ (left = 0 \/ gave = "none")
        BY <3>1, <3>5
    <3> HIDE DEF h, left, gave
    <3>8. \/ /\ h = Medium!ForwardRecords(M, n)
             /\ left = n - Medium!Span(M.head, h)
          \/ /\ h = Medium!BackRecords(M, n)
             /\ left = n - Medium!Span(M.head, h)
          \/ /\ h = Medium!ForwardFiles(M, n)
             /\ left = n - Medium!Cardinality(Medium!Marks(M.recs, M.head + 1, h))
          \/ /\ h = Medium!BackFiles(M, n)
             /\ left = n - Medium!Cardinality(Medium!Marks(M.recs, h + 1, M.head))
        BY <2>1, <3>5, <3>7, MovesGo
    <3>9. n \in Medium!Counts
        BY DEF Medium!Counts
    <3>10. Medium!Space
      <4>1. CASE h = Medium!ForwardRecords(M, n) /\ left = n - Medium!Span(M.head, h)
          BY <1>2, <3>2, <3>6, <4>1, SpaceOn
      <4>2. CASE h = Medium!BackRecords(M, n) /\ left = n - Medium!Span(M.head, h)
          BY <1>2, <3>2, <3>6, <4>2, SpaceOn
      <4>3. CASE /\ h = Medium!ForwardFiles(M, n)
                 /\ left = n - Medium!Cardinality(Medium!Marks(M.recs, M.head + 1, h))
          BY <1>2, <3>2, <3>6, <4>3, SpaceOn
      <4>4. CASE /\ h = Medium!BackFiles(M, n)
                 /\ left = n - Medium!Cardinality(Medium!Marks(M.recs, h + 1, M.head))
          BY <1>2, <3>2, <3>6, <4>4, SpaceOn
      <4> QED BY <3>8, <4>1, <4>2, <4>3, <4>4
    <3> QED BY <3>10 DEF Medium!Next
  <2> QED BY <2>3, <2>4
<1> QED BY <1>1, <1>2 DEF Space

-----------------------------------------------------------------------------
(* The other requests, as a drive has them.                                 *)

\* Rewinding and going off line first put the mark that is due
LEMMA RewindMedium ==
    ASSUME TapeInv, Rewind \/ Offline
    PROVE  Medium!Next
<1> DEFINE m == Flushed(Now)
           M == Med(m)
<1>1. mode # "CLOSED" /\ UNCHANGED <<mode, disk>>
    BY DEF Rewind, Offline
<1>2. Good(Now) /\ (mode = "RDWR" => Now.gaps # <<>>)
    BY <1>1, OpenIs
<1>3. Good(m) /\ ~m.d.weof /\ m.d \in DevType
    BY <1>2, FlushedIs DEF Good
<1>4. M \in Medium!Settled
    BY <1>1, SettledIs
<1>5. M.recs = Recs(m.gaps) /\ M.head = HeadOf(m.d.pos)
    BY DEF Med
<1>6. CASE Offline
  <2>1. PICK n \in 1 .. CountMax : reply' = [err |-> "NO_ERR", n |-> n]
      BY <1>6 DEF Offline, Replies
  <2>2. file' = m.gaps /\ dev' = m.d
      BY <1>6 DEF Offline, Becomes
  <2> DEFINE h == M.head
             left == n
  <2>3. /\ h = HeadOf(m.d.pos) /\ reply' = [err |-> "NO_ERR", n |-> left] /\ h = M.head /\ left = n
        /\ m.d.weof \in BOOLEAN
      BY <1>3, <1>5, <2>1 DEF DevType
  <2> HIDE DEF h, left, M, m
  <2>4. Medium!Space
      BY <1>1, <1>3, <1>4, <1>5, <2>2, <2>3, SpaceOn
  <2> QED BY <2>4 DEF Medium!Next
<1>7. CASE Rewind
  <2> DEFINE d == [m.d EXCEPT !.pos = 2, !.fnum = 0, !.block = 0]
             t == At(m.gaps, d)
             h == 0
             left == 0
  <2>1. file' = m.gaps /\ dev' = d /\ reply' = [err |-> "NO_ERR", n |-> left]
      BY <1>7 DEF Rewind, Becomes, At, Replies
  <2> HIDE DEF M, m
  <2>2. d.pos = 2 /\ d.weof = m.d.weof /\ d.weof \in BOOLEAN
      BY <1>3 DEF DevType
  <2> HIDE DEF d
  <2>3. t.gaps = m.gaps /\ t.d = d /\ h = HeadOf(2)
      BY HeadIs DEF At
  <2>4. 1 \in 1 .. CountMax
      BY TapeAssumption
  <2>5. h = 0 /\ left = 0
      OBVIOUS
  <2>6. /\ ~t.d.weof /\ t.d.weof \in BOOLEAN /\ h = HeadOf(t.d.pos) /\ M.recs = Recs(t.gaps)
        /\ file' = t.gaps /\ dev' = t.d
      BY <1>3, <1>5, <2>1, <2>2, <2>3
  <2> HIDE DEF t, h, left
  <2>7. Medium!Space
      BY <1>1, <1>4, <2>1, <2>4, <2>5, <2>6, SpaceOn
  <2> QED BY <2>7 DEF Medium!Next
<1> QED BY <1>6, <1>7

LEMMA OpenMedium ==
    ASSUME TapeInv, Open
    PROVE  Medium!Next
<1>1. CASE mode # "CLOSED"
    BY <1>1, RefusesAs DEF Open
<1>2. CASE mode = "CLOSED" /\ Refused("DEVICE_BUSY_ERR")
    BY <1>2, RefusesAs
<1>3. ASSUME NEW m \in {"READ", "RDWR"},
             mode = "CLOSED",
             IF file = <<>>
             THEN IF m = "RDWR"
                  THEN Becomes(At(<<Gap("BOT", 0, 0), Gap("EOT", 0, 0)>>, Fresh(2)))
                  ELSE Becomes(At(file, Fresh(1)))
             ELSE Becomes(At(file, Fresh(IF disk.link = NoLink THEN 2 ELSE disk.link))),
             mode' = m, disk' = [lock |-> TRUE, link |-> NoLink],
             Replies("NO_ERR", 0)
      PROVE  Medium!Next
  <2> DEFINE blank == <<Gap("BOT", 0, 0), Gap("EOT", 0, 0)>>
  <2>1. ~dev.weof /\ disk.link \in Nat
      BY <1>3 DEF TapeInv, Fresh
  <2>2. HeadOf(0) = 0 /\ HeadOf(1) = 0 /\ HeadOf(2) = 0
      BY HeadIs
  <2>3. Recs(file') = Recs(file) /\ HeadOf(dev'.pos) = HeadOf(disk.link) /\ ~dev'.weof
        /\ dev'.weof \in BOOLEAN
    <3>1. CASE file = <<>>
      <4>1. disk.link \in {0, 1, 2}
          BY <3>1 DEF TapeInv, OnGap, NoLink
      <4>2. HeadOf(disk.link) = 0
          BY <2>2, <4>1
      <4>3. CASE m = "RDWR"
        <5>1. file' = blank /\ dev'.pos = 2 /\ dev'.weof = FALSE
            BY <1>3, <3>1, <4>3 DEF Becomes, At, Fresh
        <5>2. Recs(blank) = <<>>
          <6>1. Len(blank) = 2 /\ blank # <<>>
              OBVIOUS
          <6> HIDE DEF blank
          <6>2. Recs(blank) = [i \in 1 .. 0 |-> blank[i + 1].size]
              BY <6>1 DEF Recs
          <6>3. [i \in 1 .. 0 |-> blank[i + 1].size] = <<>>
              OBVIOUS
          <6> QED BY <6>2, <6>3
        <5>3. Recs(file) = <<>>
            BY <3>1 DEF Recs
        <5> HIDE DEF blank
        <5> QED BY <2>2, <4>2, <5>1, <5>2, <5>3
      <4>4. CASE m # "RDWR"
        <5>1. file' = file /\ dev'.pos = 1 /\ dev'.weof = FALSE
            BY <1>3, <3>1, <4>4 DEF Becomes, At, Fresh
        <5> QED BY <2>2, <4>2, <5>1
      <4> QED BY <4>3, <4>4
    <3>2. CASE file # <<>>
      <4>1. file' = file /\ dev'.weof = FALSE
            /\ dev'.pos = IF disk.link = NoLink THEN 2 ELSE disk.link
          BY <1>3, <3>2 DEF Becomes, At, Fresh
      <4> QED BY <2>2, <4>1 DEF NoLink
    <3> QED BY <3>1, <3>2
  <2>4. dev'.weof = dev.weof /\ mode' # "CLOSED" /\ mode' \in {"READ", "RDWR"}
        /\ dev.weof \in BOOLEAN
      BY <1>3, <2>1, <2>3 DEF TapeInv, DevType
  <2>5. Medium!Open
      BY <1>3, <2>3, <2>4 DEF Medium!Open, Recs, Replies, Medium!Ok
  <2> QED BY <2>5 DEF Medium!Next
<1> QED BY <1>1, <1>2, <1>3 DEF Open

LEMMA CloseMedium ==
    ASSUME TapeInv, Close
    PROVE  Medium!Next
<1>1. CASE mode = "CLOSED"
    BY <1>1, RefusesAs DEF Close
<1>2. CASE mode # "CLOSED"
  <2> DEFINE M == Med(Flushed(Now))
  <2>1. M \in Medium!Settled
      BY <1>2, SettledIs
  <2>2. /\ mode' = "CLOSED" /\ file' = Flushed(Now).gaps /\ dev' = Fresh(1)
        /\ disk'.link = Flushed(Now).d.pos /\ reply' = [err |-> "NO_ERR", n |-> 0]
      BY <1>2 DEF Close, ClosedAs, Replies
  <2>3. M.recs = Recs(file') /\ M.head = HeadOf(disk'.link) /\ dev'.weof = FALSE
      BY <2>2 DEF Med, Fresh
  <2> HIDE DEF M
  <2>4. Medium!Close
      BY <1>2, <2>1, <2>2, <2>3 DEF Medium!Close, Medium!Ok, Recs
  <2> QED BY <2>4 DEF Medium!Next
<1> QED BY <1>1, <1>2

LEMMA VanishMedium ==
    ASSUME TapeInv, Vanish
    PROVE  Medium!Next
<1>1. /\ mode # "CLOSED" /\ mode' = "CLOSED" /\ dev' = Fresh(1)
      /\ UNCHANGED <<file, disk, reply>> /\ disk.link = 0
    BY OpenIs DEF Vanish, NoLink
<1>2. HeadOf(disk'.link) = 0 /\ dev'.weof = FALSE
    BY <1>1, HeadIs DEF Fresh
<1>3. Medium!Vanish
    BY <1>1, <1>2 DEF Medium!Vanish
<1> QED BY <1>3 DEF Medium!Next

LEMMA UnlockMedium ==
    ASSUME TapeInv, Unlock \/ UNCHANGED vars
    PROVE  UNCHANGED Medium!vars
<1>1. UNCHANGED <<file, dev, mode, reply>> /\ disk'.link = disk.link
    BY DEF Unlock, vars, TapeInv
<1> QED BY <1>1 DEF Medium!vars

\* A tape on which a request has put k marks
Laid(t, k) ==
    /\ Good(t) /\ t.gaps # <<>> /\ t.d.pos = dev.pos + k
    /\ k = 0 => t.gaps = file
    /\ k # 0 => Len(t.gaps) = dev.pos + k
    /\ \A i \in 1 .. dev.pos - 1 : t.gaps[i] = file[i]
    /\ \A i \in 1 .. k : t.gaps[(dev.pos - 1) + i].size = 0

LEMMA MarkLaid ==
    ASSUME dev.pos \in Nat \ {0}, mode = "RDWR", NEW k \in Nat, NEW t, Laid(t, k)
    PROVE  /\ MarkFits(t) => Laid(WriteMark(t), k + 1)
           /\ ~MarkFits(t) => Laid(WriteMark(t), k)
           /\ ~WriteMark(t).d.weof
<1> DEFINE m == WriteMark(t)
           p == dev.pos
<1>1. Good(t) /\ t.gaps # <<>> /\ t.d.pos = p + k /\ t.d \in DevType
    BY DEF Laid, Good
<1>2. /\ Good(m) /\ ~m.d.weof /\ m.gaps # <<>>
      /\ \/ MarkFits(t) /\ m = Marked(t)
         \/ ~MarkFits(t) /\ m.gaps = t.gaps /\ m.d = [t.d EXCEPT !.weof = FALSE]
    BY <1>1, MarkIs
<1>3. CASE MarkFits(t)
  <2> DEFINE q == t.d.pos
             x == Marked(t)
  <2>1. /\ Len(x.gaps) = q + 1 /\ x.d.pos = q + 1
        /\ \A i \in 1 .. q - 1 : x.gaps[i] = t.gaps[i]
        /\ x.gaps[q].size = 0
      BY <1>1, <1>3, MarkedIs
  <2>2. m = x
      BY <1>2, <1>3
  <2>3. /\ Len(m.gaps) = (p + k) + 1 /\ m.d.pos = (p + k) + 1
        /\ \A i \in 1 .. (p + k) - 1 : m.gaps[i] = t.gaps[i]
        /\ m.gaps[p + k].size = 0
      BY <1>1, <2>1, <2>2
  <2> HIDE DEF m, q, x
  <2>4. /\ \A i \in 1 .. p - 1 : t.gaps[i] = file[i]
        /\ \A i \in 1 .. k : t.gaps[(p - 1) + i].size = 0
      BY DEF Laid
  <2> HIDE DEF p
  <2>5. p \in Nat \ {0}
      BY DEF p
  <2>6. \A i \in 1 .. p - 1 : m.gaps[i] = file[i]
      BY <2>3, <2>4, <2>5
  <2>7. \A i \in 1 .. k + 1 : m.gaps[(p - 1) + i].size = 0
    <3> SUFFICES ASSUME NEW i \in 1 .. k + 1 PROVE m.gaps[(p - 1) + i].size = 0
        OBVIOUS
    <3> DEFINE j == (p - 1) + i
    <3>1. i = k + 1 => j = p + k
        BY <2>5
    <3>2. i # k + 1 => i \in 1 .. k /\ j \in 1 .. (p + k) - 1
        BY <2>5
    <3>3. i # k + 1 => t.gaps[j].size = 0
        BY <2>4, <3>2
    <3> HIDE DEF j
    <3>4. i # k + 1 => m.gaps[j] = t.gaps[j]
        BY <2>3, <3>2
    <3>5. m.gaps[j].size = 0
        BY <2>3, <3>1, <3>3, <3>4
    <3> QED BY <3>5 DEF j
  <2>8. k + 1 # 0 /\ (p + k) + 1 = p + (k + 1)
      BY <2>5
  <2>9. Laid(m, k + 1)
      BY <1>2, <2>3, <2>6, <2>7, <2>8 DEF Laid, p
  <2> QED BY <1>2, <1>3, <2>9 DEF m
<1>4. CASE ~MarkFits(t)
  <2>1. m.gaps = t.gaps /\ m.d.pos = t.d.pos
      BY <1>1, <1>2, <1>4 DEF DevType
  <2> HIDE DEF m
  <2>2. Laid(m, k)
      BY <1>2, <2>1 DEF Laid
  <2> QED BY <1>2, <1>4, <2>2 DEF m
<1> QED BY <1>3, <1>4

\* The marks, on the medium
LEMMA LaidRecs ==
    ASSUME Sound(file), dev.pos \in 2 .. Len(file), NEW k \in Nat, NEW t, Laid(t, k),
           k = 0 => dev.pos = Len(file)
    PROVE  /\ Recs(t.gaps) = SubSeq(Recs(file), 1, HeadOf(dev.pos)) \o [i \in 1 .. k |-> 0]
           /\ HeadOf(t.d.pos) = HeadOf(dev.pos) + k
<1> DEFINE p == dev.pos
           g == t.gaps
           new == [i \in 1 .. k |-> 0]
<1>1. new \in Seq(Nat) /\ Len(new) = k /\ \A i \in 1 .. k : new[i] = 0
    OBVIOUS
<1>2. /\ Sound(g) /\ Len(g) = p + k /\ t.d.pos = p + k
      /\ \A i \in 1 .. p - 1 : g[i] = file[i]
      /\ \A i \in 1 .. k : g[(p - 1) + i].size = 0
  <2>1. Len(g) = p + k
    <3>1. CASE k = 0
      <4>1. g = file /\ p = Len(file) /\ p \in Nat
          BY <3>1 DEF Laid, Sound
      <4> HIDE DEF g, p
      <4> QED BY <3>1, <4>1
    <3>2. CASE k # 0
        BY <3>2 DEF Laid
    <3> QED BY <3>1, <3>2
  <2> QED BY <2>1 DEF Laid, Good
<1>3. p \in 2 .. Len(file)
    OBVIOUS
<1> HIDE DEF p, g, new
<1>4. Put(file, p, g, new)
    BY <1>1, <1>2, <1>3 DEF Put
<1>5. Recs(g) = Onto(file, p, new)
    BY <1>4, PutRecs
<1>6. HeadOf(p + k) = HeadOf(p) + k
  <2>1. p \in Nat /\ p >= 2
      BY <1>3
  <2> QED BY <2>1, HeadMoves
<1> QED BY <1>2, <1>5, <1>6 DEF p, g, new, Onto

\* Those that did not fit, one request further
LEMMA UnfitNext ==
    ASSUME NEW f, NEW i \in Nat, IsFiniteSet(Unfit(f, i))
    PROVE  /\ MarkFits(f[i]) => Unfit(f, i + 1) = Unfit(f, i)
           /\ ~MarkFits(f[i]) =>
                 /\ IsFiniteSet(Unfit(f, i + 1))
                 /\ Cardinality(Unfit(f, i + 1)) = Cardinality(Unfit(f, i)) + 1
<1> DEFINE j == i + 1
           u == Unfit(f, i)
<1>1. 1 .. j = (1 .. i) \cup {j} /\ j \notin 1 .. i /\ j - 1 = i
    OBVIOUS
<1> HIDE DEF j
<1>2. MarkFits(f[i]) => Unfit(f, j) = u
    BY <1>1 DEF Unfit
<1>3. ~MarkFits(f[i]) => Unfit(f, j) = u \cup {j}
    BY <1>1 DEF Unfit
<1>4. j \notin u
    BY <1>1 DEF Unfit
<1> HIDE DEF u
<1>5. IsFiniteSet(u)
    BY DEF u
<1>6. IsFiniteSet(u \cup {j}) /\ Cardinality(u \cup {j}) = Cardinality(u) + 1
    BY <1>4, <1>5, FS_AddElement
<1> QED BY <1>2, <1>3, <1>6 DEF u, j

\* The request has put k marks, and the others did not fit
LEMMA MarksLaid ==
    ASSUME TapeInv, mode = "RDWR", NEW n \in Nat \ {0}, NEW f, f[0] = Now,
           \A i \in 1 .. n : f[i] = WriteMark(f[i - 1])
    PROVE  \E k \in 0 .. n : /\ Laid(f[n], k) /\ ~f[n].d.weof
                             /\ IsFiniteSet(Unfit(f, n))
                             /\ Cardinality(Unfit(f, n)) = n - k
<1> DEFINE Q(i, k) == Laid(f[i], k) /\ IsFiniteSet(Unfit(f, i))
                      /\ Cardinality(Unfit(f, i)) = i - k
           P(i) == (\E k \in 0 .. i : Q(i, k)) /\ (i # 0 => ~f[i].d.weof)
           T == {i \in 0 .. n : P(i)}
<1>1. /\ Good(Now) /\ Now.gaps = file /\ Now.d = dev /\ file # <<>> /\ dev.pos \in 2 .. Len(file)
      /\ dev.pos \in Nat \ {0}
  <2>1. Good(Now) /\ Now.gaps = file /\ Now.d = dev /\ file # <<>>
      BY OpenIs
  <2>2. dev.pos \in 2 .. Len(file) /\ Len(file) \in Nat
      BY <2>1, GoodIs
  <2> QED BY <2>1, <2>2
<1>2. 0 \in T
  <2>1. Laid(Now, 0)
      BY <1>1 DEF Laid
  <2>2. Unfit(f, 0) = {}
      BY DEF Unfit
  <2>3. IsFiniteSet({}) /\ Cardinality({}) = 0
      BY FS_EmptySet
  <2> QED BY <2>1, <2>2, <2>3
<1>3. \A i \in 0 .. n - 1 : i \in T => i + 1 \in T
  <2> SUFFICES ASSUME NEW i \in 0 .. n - 1, P(i) PROVE P(i + 1)
      OBVIOUS
  <2> DEFINE j == i + 1
  <2>1. j \in 1 .. n /\ j - 1 = i /\ i \in Nat /\ j # 0
      OBVIOUS
  <2>2. f[j] = WriteMark(f[i])
      BY <2>1
  <2>3. PICK k \in 0 .. i : Q(i, k)
      OBVIOUS
  <2>4. /\ MarkFits(f[i]) => Unfit(f, j) = Unfit(f, i)
        /\ ~MarkFits(f[i]) =>
              /\ IsFiniteSet(Unfit(f, j))
              /\ Cardinality(Unfit(f, j)) = Cardinality(Unfit(f, i)) + 1
      BY <2>1, <2>3, UnfitNext
  <2>5. k \in Nat /\ k \in 0 .. j /\ k + 1 \in 0 .. j
        /\ j - (k + 1) = i - k /\ j - k = (i - k) + 1
      OBVIOUS
  <2>6. /\ MarkFits(f[i]) => Laid(f[j], k + 1)
        /\ ~MarkFits(f[i]) => Laid(f[j], k)
        /\ ~f[j].d.weof
      BY <1>1, <2>2, <2>3, <2>5, MarkLaid
  <2> HIDE DEF j
  <2>7. CASE MarkFits(f[i])
    <3>1. Q(j, k + 1)
        BY <2>3, <2>4, <2>5, <2>6, <2>7
    <3>2. P(j)
        BY <2>5, <2>6, <3>1
    <3> QED BY <3>2 DEF j
  <2>8. CASE ~MarkFits(f[i])
    <3>1. Q(j, k)
        BY <2>3, <2>4, <2>5, <2>6, <2>8
    <3>2. P(j)
        BY <2>5, <2>6, <3>1
    <3> QED BY <3>2 DEF j
  <2> QED BY <2>7, <2>8
<1>4. \A i \in 0 .. n : i \in T
  <2> HIDE DEF T
  <2> QED BY <1>2, <1>3, UpTo
<1>5. P(n) /\ n # 0
    BY <1>4
<1> QED BY <1>5

LEMMA WriteMarksMedium ==
    ASSUME TapeInv, WriteMarks
    PROVE  Medium!Next
<1>1. CASE mode # "RDWR"
  <2>1. \/ mode = "CLOSED" /\ Refused("DEV_NOT_OPEN_ERR")
        \/ mode = "READ" /\ Refused("PERMISSION_ERR")
      BY <1>1 DEF WriteMarks
  <2> QED BY <2>1, RefusesAs
<1>2. CASE mode = "RDWR"
  <2>1. PICK n \in 1 .. CountMax : \E f : MarksWritten(f, n)
      BY <1>2, MarksAre
  <2>2. PICK f : MarksWritten(f, n)
      BY <2>1
  <2>3. Good(Now) /\ file # <<>> /\ n \in Nat \ {0} /\ n \in Nat /\ Sound(file) /\ Now.gaps = file
        /\ Now.d = dev
      BY <1>2, OpenIs DEF TapeInv
  <2>4. dev.pos \in 2 .. Len(file)
      BY <2>3, GoodIs
  <2>5. PICK k \in 0 .. n : /\ Laid(f[n], k) /\ ~f[n].d.weof
                            /\ IsFiniteSet(Unfit(f, n))
                            /\ Cardinality(Unfit(f, n)) = n - k
      BY <1>2, <2>2, <2>3, MarksLaid DEF MarksWritten
  <2> DEFINE t == f[n]
             u == Unfit(f, n)
             c == Cardinality(u)
  <2>6. /\ file' = t.gaps /\ dev' = t.d /\ UNCHANGED <<mode, disk>>
        /\ IF u = {} THEN Replies("NO_ERR", 0) ELSE Replies("IO_ERR", c)
      BY <2>2 DEF MarksWritten, Becomes
  <2>7. k \in Nat /\ k \in 0 .. n /\ t.d.weof \in BOOLEAN /\ dev.weof \in BOOLEAN
        /\ n \in Medium!Counts
      BY <2>1, <2>3, <2>5, TapeAssumption
         DEF Laid, Good, DevType, TapeInv, Medium!Counts
  <2>8. c = n - k /\ (u = {} <=> c = 0)
    <3>1. IsFiniteSet(u) /\ c = n - k
        BY <2>5
    <3> HIDE DEF u
    <3>2. c = 0 <=> u = {}
        BY <3>1, FS_EmptySet
    <3> QED BY <3>1, <3>2
  <2> HIDE DEF t, u, c
  <2>9. (u = {} <=> k = n) /\ (k # n => k \in 0 .. n - 1)
      BY <2>3, <2>7, <2>8
  <2>10. CASE k # 0
    <3>1. /\ Recs(file') = SubSeq(Recs(file), 1, HeadOf(dev.pos)) \o [i \in 1 .. k |-> 0]
          /\ HeadOf(dev'.pos) = HeadOf(dev.pos) + k /\ dev'.weof = FALSE
        BY <2>3, <2>4, <2>5, <2>6, <2>7, <2>10, LaidRecs DEF t
    <3>2. CASE u = {}
      <4>1. Medium!WriteMarks
          BY <1>2, <2>6, <2>7, <2>9, <3>1, <3>2
             DEF Medium!WriteMarks, Medium!Kept, Medium!Mark, Medium!Ok, Recs, Replies
      <4> QED BY <4>1 DEF Medium!Next
    <3>3. CASE u # {}
      <4>1. k \in 0 .. n - 1 /\ Replies("IO_ERR", n - k)
          BY <2>6, <2>8, <2>9, <3>3
      <4>2. Medium!MarksFail
          BY <1>2, <2>6, <2>7, <2>10, <3>1, <4>1
             DEF Medium!MarksFail, Medium!Kept, Medium!Mark, Medium!Error, Recs, Replies
      <4> QED BY <4>2 DEF Medium!Next, Medium!Fails
    <3> QED BY <3>2, <3>3
  <2>11. CASE k = 0
    <3>1. u # {} /\ 0 \in 0 .. n - 1 /\ n - 0 = n
        BY <2>3, <2>7, <2>9, <2>11
    <3>2. file' = file /\ HeadOf(dev'.pos) = HeadOf(dev.pos) /\ dev'.weof = FALSE
      <4>1. t.gaps = file /\ t.d.pos = dev.pos + 0 /\ ~t.d.weof /\ dev.pos \in Nat
          BY <2>4, <2>5, <2>11 DEF Laid, t
      <4> QED BY <2>6, <2>7, <4>1
    <3>3. HeadOf(dev.pos) + 0 = HeadOf(dev.pos)
      <4>1. dev.pos \in Nat
          BY <2>4
      <4>2. HeadOf(dev.pos) \in Nat
          BY <4>1, HeadIs
      <4> QED BY <4>2
    <3>4. reply' = [err |-> "IO_ERR", n |-> n - 0]
        BY <2>6, <2>8, <2>11, <3>1 DEF Replies
    <3>5. Medium!MarksFail
        BY <1>2, <2>6, <2>7, <3>1, <3>2, <3>3, <3>4
           DEF Medium!MarksFail, Medium!Error
    <3> QED BY <3>5 DEF Medium!Next, Medium!Fails
  <2> QED BY <2>10, <2>11
<1> QED BY <1>1, <1>2

\* A record behind what is kept
LEMMA AppendIs ==
    ASSUME Sound(file), file # <<>>, NEW p \in 2 .. Len(file), NEW x \in Nat
    PROVE  Append(SubSeq(Recs(file), 1, HeadOf(p)), x)
              = SubSeq(Recs(file), 1, HeadOf(p)) \o <<x>>
<1> DEFINE r == Recs(file)
           h == HeadOf(p)
           q == SubSeq(r, 1, h)
<1>1. r \in Seq(Nat) /\ h \in Nat /\ h <= Len(r)
  <2>1. r \in Seq(Nat) /\ Len(r) = Len(file) - 2 /\ Len(file) \in Nat
      BY RecsIs DEF Sound
  <2>2. p \in Nat /\ p >= 2
      BY <2>1
  <2>3. h = p - 2 /\ h \in Nat
      BY <2>2, HeadIs
  <2> HIDE DEF r, h
  <2> QED BY <2>1, <2>2, <2>3
<1> HIDE DEF r, h
<1>2. \A i \in 1 .. h : r[i] \in Nat
    BY <1>1
<1>3. q \in Seq(Nat)
    BY <1>1, <1>2, SubSeqProperties
<1> HIDE DEF q
<1>4. Append(q, x) = q \o <<x>>
    BY <1>3
<1> QED BY <1>4 DEF q, r, h

\* ndmos_tape_write(): a record behind the head and nothing behind that
LEMMA WrittenMedium ==
    ASSUME TapeInv, mode = "RDWR", NEW size \in Sizes, ~PastPhysicalEnd(Now, size),
           Becomes(Written(Now, size)), Replies("NO_ERR", size), UNCHANGED <<mode, disk>>
    PROVE  Medium!Next
<1> DEFINE p == dev.pos
           g == SubSeq(file, 1, p - 1)
                   \o <<Gap("DATA", file[p].prev, size), Gap("EOT", size, 0)>>
           new == <<size>>
<1>1. /\ Good(Now) /\ file # <<>> /\ Now.gaps = file /\ Now.d = dev /\ dev \in DevType
      /\ Sound(file) /\ size \in Nat \ {0} /\ file \in Seq(GapKind)
    BY OpenIs, TapeAssumption DEF TapeInv, Sound
<1>2. p \in 2 .. Len(file) /\ p \in 1 .. Len(file) /\ p \in Nat
  <2>1. p \in 2 .. Len(file) /\ Len(file) \in Nat
      BY <1>1, GoodIs
  <2> QED BY <2>1
<1>3. p <= Limit
  <2>1. ~ (Offset(file, p) + 1 + size > Limit)
      BY <1>1 DEF PastPhysicalEnd, GapSize
  <2>2. Offset(file, p) \in Nat /\ Offset(file, p) >= p - 1
      BY <1>1, <1>2, OffsetIs
  <2> QED BY <1>1, <1>2, <2>1, <2>2, TapeAssumption
<1>4. file' = g /\ dev'.pos = p + 1 /\ dev'.weof = TRUE
  <2>1. file' = g /\ dev' = [dev EXCEPT !.pos = @ + 1, !.block = @ + 1, !.weof = TRUE]
      BY <1>1 DEF Becomes, Written, At, Before, Here
  <2> HIDE DEF g
  <2> QED BY <1>1, <2>1 DEF DevType
<1>5. /\ Sound(g) /\ Len(g) = p + 1
      /\ \A i \in 1 .. p - 1 : g[i] = file[i]
      /\ g[p] = Gap("DATA", file[p].prev, size)
  <2> HIDE DEF p, g
  <2> DEFINE h == SubSeq(file, 1, p - 1)
                     \o <<Gap("DATA", file[p].prev, size), Gap("EOT", size, 0)>>
  <2>1. "DATA" \in {"DATA", "FILE"} /\ size \in Sizes \cup {0} /\ ("DATA" = "DATA" <=> size # 0)
      BY <1>1
  <2>2. /\ Sound(h) /\ Len(h) = p + 1
        /\ \A i \in 1 .. p - 1 : h[i] = file[i]
        /\ h[p] = Gap("DATA", file[p].prev, size)
      BY <1>1, <1>2, <1>3, <2>1, WrittenSound
  <2> QED BY <2>2 DEF g, p
<1>6. g[p].size = size
  <2> HIDE DEF g
  <2> QED BY <1>5 DEF Gap
<1>7. Put(file, p, g, new)
  <2>1. new \in Seq(Nat) /\ Len(new) = 1 /\ new[1] = size
      BY <1>1
  <2>2. \A i \in 1 .. 1 : i = 1 /\ p - 1 + i = p
      BY <1>2
  <2> HIDE DEF g, new, p
  <2> QED BY <1>1, <1>2, <1>5, <1>6, <2>1, <2>2 DEF Put
<1>8. Recs(g) = Onto(file, p, new) /\ HeadOf(p + 1) = HeadOf(p) + 1
  <2> HIDE DEF g, new, p
  <2>1. Recs(g) = Onto(file, p, new)
      BY <1>7, PutRecs
  <2>2. HeadOf(p + 1) = HeadOf(p) + 1
      BY <1>2, HeadMoves
  <2> QED BY <2>1, <2>2
<1>9. Recs(g) = Append(SubSeq(Recs(file), 1, HeadOf(p)), size) /\ HeadOf(p + 1) = HeadOf(p) + 1
  <2>1. Append(SubSeq(Recs(file), 1, HeadOf(p)), size) = SubSeq(Recs(file), 1, HeadOf(p)) \o new
    <3> HIDE DEF p
    <3> QED BY <1>1, <1>2, AppendIs
  <2> HIDE DEF g, new, p
  <2> QED BY <1>8, <2>1 DEF Onto
<1> HIDE DEF g, new
<1>10. Medium!Write
    BY <1>4, <1>9 DEF Medium!Write, Medium!Kept, Medium!Ok, Recs, Replies
<1> QED BY <1>10 DEF Medium!Next

\* A write whose data does not get to the disk cuts off what was behind the head
LEMMA CutMedium ==
    ASSUME TapeInv, mode = "RDWR", Becomes(Cut(Now)), Replies("IO_ERR", 0),
           UNCHANGED <<mode, disk>>
    PROVE  Medium!Next
<1> DEFINE p == dev.pos
           g == SubSeq(file, 1, p - 1) \o <<Gap("EOT", file[p].prev, 0)>>
           new == [i \in 1 .. 0 |-> 0]
<1>1. /\ Good(Now) /\ file # <<>> /\ Now.gaps = file /\ Now.d = dev /\ dev \in DevType
      /\ Sound(file)
    BY OpenIs DEF TapeInv
<1>2. p \in 2 .. Len(file) /\ p \in Nat
  <2>1. p \in 2 .. Len(file) /\ Len(file) \in Nat
      BY <1>1, GoodIs
  <2> QED BY <2>1
<1>3. file' = g /\ dev'.pos = p /\ dev'.weof = TRUE
  <2>1. file' = g /\ dev' = [dev EXCEPT !.weof = TRUE]
      BY <1>1 DEF Becomes, Cut, At, Before, Here
  <2> HIDE DEF g
  <2> QED BY <1>1, <2>1 DEF DevType
<1>4. /\ Sound(g) /\ Len(g) = p /\ \A i \in 1 .. p - 1 : g[i] = file[i]
    BY <1>1, <1>2, CutSound
<1>5. Put(file, p, g, new)
  <2>1. new \in Seq(Nat) /\ Len(new) = 0
      OBVIOUS
  <2>2. 1 .. Len(new) = {}
      BY <2>1
  <2> HIDE DEF g, new, p
  <2> QED BY <1>1, <1>2, <1>4, <2>1, <2>2 DEF Put
<1>6. Recs(g) = SubSeq(Recs(file), 1, HeadOf(p)) \o new
  <2> HIDE DEF g, new, p
  <2>1. Recs(g) = Onto(file, p, new)
      BY <1>5, PutRecs
  <2> QED BY <2>1 DEF Onto
<1>7. HeadOf(p) + 0 = HeadOf(p)
  <2> HIDE DEF p
  <2>1. HeadOf(p) \in Nat
      BY <1>2, HeadIs
  <2> QED BY <2>1
<1> HIDE DEF g
<1>8. new = <<>>
    OBVIOUS
<1>9. Recs(g) = SubSeq(Recs(file), 1, HeadOf(p))
  <2> DEFINE r == Recs(file)
             h == HeadOf(p)
             q == SubSeq(r, 1, h)
  <2>1. r \in Seq(Nat) /\ h \in Nat /\ h <= Len(r)
    <3>1. r \in Seq(Nat) /\ Len(r) = Len(file) - 2 /\ Len(file) \in Nat
        BY <1>1, RecsIs DEF Sound
    <3>2. p \in Nat /\ p >= 2 /\ p <= Len(file)
        BY <1>2, <3>1
    <3> HIDE DEF p
    <3>3. h = p - 2 /\ h \in Nat
        BY <3>2, HeadIs
    <3> HIDE DEF r, h
    <3> QED BY <3>1, <3>2, <3>3
  <2> HIDE DEF r, h
  <2>2. \A i \in 1 .. h : r[i] \in Nat
      BY <2>1
  <2>3. q \in Seq(Nat)
      BY <2>1, <2>2, SubSeqProperties
  <2> HIDE DEF q, new
  <2>4. q \o <<>> = q
      BY <2>3
  <2> QED BY <1>6, <1>8, <2>4 DEF q, r, h
<1>10. Medium!WriteFails
    BY <1>3, <1>9 DEF Medium!WriteFails, Medium!Kept, Medium!Error, Recs, Replies
<1> QED BY <1>10 DEF Medium!Next, Medium!Fails

LEMMA WriteMedium ==
    ASSUME TapeInv, Write
    PROVE  Medium!Next
<1>1. CASE \/ mode = "CLOSED" /\ Refused("DEV_NOT_OPEN_ERR")
           \/ mode = "READ" /\ Refused("PERMISSION_ERR")
    BY <1>1, RefusesAs
<1>2. CASE /\ mode = "RDWR"
           /\ \/ Refused("IO_ERR")
              \/ /\ dev' = [dev EXCEPT !.leom = TRUE]
                 /\ Replies("EOM_ERR", 0)
                 /\ UNCHANGED <<file, mode, disk>>
  <2>1. CASE Refused("IO_ERR")
    <3>1. Medium!Refused("IO_ERR")
        BY <2>1, FailsAs DEF Refused
    <3>2. Medium!WriteFails
        BY <1>2, <3>1 DEF Medium!WriteFails
    <3> QED BY <3>2 DEF Medium!Next, Medium!Fails
  <2>2. CASE ~Refused("IO_ERR")
    <3>1. dev'.pos = dev.pos /\ dev'.weof = dev.weof
        BY <1>2, <2>2 DEF TapeInv, DevType
    <3>2. Medium!Refused("EOM_ERR")
        BY <1>2, <2>2, <3>1, FailsAs
    <3>3. Medium!Warns
        BY <1>2, <3>2 DEF Medium!Warns
    <3> QED BY <3>3 DEF Medium!Next, Medium!Fails
  <2> QED BY <2>1, <2>2
<1>3. ASSUME NEW size \in Sizes,
             mode = "RDWR", ~PastPhysicalEnd(Now, size),
             \/ Becomes(Written(Now, size)) /\ Replies("NO_ERR", size)
             \/ Becomes(Cut(Now)) /\ Replies("IO_ERR", 0),
             UNCHANGED <<mode, disk>>
      PROVE  Medium!Next
    BY <1>3, WrittenMedium, CutMedium
<1> QED BY <1>1, <1>2, <1>3 DEF Write

\* ndmos_tape_read(): data is a record, and everything else is not
LEMMA ReadMedium ==
    ASSUME TapeInv, Read
    PROVE  Medium!Next
<1>1. CASE mode = "CLOSED" /\ Refused("DEV_NOT_OPEN_ERR")
    BY <1>1, RefusesAs
<1>2. CASE mode # "CLOSED" /\ ~Readable(Now) /\ Refused("IO_ERR")
  <2>1. Good(Now) /\ Now.gaps = file /\ (mode = "RDWR" => file # <<>>)
      BY <1>2, OpenIs
  <2>2. file = <<>>
      BY <1>2, <2>1, GoodIs DEF Readable
  <2>3. mode = "READ"
      BY <1>2, <2>1, <2>2 DEF TapeInv
  <2>4. 0 \in 0 .. CountMax
      BY TapeAssumption
  <2>5. Medium!Blank
      BY <1>2, <2>2, <2>3, <2>4 DEF Medium!Blank, Medium!Error, Refused, Replies
  <2> QED BY <2>5 DEF Medium!Next, Medium!Fails
<1>3. CASE /\ mode # "CLOSED" /\ Readable(Now) /\ Here(Now).type # "DATA"
           /\ Refused("EOF_ERR")
  <2> DEFINE p == dev.pos
             h == HeadOf(p)
             r == Recs(file)
  <2>1. Good(Now) /\ Now.gaps = file /\ Now.d = dev
      BY <1>3, OpenIs
  <2>2. file # <<>> /\ Sound(file) /\ p \in 2 .. Len(file) /\ Len(file) \in Nat
      BY <1>3, <2>1, GoodIs DEF Readable, TapeInv
  <2>3. h = p - 2 /\ h \in Nat
    <3>1. p \in Nat /\ p >= 2
        BY <2>2
    <3> HIDE DEF p
    <3> QED BY <3>1, HeadIs
  <2>4. h = Len(r) \/ r[h + 1] = 0
    <3>1. /\ Len(r) = Len(file) - 2
          /\ \A i \in 1 .. Len(file) - 2 : r[i] # 0 <=> file[i + 1].type = "DATA"
        BY <2>2, RecsIs
    <3>2. file[p].type # "DATA"
        BY <1>3, <2>1 DEF Here
    <3> HIDE DEF h, r, p
    <3>3. CASE p = Len(file)
        BY <2>2, <2>3, <3>1, <3>3
    <3>4. CASE p # Len(file)
      <4>1. h + 1 \in 1 .. Len(file) - 2 /\ (h + 1) + 1 = p
          BY <2>2, <2>3, <3>4
      <4> QED BY <3>1, <3>2, <4>1
    <3> QED BY <3>3, <3>4
  <2>5. Medium!Refused("EOF_ERR")
      BY <1>3, FailsAs DEF Refused
  <2>6. Medium!ReadsNothing
      BY <1>3, <2>4, <2>5 DEF Medium!ReadsNothing, Medium!Mark, Recs
  <2> QED BY <2>6 DEF Medium!Next, Medium!Fails
<1>4. ASSUME NEW size \in Sizes,
             mode # "CLOSED", Readable(Now), Here(Now).type = "DATA",
             dev' = [dev EXCEPT !.pos = @ + 1, !.block = @ + 1],
             Replies("NO_ERR", IF size < Here(Now).size THEN size ELSE Here(Now).size),
             UNCHANGED <<file, mode, disk>>
      PROVE  Medium!Next
  <2> DEFINE p == dev.pos
             h == HeadOf(p)
             r == Recs(file)
  <2>1. Good(Now) /\ Now.gaps = file /\ Now.d = dev /\ dev \in DevType
      BY <1>4, OpenIs DEF TapeInv
  <2>2. file # <<>> /\ Sound(file) /\ p \in 2 .. Len(file) /\ Len(file) \in Nat
      BY <1>4, <2>1, GoodIs DEF Readable, TapeInv
  <2>3. p # Len(file) /\ Here(Now) = file[p]
    <3>1. p # Len(file)
        BY <1>4, <2>1, <2>2, HereIs
    <3> QED BY <2>1, <3>1 DEF Here
  <2>4. dev'.pos = p + 1 /\ dev'.weof = dev.weof
      BY <1>4, <2>1 DEF DevType
  <2>5. h = p - 2 /\ HeadOf(p + 1) = h + 1 /\ h + 1 \in 1 .. Len(file) - 2 /\ h \in Nat
        /\ (h + 1) + 1 = p
    <3> DEFINE q == p + 1
    <3>1. p \in Nat /\ p >= 2 /\ q \in Nat /\ q >= 2 /\ q - 2 = (p - 2) + 1
        BY <2>2
    <3> HIDE DEF p, q
    <3>2. HeadOf(p) = p - 2 /\ HeadOf(q) = q - 2
        BY <3>1, HeadIs
    <3>3. h = p - 2 /\ HeadOf(q) = h + 1
        BY <3>1, <3>2
    <3> HIDE DEF h
    <3> QED BY <2>2, <2>3, <3>1, <3>3 DEF q
  <2>6. /\ Len(r) = Len(file) - 2 /\ r[h + 1] = file[p].size /\ r[h + 1] # 0
    <3>1. /\ Len(r) = Len(file) - 2
          /\ \A i \in 1 .. Len(file) - 2 : /\ r[i] = file[i + 1].size
                                           /\ r[i] # 0 <=> file[i + 1].type = "DATA"
        BY <2>2, RecsIs
    <3> HIDE DEF h, r, p
    <3> QED BY <1>4, <2>3, <2>5, <3>1
  <2>7. h < Len(r) /\ HeadOf(dev'.pos) = h + 1
        /\ reply' = [err |-> "NO_ERR", n |-> IF size < r[h + 1] THEN size ELSE r[h + 1]]
    <3> HIDE DEF h, r, p
    <3> QED BY <1>4, <2>2, <2>3, <2>4, <2>5, <2>6 DEF Replies
  <2>8. Medium!Read
    <3>1. mode' # "CLOSED"
        BY <1>4
    <3>2. /\ HeadOf(dev.pos) < Len(Recs(file)) /\ Recs(file)[HeadOf(dev.pos) + 1] # 0
          /\ HeadOf(dev'.pos) = HeadOf(dev.pos) + 1
          /\ reply' = [err |-> "NO_ERR",
                       n |-> IF size < Recs(file)[HeadOf(dev'.pos)]
                             THEN size ELSE Recs(file)[HeadOf(dev'.pos)]]
        BY <2>6, <2>7
    <3> HIDE DEF p, h, r
    <3>3. \E x \in Sizes :
             reply' = [err |-> "NO_ERR", n |-> IF x < Recs(file)[HeadOf(dev'.pos)]
                                               THEN x ELSE Recs(file)[HeadOf(dev'.pos)]]
        BY <3>2
    <3>4. UNCHANGED <<file, mode, dev.weof>>
        BY <1>4, <2>4
    <3> DEFINE was == IF mode = "CLOSED" THEN HeadOf(disk.link) ELSE HeadOf(dev.pos)
               recs == IF file = <<>> THEN <<>>
                       ELSE [i \in 1 .. Len(file) - 2 |-> file[i + 1].size]
    <3>5. was = HeadOf(dev.pos) /\ was' = HeadOf(dev'.pos) /\ recs = Recs(file) /\ recs' = recs
        BY <1>4, <3>1 DEF Recs
    <3> SUFFICES /\ mode # "CLOSED" /\ was < Len(recs) /\ recs[was + 1] # 0
                 /\ was' = was + 1
                 /\ \E x \in Sizes :
                       reply' = [err |-> "NO_ERR",
                                 n |-> IF x < recs[was'] THEN x ELSE recs[was']]
                 /\ UNCHANGED <<recs, mode, dev.weof>>
        BY Zenon DEF Medium!Read, Medium!Mark, Medium!Ok
    <3> HIDE DEF was, recs
    <3> QED BY <1>4, <3>2, <3>3, <3>4, <3>5
  <2> QED BY <2>8 DEF Medium!Next
<1> QED BY <1>1, <1>2, <1>3, <1>4 DEF Read

LEMMA InitMedium == Init => Medium!Init
<1> SUFFICES ASSUME Init PROVE Medium!Init
    OBVIOUS
<1>1. HeadOf(disk.link) = 0
    BY HeadIs DEF Init, NoLink
<1>2. file = <<>> /\ mode = "CLOSED" /\ dev.weof = FALSE /\ reply = [err |-> "NO_ERR", n |-> 0]
    BY DEF Init, Fresh
<1> QED BY <1>1, <1>2 DEF Medium!Init, Medium!Ok

LEMMA StepMedium == TapeInv /\ [Next]_vars => [Medium!Next]_(Medium!vars)
<1> SUFFICES ASSUME TapeInv, [Next]_vars PROVE [Medium!Next]_(Medium!vars)
    OBVIOUS
<1>1. CASE UNCHANGED vars
    BY <1>1, UnlockMedium
<1>2. CASE Open
    BY <1>2, OpenMedium
<1>3. CASE Close
    BY <1>3, CloseMedium
<1>4. CASE Vanish
    BY <1>4, VanishMedium
<1>5. CASE Unlock
    BY <1>5, UnlockMedium
<1>6. CASE Space
    BY <1>6, SpaceMedium
<1>7. CASE Rewind \/ Offline
    BY <1>7, RewindMedium
<1>8. CASE WriteMarks
    BY <1>8, WriteMarksMedium
<1>9. CASE Write
    BY <1>9, WriteMedium
<1>10. CASE Read
    BY <1>10, ReadMedium
<1> QED BY <1>1, <1>2, <1>3, <1>4, <1>5, <1>6, <1>7, <1>8, <1>9, <1>10 DEF Next

\* The simulator is a tape drive: whatever requests come, the gaps of its file
\* are the records and marks that those requests leave on a tape, the head is
\* where they leave it, and the reply is the one a drive gives
\* (ndma_tape_simulator.c, all requests).
THEOREM TapeImplemented == Spec => BehavesAsTape
<1>1. Spec => Medium!Spec
    BY InitMedium, StepMedium, TapeInvariant, PTL DEF Spec, Medium!Spec
<1> QED BY <1>1 DEF BehavesAsTape

=============================================================================
