------------------------- MODULE FileHistoryProofs -------------------------
(***************************************************************************)
(* The heap of the file history is sound for every heap, every size of     *)
(* entry and every line, the entries are posted in order, and no line is   *)
(* skipped on its way to the heap.                                         *)
(*                                                                         *)
(* HeapOK is what ndmfhh_prepare() relies on and keeps.  That the table's  *)
(* end is the number of entries times their size, and that the heap has    *)
(* the type of its entries once it has one, is what makes its checks mean  *)
(* what they say.                                                          *)
(*                                                                         *)
(* The lines are followed by Conserved: what was given, what the channel   *)
(* holds and what the pipe holds, in this order, are what was written.     *)
(* The sequences are concatenations of parts, one for each unit or line;   *)
(* what holds of FlattenSeq of the community modules is proved from its    *)
(* definition, by induction on the length.                                 *)
(***************************************************************************)
EXTENDS FileHistory, SequenceTheorems, WellFoundedInduction, TLAPS

HeapType == [type : Kind \cup {"none"}, size : Nat, table : Seq(Line),
             entry : Nat, item : Nat, null : BOOLEAN]

TableBytes(h) == h.entry = Len(h.table) * h.size

HeapShape(h) ==
    /\ h \in HeapType
    /\ h.entry = 0 <=> h.table = <<>>
    /\ h.entry <= h.item
    /\ ~h.null
    /\ h.entry # 0 => h.type \in Kind /\ h.size = EntrySize[h.type]
    /\ \A i \in 1 .. Len(h.table) : h.table[i].kind = h.type

HeapOK(h) == HeapShape(h) /\ TableBytes(h)

Ordered ==
    /\ index \in Seq(Line)
    /\ given \in Seq(Line)
    /\ given = index \o heap.table

-----------------------------------------------------------------------------
(* The operations of the heap.                                             *)

LEMMA AppendShifts ==
    \A s \in Seq(Line), t \in Seq(Line), x \in Line :
        Append(s \o t, x) = s \o Append(t, x)
<1> DEFINE S == Line
<1> SUFFICES ASSUME NEW s \in Seq(S), NEW t \in Seq(S), NEW x \in S
             PROVE  Append(s \o t, x) = s \o Append(t, x)
  OBVIOUS
<1> HIDE DEF S
<1> DEFINE u == Append(s \o t, x)
           v == s \o Append(t, x)
<1>1. s \o t \in Seq(S) /\ Append(t, x) \in Seq(S)
  BY ConcatProperties, AppendProperties
<1>2. u \in Seq(S) /\ v \in Seq(S)
  BY <1>1, ConcatProperties, AppendProperties
<1>3. Len(u) = Len(v)
  BY <1>1, ConcatProperties, AppendProperties
<1>4. \A i \in 1 .. Len(u) : u[i] = v[i]
  <2> SUFFICES ASSUME NEW i \in 1 .. Len(u) PROVE u[i] = v[i]
    OBVIOUS
  <2>1. /\ Len(s) \in Nat /\ Len(t) \in Nat
        /\ Len(s \o t) = Len(s) + Len(t) /\ Len(Append(t, x)) = Len(t) + 1
        /\ Len(u) = Len(s) + Len(t) + 1
    BY <1>1, LenProperties, ConcatProperties, AppendProperties
  <2>2. CASE i \in 1 .. Len(s)
    <3>1. u[i] = (s \o t)[i]
      BY <1>1, <2>1, <2>2, AppendProperties
    <3>2. (s \o t)[i] = s[i]
      BY <2>1, <2>2, ConcatProperties
    <3>3. v[i] = s[i]
      BY <1>1, <2>1, <2>2, ConcatProperties
    <3>4. QED
      BY <3>1, <3>2, <3>3
  <2>3. CASE i \in Len(s) + 1 .. Len(s) + Len(t)
    <3>1. u[i] = (s \o t)[i]
      BY <1>1, <2>1, <2>3, AppendProperties
    <3>2. (s \o t)[i] = t[i - Len(s)]
      BY <2>1, <2>3, ConcatProperties
    <3>3. v[i] = Append(t, x)[i - Len(s)]
      BY <1>1, <2>1, <2>3, ConcatProperties
    <3>4. Append(t, x)[i - Len(s)] = t[i - Len(s)]
      BY <2>1, <2>3, AppendProperties
    <3>5. QED
      BY <3>1, <3>2, <3>3, <3>4
  <2>4. CASE i = Len(s) + Len(t) + 1
    <3>1. u[i] = x
      BY <1>1, <2>1, <2>4, AppendProperties
    <3>2. v[i] = Append(t, x)[Len(t) + 1]
      BY <1>1, <2>1, <2>4, ConcatProperties
    <3>3. QED
      BY <3>1, <3>2, AppendProperties
  <2>5. QED
    BY <2>1, <2>2, <2>3, <2>4
<1>5. QED
  BY <1>2, <1>3, <1>4, SeqEqual

LEMMA AlignedBounds ==
    ASSUME NEW n \in Nat
    PROVE  Aligned(n) \in Nat /\ n <= Aligned(n) /\ Aligned(n) <= n + 7
  BY DEF Aligned, Align

LEMMA ItemsNeedIsNat ==
    ASSUME NEW l \in Line
    PROVE  ItemsNeed(l) \in Nat /\ ItemsNeed(l) = ItemSize(l) + 40
  BY DEF Line, ItemsNeed, ItemSize, Align, Slop

\* An empty table has no bytes, whatever the entry size says.
LEMMA EmptyOK ==
    ASSUME NEW h, h \in HeapType, h.table = <<>>, h.entry = 0, ~h.null
    PROVE  HeapOK(h)
<1>1. h.size \in Nat /\ h.item \in Nat /\ Len(h.table) = 0
  BY DEF HeapType
<1>2. TableBytes(h)
  BY <1>1 DEF TableBytes
<1>3. HeapShape(h)
  BY <1>1 DEF HeapShape
<1>4. QED
  BY <1>2, <1>3 DEF HeapOK

LEMMA ResetOK ==
    ASSUME NEW h, HeapOK(h)
    PROVE  HeapOK(Reset(h)) /\ Reset(h).table = <<>>
<1>1. h \in HeapType /\ ~h.null
  BY DEF HeapOK, HeapShape
<1> DEFINE none == <<>>
           r == [h EXCEPT !.table = none, !.entry = 0, !.item = HeapSize]
<1>2. Reset(h) = r /\ none \in Seq(Line)
  BY EmptySeq DEF Reset
<1>3. HeapSize \in Nat
  BY SizesAssumption
<1>4. h \in HeapType
  BY <1>1
<1>5. r \in HeapType
  <2> HIDE DEF none
  <2>1. QED
    BY <1>2, <1>3, <1>4 DEF HeapType
<1>6. r.table = <<>> /\ r.entry = 0 /\ ~r.null
  BY <1>1 DEF HeapType
<1>7. QED
  BY <1>2, <1>5, <1>6, EmptyOK

LEMMA TypedOK ==
    ASSUME NEW h, HeapOK(h), NEW k \in Kind
    PROVE  /\ HeapOK(Typed(h, k))
           /\ Typed(h, k).table = h.table
           /\ Typed(h, k).entry = h.entry
<1>1. CASE h.entry = 0
  <2>1. h \in HeapType /\ h.table = <<>> /\ ~h.null
    BY <1>1 DEF HeapOK, HeapShape
  <2>2. EntrySize[k] \in Nat
    BY LinesAssumption
  <2>3. Typed(h, k) = [h EXCEPT !.type = k, !.size = EntrySize[k]]
    BY <1>1 DEF Typed
  <2>4. /\ Typed(h, k) \in HeapType /\ Typed(h, k).table = <<>>
        /\ Typed(h, k).entry = 0 /\ ~Typed(h, k).null
    BY <1>1, <2>1, <2>2, <2>3 DEF HeapType
  <2>5. QED
    BY <1>1, <2>1, <2>4, EmptyOK
<1>2. CASE h.entry # 0
  BY <1>2 DEF Typed
<1>3. QED
  BY <1>1, <1>2

\* Once ndmfhh_prepare() has said that they fit, the entry and its item are
\* taken, the callers get two pointers, and the heap is sound.
LEMMA AddedOK ==
    ASSUME NEW h, HeapOK(h), NEW l \in Line, l.kind \in Kind, Prepared(h, l)
    PROVE  HeapOK(Added(h, l)) /\ Added(h, l).table = Append(h.table, l)
<1> DEFINE e == EntryAdded(h, l)
<1>1. h.type = l.kind /\ h.size = EntrySize[l.kind] /\ h.size \in Nat \ {0}
  BY LinesAssumption DEF Prepared, SameType
<1>2. h.entry \in Nat /\ h.item \in Nat /\ h.table \in Seq(Line)
  BY DEF HeapOK, HeapShape, HeapType
<1>3. h.entry + h.size < h.item - ItemsNeed(l)
  BY DEF Prepared
<1>4. h.entry + h.size < h.item
  BY <1>1, <1>2, <1>3, ItemsNeedIsNat DEF Line, ItemSize
<1>5. e = [h EXCEPT !.table = Append(@, l), !.entry = @ + h.size]
  BY <1>4 DEF EntryAdded
<1>6. /\ e.table = Append(h.table, l) /\ e.entry = h.entry + h.size
      /\ e.item = h.item /\ e.size = h.size /\ e.type = h.type
      /\ e.null = h.null /\ e \in HeapType
  <2>1. h \in HeapType
    BY DEF HeapOK, HeapShape
  <2>2. Append(h.table, l) \in Seq(Line) /\ h.entry + h.size \in Nat
    BY <1>1, <1>2
  <2>3. e \in HeapType
    BY <1>5, <2>1, <2>2 DEF HeapType
  <2>4. QED
    BY <1>5, <2>1, <2>3 DEF HeapType
<1>7. HeapOK(e)
  <2>1. Len(e.table) = Len(h.table) + 1
    BY <1>2, <1>6, AppendProperties
  <2>2. e.entry = Len(e.table) * e.size
    <3>1. h.entry = Len(h.table) * h.size
      BY DEF HeapOK, TableBytes
    <3>2. (Len(h.table) + 1) * h.size = Len(h.table) * h.size + h.size
      BY <1>1, <1>2, LenProperties
    <3>3. QED
      BY <1>6, <2>1, <3>1, <3>2
  <2>3. e.entry # 0 /\ e.table # <<>>
    BY <1>1, <1>2, <1>6, AppendProperties
  <2>4. \A i \in 1 .. Len(e.table) : e.table[i].kind = e.type
    <3> SUFFICES ASSUME NEW i \in 1 .. Len(e.table)
                 PROVE  e.table[i].kind = e.type
      OBVIOUS
    <3>1. CASE i \in 1 .. Len(h.table)
      BY <1>2, <1>6, <3>1, AppendProperties DEF HeapOK, HeapShape
    <3>2. CASE i = Len(h.table) + 1
      BY <1>1, <1>2, <1>6, <3>2, AppendProperties
    <3>3. QED
      BY <1>2, <2>1, <3>1, <3>2, LenProperties
  <2>5. TableBytes(e)
    BY <2>2 DEF TableBytes
  <2>6. ~e.null /\ e.entry <= e.item
    <3>1. ~e.null
      BY <1>6, Zenon DEF HeapOK, HeapShape
    <3>2. e.entry <= e.item
      <4> HIDE DEF e
      <4>1. QED
        BY <1>1, <1>2, <1>4, <1>6
    <3>3. QED
      BY <3>1, <3>2
  <2>7. e.type \in Kind /\ e.size = EntrySize[e.type]
    BY <1>1, <1>6
  <2>8. HeapShape(e)
    BY <1>6, <2>3, <2>4, <2>6, <2>7 DEF HeapShape
  <2>9. QED
    BY <2>5, <2>8 DEF HeapOK
<1>8. CASE l.kind = "node"
  BY <1>6, <1>7, <1>8 DEF Added
<1>9. CASE l.kind # "node"
  <2>1. l.name \in Nat
    BY DEF Line
  <2>2. ItemsNeed(l) = l.name + 40
    BY <1>9, ItemsNeedIsNat DEF ItemSize
  <2>3. /\ Aligned(l.name) \in Nat
        /\ e.item - Aligned(l.name) > e.entry
    <3> DEFINE a == Aligned(l.name)
    <3>1. a \in Nat /\ a <= l.name + 7
      BY <2>1, AlignedBounds
    <3>2. h.entry + h.size < h.item - (l.name + 40)
      BY <1>3, <2>2
    <3> HIDE DEF a
    <3>3. h.item - a > h.entry + h.size
      BY <1>1, <1>2, <2>1, <3>1, <3>2, SMTT(30)
    <3>4. QED
      BY <1>6, <3>1, <3>3 DEF a
  <2>4. Added(h, l) = [e EXCEPT !.item = @ - Aligned(l.name)]
    BY <1>9, <2>3 DEF Added, ItemAdded
  <2>5. e.item - Aligned(l.name) \in Nat
    BY <1>2, <1>6, <2>3 DEF HeapType
  <2>6. HeapShape(Added(h, l)) /\ Added(h, l).table = e.table
    <3> DEFINE i == e.item - Aligned(l.name)
               f == Added(h, l)
    <3>1. f = [e EXCEPT !.item = i] /\ i \in Nat /\ e.entry < i
      BY <1>2, <1>6, <2>3, <2>4, <2>5
    <3>2. e \in HeapType /\ HeapShape(e)
      BY <1>7 DEF HeapOK, HeapShape
    <3> HIDE DEF e, i, f
    <3>3. f \in HeapType /\ f.item = i /\ f.entry = e.entry /\ f.null = e.null
      BY <3>1, <3>2 DEF HeapType
    <3>4. f.table = e.table /\ f.type = e.type /\ f.size = e.size
      BY <3>1, <3>2 DEF HeapType
    <3>5. e.entry <= i
      BY <3>1, <3>2 DEF HeapType
    <3>6. HeapShape(f)
      BY <3>2, <3>3, <3>4, <3>5 DEF HeapShape
    <3>7. QED
      BY <3>4, <3>6 DEF f
  <2>7. TableBytes(Added(h, l))
    BY <1>6, <1>7, <2>4 DEF HeapOK, TableBytes, HeapType
  <2>8. QED
    BY <1>6, <2>6, <2>7 DEF HeapOK
<1>10. QED
  BY <1>8, <1>9

\* What is posted is the table: no entry means no bytes, and the other way round.
LEMMA PostedIsTable ==
    ASSUME Ordered, NEW h, HeapOK(h)
    PROVE  Posted(h) = index \o h.table
<1>1. CASE h.entry = 0
  BY <1>1, ConcatEmptySeq DEF Posted, HeapOK, HeapShape, HeapType, Ordered
<1>2. CASE h.entry # 0
  BY <1>2 DEF Posted, HeapOK, HeapShape, HeapType
<1>3. QED
  BY <1>1, <1>2

LEMMA LineInKeeps ==
    ASSUME HeapOK(heap), Ordered, NEW l \in Line, LineIn(l)
    PROVE  HeapOK(heap') /\ Ordered'
<1>1. CASE l.kind \in Kind /\ EntryGiven(l)
  <2> DEFINE h == Typed(heap, l.kind)
             e == Typed(Reset(h), l.kind)
  <2>1. HeapOK(h) /\ h.table = heap.table
    BY <1>1, TypedOK
  <2>2. HeapOK(Reset(h)) /\ Reset(h).table = <<>>
    BY <2>1, ResetOK
  <2>3. HeapOK(e) /\ e.table = <<>>
    BY <1>1, <2>2, TypedOK
  <2>4. heap.table \in Seq(Line) /\ index \in Seq(Line)
    BY DEF HeapOK, HeapShape, HeapType, Ordered
  <2>5. Posted(h) = given
    BY <2>1, PostedIsTable DEF Ordered
  <2>6. given \in Seq(Line)
    BY DEF Ordered
  <2>7. CASE /\ Prepared(h, l)
             /\ heap' = Added(h, l)
             /\ given' = Append(given, l)
             /\ UNCHANGED index
    <3>1. HeapOK(heap') /\ heap'.table = Append(heap.table, l)
      BY <1>1, <2>1, <2>7, AddedOK
    <3>2. Append(given, l) = index \o Append(heap.table, l)
      <4>1. given = index \o heap.table
        BY DEF Ordered
      <4>2. Append(index \o heap.table, l) = index \o Append(heap.table, l)
        BY <2>4, AppendShifts, Zenon
      <4>3. QED
        BY <4>1, <4>2
    <3>3. Append(given, l) \in Seq(Line)
      BY <2>6, AppendProperties
    <3>4. QED
      BY <2>4, <2>7, <3>1, <3>2, <3>3 DEF Ordered
  <2>8. CASE /\ ~Prepared(h, l) /\ Prepared(e, l)
             /\ heap' = Added(e, l)
             /\ index' = Posted(h)
             /\ given' = Append(given, l)
    <3>1. HeapOK(heap') /\ heap'.table = Append(<<>>, l)
      BY <1>1, <2>3, <2>8, AddedOK
    <3>2. index' = given
      BY <2>5, <2>8
    <3>3. Append(given, l) = given \o Append(<<>>, l)
      BY <2>6
    <3>4. Append(given, l) \in Seq(Line)
      BY <2>6, AppendProperties
    <3>5. QED
      BY <2>6, <2>8, <3>1, <3>2, <3>3, <3>4 DEF Ordered
  <2>9. CASE /\ ~Prepared(h, l) /\ ~Prepared(e, l)
             /\ heap' = e
             /\ index' = Posted(h)
             /\ UNCHANGED given
    BY <2>3, <2>5, <2>6, <2>9, ConcatEmptySeq DEF Ordered
  <2>10. QED
    BY <1>1, <2>7, <2>8, <2>9 DEF EntryGiven
<1>2. CASE l.kind \notin Kind /\ UNCHANGED <<heap, index, given>>
  BY <1>2 DEF Ordered
<1>3. QED
  BY <1>1, <1>2 DEF LineIn

-----------------------------------------------------------------------------
(* The inductive invariant.                                                *)

PipesOK ==
    /\ formatter \in [line : Seq(Unit), made : 0 .. MaxImage, exited : BOOLEAN]
    /\ wrap \in [pipe : Seq(Unit), buf : Seq(Unit), beg : Nat, eof : BOOLEAN]
    /\ End(wrap) <= WrapBuf
    /\ image \in [pipe : 0 .. ImageBuf, buf : 0 .. ImageBuf, eof : BOOLEAN,
                  stream : 0 .. ImageBuf]
    /\ written \in Seq(Line)
    /\ data \in [state : {"ACTIVE", "HALTED"},
                 reason : {"NA", "SUCCESSFUL", "ABORTED"},
                 pc : {"poll", "wrap", "image"}]

HaltedEmpty == data.state = "HALTED" => heap.table = <<>>

IInv ==
    /\ PipesOK
    /\ HeapOK(heap)
    /\ Ordered
    /\ HaltedEmpty

LEMMA SizesAreNat ==
    /\ HeapSize \in Nat \ {0} /\ WrapBuf \in Nat \ {0} /\ WrapPipe \in Nat \ {0}
    /\ ImageBuf \in Nat \ {0} /\ MaxImage \in Nat
  BY SizesAssumption

LEMMA EndIsNat ==
    ASSUME PipesOK
    PROVE  End(wrap) \in Nat /\ Len(wrap.buf) \in Nat /\ Len(wrap.pipe) \in Nat
  BY LenProperties DEF PipesOK, End

LEMMA InitKeeps == Init => IInv
<1> SUFFICES ASSUME Init PROVE IInv
  OBVIOUS
<1> USE DEF Init
<1>1. PipesOK
  <2>1. <<>> \in Seq(Unit) /\ <<>> \in Seq(Line)
    OBVIOUS
  <2>2. End(wrap) <= WrapBuf
    BY SizesAreNat DEF End
  <2>3. QED
    BY <2>1, <2>2, SizesAreNat DEF PipesOK
<1>2. HeapOK(heap)
  <2>1. heap \in HeapType
    BY SizesAreNat DEF HeapType, NoEntries
  <2>2. QED
    BY <2>1, EmptyOK DEF NoEntries
<1>3. Ordered /\ HaltedEmpty
  BY DEF Ordered, HaltedEmpty, NoEntries
<1>4. QED
  BY <1>1, <1>2, <1>3 DEF IInv

\* ndmda_data_halt() leaves nothing in the table.
LEMMA HaltedKeeps ==
    ASSUME IInv, NEW r \in {"SUCCESSFUL", "ABORTED"}, Halted(r)
    PROVE  IInv'
<1>1. HeapOK(heap') /\ heap'.table = <<>>
  BY ResetOK DEF IInv, Halted
<1>2. index' = given /\ given' = given
  BY PostedIsTable DEF IInv, Halted, Ordered
<1>3. Ordered'
  BY <1>1, <1>2, ConcatEmptySeq DEF IInv, Ordered
<1>4. End(wrap') <= WrapBuf
  <2>1. wrap'.buf = <<>> /\ wrap'.beg = 0
    BY DEF IInv, PipesOK, Halted
  <2>2. QED
    BY <2>1, SizesAreNat DEF End
<1>5. wrap' \in [pipe : Seq(Unit), buf : Seq(Unit), beg : Nat, eof : BOOLEAN]
  <2> DEFINE none == <<>>
  <2>1. none \in Seq(Unit)
    BY EmptySeq
  <2>2. wrap' = [wrap EXCEPT !.buf = none, !.beg = 0, !.eof = TRUE]
    BY DEF Halted
  <2>3. wrap \in [pipe : Seq(Unit), buf : Seq(Unit), beg : Nat, eof : BOOLEAN]
    BY DEF IInv, PipesOK
  <2> HIDE DEF none
  <2>4. QED
    BY <2>1, <2>2, <2>3
<1>6. PipesOK'
  <2>1. image' \in [pipe : 0 .. ImageBuf, buf : 0 .. ImageBuf, eof : BOOLEAN,
                    stream : 0 .. ImageBuf]
    <3>1. 0 \in 0 .. ImageBuf
      BY SizesAreNat
    <3>2. QED
      BY <3>1 DEF IInv, PipesOK, Halted
  <2>2. formatter' \in [line : Seq(Unit), made : 0 .. MaxImage, exited : BOOLEAN]
    BY DEF IInv, PipesOK, Halted
  <2>3. QED
    BY <1>4, <1>5, <2>1, <2>2 DEF IInv, PipesOK, Halted
<1>7. QED
  BY <1>1, <1>3, <1>6 DEF IInv, HaltedEmpty

\* The formatter only writes to its pipes.
LEMMA FormatterKeeps == IInv /\ FormatterNext => IInv'
<1> SUFFICES ASSUME IInv, FormatterNext PROVE IInv'
  OBVIOUS
<1> USE DEF IInv
<1>1. ASSUME NEW l \in Lines, StartsLine(l) PROVE IInv'
  <2>1. l \in Line
    BY LinesAssumption
  <2>2. UnitsOf(l) \in Seq(Unit)
    <3>1. \A i \in 1 .. l.len : [of |-> l, end |-> i = l.len] \in Unit
      BY <2>1 DEF Unit
    <3>2. l.len \in Nat
      BY <2>1 DEF Line
    <3>3. QED
      BY <3>1, <3>2, IsASeq DEF UnitsOf
  <2>3. PipesOK'
    BY <1>1, <2>2 DEF PipesOK, StartsLine, End
  <2>4. QED
    BY <1>1, <2>3 DEF StartsLine, Ordered, HaltedEmpty
<1>2. CASE WritesLine
  <2>1. /\ formatter.line \in Seq(Unit) /\ formatter.line # <<>>
        /\ wrap.pipe \in Seq(Unit) /\ written \in Seq(Line)
    BY <1>2 DEF PipesOK, WritesLine
  <2>2. Head(formatter.line) \in Unit /\ Tail(formatter.line) \in Seq(Unit)
    BY <2>1, HeadTailProperties
  <2>3. Append(wrap.pipe, Head(formatter.line)) \in Seq(Unit)
    BY <2>1, <2>2, AppendProperties
  <2>4. written' \in Seq(Line)
    <3>1. Head(formatter.line).of \in Line
      BY <2>2 DEF Unit
    <3>2. Append(written, Head(formatter.line).of) \in Seq(Line)
      BY <2>1, <3>1, AppendProperties
    <3>3. QED
      BY <1>2, <2>1, <3>2 DEF WritesLine
  <2>5. wrap' \in [pipe : Seq(Unit), buf : Seq(Unit), beg : Nat, eof : BOOLEAN]
    BY <1>2, <2>3 DEF PipesOK, WritesLine
  <2>6. End(wrap') = End(wrap)
    BY <1>2 DEF PipesOK, WritesLine, End
  <2>7. PipesOK'
    BY <1>2, <2>2, <2>4, <2>5, <2>6 DEF PipesOK, WritesLine
  <2>8. QED
    BY <1>2, <2>7 DEF WritesLine, Ordered, HaltedEmpty
<1>3. CASE WritesImage
  <2> DEFINE m == formatter.made + 1
             p == image.pipe + 1
  <2>1. m \in 0 .. MaxImage /\ p \in 0 .. ImageBuf
    <3>1. formatter.made \in 0 .. MaxImage /\ image.pipe \in 0 .. ImageBuf
      BY DEF PipesOK
    <3>2. formatter.made < MaxImage /\ image.pipe < ImageBuf
      BY <1>3 DEF WritesImage
    <3>3. QED
      BY <3>1, <3>2, SizesAreNat
  <2>2. /\ formatter' = [formatter EXCEPT !.made = m]
        /\ image' = [image EXCEPT !.pipe = p]
    BY <1>3 DEF WritesImage
  <2> HIDE DEF m, p
  <2>3. PipesOK'
    BY <1>3, <2>1, <2>2 DEF PipesOK, WritesImage, End
  <2>4. QED
    BY <1>3, <2>3 DEF WritesImage, Ordered, HaltedEmpty
<1>4. CASE Exits
  <2> DEFINE none == <<>>
  <2>1. none \in Seq(Unit)
    BY EmptySeq
  <2>2. formatter' = [formatter EXCEPT !.exited = TRUE, !.line = none]
    BY <1>4 DEF Exits
  <2> HIDE DEF none
  <2>3. formatter' \in [line : Seq(Unit), made : 0 .. MaxImage, exited : BOOLEAN]
    BY <2>1, <2>2 DEF PipesOK
  <2>4. PipesOK'
    BY <1>4, <2>3 DEF PipesOK, Exits, End
  <2>5. QED
    BY <1>4, <2>4 DEF Exits, Ordered, HaltedEmpty
<1>5. QED
  BY <1>1, <1>2, <1>3, <1>4 DEF FormatterNext

\* A read of the wrap pipe stays within the channel.
LEMMA PollKeeps == IInv /\ Poll => IInv'
<1> SUFFICES ASSUME IInv, Poll PROVE IInv'
  OBVIOUS
<1> USE DEF IInv
<1> DEFINE W == [pipe : Seq(Unit), buf : Seq(Unit), beg : Nat, eof : BOOLEAN]
<1>1. wrap \in W /\ End(wrap) <= WrapBuf
  BY DEF PipesOK
<1>2. Compressed(wrap) \in W /\ End(Compressed(wrap)) <= WrapBuf
  <2>1. CASE wrap.buf = <<>> \/ End(wrap) >= WrapBuf
    <3>1. Compressed(wrap) = [wrap EXCEPT !.beg = 0]
      BY <2>1 DEF Compressed
    <3>2. Compressed(wrap) \in W
      BY <1>1, <3>1
    <3>3. End(Compressed(wrap)) = Len(wrap.buf)
      BY <1>1, <3>1, LenProperties DEF End
    <3>4. Len(wrap.buf) <= End(wrap) /\ Len(wrap.buf) \in Nat /\ End(wrap) \in Nat
      BY <1>1, LenProperties DEF End
    <3>5. QED
      BY <1>1, <3>2, <3>3, <3>4, SizesAreNat
  <2>2. CASE ~(wrap.buf = <<>> \/ End(wrap) >= WrapBuf)
    BY <1>1, <2>2 DEF Compressed
  <2>3. QED
    BY <2>1, <2>2
<1>3. ASSUME NEW w \in W, End(w) <= WrapBuf
      PROVE  WrapPolled(w) \in W /\ End(WrapPolled(w)) <= WrapBuf
  <2> DEFINE n == Least(Room(w), Len(w.pipe))
  <2>1. /\ w.pipe \in Seq(Unit) /\ w.buf \in Seq(Unit) /\ w.beg \in Nat
        /\ Len(w.pipe) \in Nat /\ Len(w.buf) \in Nat
    BY LenProperties
  <2>2. /\ n \in Nat /\ n <= Len(w.pipe) /\ n <= Room(w)
        /\ Room(w) = WrapBuf - (w.beg + Len(w.buf))
    BY <1>3, <2>1, SizesAreNat DEF Room, End, Least
  <2> HIDE DEF n
  <2>3. CASE n > 0
    <3> DEFINE rest == SubSeq(w.pipe, n + 1, Len(w.pipe))
               first == SubSeq(w.pipe, 1, n)
               b == w.buf \o first
    <3>1. rest \in Seq(Unit)
      BY <2>1, <2>2, SubSeqProperties, ElementOfSeq
    <3>2. first \in Seq(Unit) /\ Len(first) = n
      BY <2>1, <2>2, <2>3, SubSeqProperties, ElementOfSeq
    <3>3. b \in Seq(Unit) /\ Len(b) = Len(w.buf) + n
      BY <2>1, <3>2, ConcatProperties
    <3>4. WrapPolled(w) = [w EXCEPT !.pipe = rest, !.buf = b]
      BY <2>3 DEF WrapPolled, n
    <3> HIDE DEF rest, b
    <3>5. WrapPolled(w) \in W
      BY <3>1, <3>3, <3>4
    <3>6. End(WrapPolled(w)) = w.beg + Len(w.buf) + n
      BY <2>1, <2>2, <3>3, <3>4 DEF End
    <3>7. QED
      BY <2>1, <2>2, <3>5, <3>6, SizesAreNat
  <2>4. CASE ~(n > 0)
    <3>1. WrapPolled(w) = [w EXCEPT !.eof = Room(w) > 0 /\ formatter.exited]
      BY <2>4 DEF WrapPolled, n
    <3>2. QED
      BY <1>3, <3>1 DEF End
  <2>5. QED
    BY <2>3, <2>4
<1>4. wrap' \in W /\ End(wrap') <= WrapBuf
  <2>1. CASE wrap.eof
    BY <1>1, <2>1 DEF Poll
  <2>2. CASE ~wrap.eof
    BY <1>2, <1>3, <2>2 DEF Poll
  <2>3. QED
    BY <2>1, <2>2
<1>5. image' \in [pipe : 0 .. ImageBuf, buf : 0 .. ImageBuf, eof : BOOLEAN,
                  stream : 0 .. ImageBuf]
  <2> DEFINE n == Least(ImageBuf - image.buf, image.pipe)
             p == image.pipe - n
             b == image.buf + n
             x == ImageBuf - image.buf > 0 /\ formatter.exited
  <2>1. image \in [pipe : 0 .. ImageBuf, buf : 0 .. ImageBuf, eof : BOOLEAN,
                   stream : 0 .. ImageBuf]
    BY DEF PipesOK
  <2>2. p \in 0 .. ImageBuf /\ b \in 0 .. ImageBuf
    BY <2>1, SizesAreNat DEF Least
  <2>3. \/ image' = image
        \/ image' = [image EXCEPT !.pipe = p, !.buf = b]
        \/ image' = [image EXCEPT !.eof = x]
    BY DEF Poll, ImagePolled
  <2>4. x \in BOOLEAN
    OBVIOUS
  <2> HIDE DEF p, b, x
  <2>5. QED
    BY <2>1, <2>2, <2>3, <2>4
<1>6. PipesOK'
  <2>1. data' = [data EXCEPT !.pc = "wrap"]
    BY DEF Poll, Goes
  <2>2. QED
    BY <1>4, <1>5, <2>1 DEF Poll, PipesOK
<1>7. QED
  BY <1>6 DEF Poll, At, Goes, Ordered, HaltedEmpty, PipesOK

\* A line of the channel: what is left of the channel ends where it did.
LEMMA LinesKeep == IInv /\ (TakesLine \/ TakesCutLine) => IInv'
<1> SUFFICES ASSUME IInv, TakesLine \/ TakesCutLine PROVE IInv'
  OBVIOUS
<1> USE DEF IInv
<1> DEFINE W == [pipe : Seq(Unit), buf : Seq(Unit), beg : Nat, eof : BOOLEAN]
<1>1. wrap \in W /\ wrap.buf \in Seq(Unit) /\ wrap.beg \in Nat
  BY DEF PipesOK
<1>2. Len(wrap.buf) \in Nat /\ wrap.beg + Len(wrap.buf) <= WrapBuf
  BY <1>1, LenProperties DEF PipesOK, End
<1>3. CASE TakesLine
  <2>1. PICK n \in 1 .. Len(wrap.buf) :
          /\ wrap' = [wrap EXCEPT !.buf = SubSeq(@, n + 1, Len(@)), !.beg = @ + n]
          /\ LineIn(wrap.buf[n].of)
    BY <1>3 DEF TakesLine
  <2>2. wrap.buf[n].of \in Line
    <3>1. wrap.buf[n] \in Unit
      BY <1>1, ElementOfSeq
    <3>2. QED
      BY <3>1 DEF Unit
  <2>3. HeapOK(heap') /\ Ordered'
    BY <2>1, <2>2, LineInKeeps
  <2> DEFINE rest == SubSeq(wrap.buf, n + 1, Len(wrap.buf))
             b == wrap.beg + n
  <2>4. rest \in Seq(Unit) /\ Len(rest) = Len(wrap.buf) - n
    BY <1>1, <1>2, SubSeqProperties, ElementOfSeq
  <2>5. wrap' = [wrap EXCEPT !.buf = rest, !.beg = b] /\ b \in Nat
    BY <1>1, <2>1
  <2>6. b + Len(rest) <= WrapBuf
    BY <1>1, <1>2, <2>4
  <2> HIDE DEF rest, b
  <2>7. wrap' \in W /\ End(wrap') <= WrapBuf
    BY <1>1, <2>4, <2>5, <2>6 DEF End
  <2>8. PipesOK'
    BY <1>3, <2>7 DEF TakesLine, PipesOK
  <2>9. HaltedEmpty'
    BY <1>3 DEF TakesLine, At, HaltedEmpty
  <2>10. QED
    BY <2>3, <2>8, <2>9
<1>4. CASE TakesCutLine
  <2>1. wrap.buf[1].of \in Line
    <3>1. 1 \in 1 .. Len(wrap.buf)
      BY <1>1, <1>2, <1>4, EmptySeq DEF TakesCutLine
    <3>2. wrap.buf[1] \in Unit
      BY <1>1, <3>1, ElementOfSeq
    <3>3. QED
      BY <3>2 DEF Unit
  <2>2. PICK l \in CutShort(wrap.buf[1].of) : LineIn(l)
    BY <1>4 DEF TakesCutLine
  <2>3. l \in Line
    BY <2>1, <2>2 DEF CutShort, Line
  <2>4. HeapOK(heap') /\ Ordered'
    BY <2>2, <2>3, LineInKeeps
  <2> DEFINE none == <<>>
  <2>5. none \in Seq(Unit) /\ Len(none) = 0
    BY EmptySeq
  <2>6. wrap' = [wrap EXCEPT !.buf = none, !.beg = 0]
    BY <1>4 DEF TakesCutLine
  <2> HIDE DEF none
  <2>7. wrap' \in W /\ End(wrap') <= WrapBuf
    <3>1. wrap' \in W /\ wrap'.beg = 0 /\ wrap'.buf = none
      BY <1>1, <2>5, <2>6
    <3>2. End(wrap') = 0
      BY <2>5, <3>1 DEF End
    <3>3. QED
      BY <3>1, <3>2, SizesAreNat
  <2>8. PipesOK'
    BY <1>4, <2>7 DEF TakesCutLine, PipesOK
  <2>9. HaltedEmpty'
    BY <1>4 DEF TakesCutLine, At, HaltedEmpty
  <2>10. QED
    BY <2>4, <2>8, <2>9
<1>5. QED
  BY <1>3, <1>4

\* The image, and the mover that takes it.
LEMMA ImageKeeps == IInv /\ (MovesImage \/ StreamTaken \/ WrapDone) => IInv'
<1> SUFFICES ASSUME IInv, MovesImage \/ StreamTaken \/ WrapDone PROVE IInv'
  OBVIOUS
<1> USE DEF IInv
<1>1. CASE MovesImage
  <2> DEFINE n == Least(image.buf, ImageBuf - image.stream)
             b == image.buf - n
             t == image.stream + n
  <2>1. image \in [pipe : 0 .. ImageBuf, buf : 0 .. ImageBuf, eof : BOOLEAN,
                   stream : 0 .. ImageBuf]
    BY DEF PipesOK
  <2>2. b \in 0 .. ImageBuf /\ t \in 0 .. ImageBuf
    BY <2>1, SizesAreNat DEF Least
  <2>3. image' = [image EXCEPT !.buf = b, !.stream = t]
    BY <1>1 DEF MovesImage
  <2> HIDE DEF b, t
  <2>4. image' \in [pipe : 0 .. ImageBuf, buf : 0 .. ImageBuf, eof : BOOLEAN,
                    stream : 0 .. ImageBuf]
    BY <2>1, <2>2, <2>3
  <2>5. PipesOK'
    BY <1>1, <2>4 DEF MovesImage, Goes, PipesOK, End
  <2>6. QED
    BY <1>1, <2>5 DEF MovesImage, At, Goes, Ordered, HaltedEmpty, PipesOK
<1>2. CASE StreamTaken
  <2>1. 0 \in 0 .. ImageBuf
    BY SizesAreNat
  <2>2. PipesOK'
    BY <1>2, <2>1 DEF StreamTaken, PipesOK, End
  <2>3. QED
    BY <1>2, <2>2 DEF StreamTaken, Ordered, HaltedEmpty
<1>3. CASE WrapDone
  <2>1. PipesOK'
    BY <1>3 DEF WrapDone, Goes, PipesOK, End
  <2>2. QED
    BY <1>3, <2>1 DEF WrapDone, At, Goes, Ordered, HaltedEmpty, PipesOK
<1>4. QED
  BY <1>1, <1>2, <1>3

LEMMA NextKeeps == IInv /\ [Next]_vars => IInv'
<1> SUFFICES ASSUME IInv, [Next]_vars PROVE IInv'
  OBVIOUS
<1>1. CASE FormatterNext
  BY <1>1, FormatterKeeps
<1>2. CASE StreamTaken
  BY <1>2, ImageKeeps
<1>3. CASE DataNext
  <2>1. CASE ImageDone
    BY <2>1, HaltedKeeps DEF ImageDone
  <2>2. QED
    BY <1>3, <2>1, PollKeeps, LinesKeep, ImageKeeps DEF DataNext
<1>4. CASE Aborts
  BY <1>4, HaltedKeeps DEF Aborts
<1>5. CASE Done \/ UNCHANGED vars
  BY <1>5 DEF Done, vars, IInv, PipesOK, End, HeapOK, HeapShape, TableBytes,
              Ordered, HaltedEmpty
<1>6. QED
  BY <1>1, <1>2, <1>3, <1>4, <1>5 DEF Next

THEOREM IInvHolds == Spec => []IInv
  BY InitKeeps, NextKeeps, PTL DEF Spec

-----------------------------------------------------------------------------
(* The theorems.                                                           *)

\* The channel never holds more than its buffer, and every field has its type.
THEOREM TypeCorrect == Spec => []TypeOK
<1>1. IInv => TypeOK
  BY DEF IInv, PipesOK, HeapOK, HeapShape, HeapType, Ordered, TypeOK
<1>2. QED
  BY <1>1, IInvHolds, PTL

\* For every heap, entry size and name: the entries and the items never meet,
\* and no caller of ndmfhh_add_entry() or ndmfhh_save_item() gets a null pointer.
THEOREM HeapSound == Spec => []HeapNeverOverlaps
<1>1. IInv => HeapNeverOverlaps
  BY DEF IInv, HeapOK, HeapShape, HeapNeverOverlaps
<1>2. QED
  BY <1>1, IInvHolds, PTL

\* The entries of a table are of the type it is posted under, and the bytes of
\* the table count them.
THEOREM OneType == Spec => []TableOfOneType
<1>1. IInv => TableOfOneType
  BY DEF IInv, HeapOK, HeapShape, TableBytes, TableOfOneType
<1>2. QED
  BY <1>1, IInvHolds, PTL

\* Each entry is posted once and in order, and none is left when DATA halts.
THEOREM PostedInOrder == Spec => []InOrder
<1>1. IInv => InOrder
  BY DEF IInv, Ordered, HaltedEmpty, InOrder
<1>2. QED
  BY <1>1, IInvHolds, PTL

-----------------------------------------------------------------------------
(* FlattenSeq is a function defined by recursion: induction on the length.  *)

\* A set of natural numbers with a member has a least one
LEMMA LeastOf ==
    ASSUME NEW T \in SUBSET Nat, T # {}
    PROVE  \E x \in T : \A y \in T : x <= y
<1> DEFINE R == OpToRel(<, Nat)
<1>1. IsWellFoundedOn(R, Nat)
  BY NatLessThanWellFounded, Zenon
<1>2. \E x \in T : \A y \in T : ~ (<<y, x>> \in R)
  <2> HIDE DEF R
  <2>1. QED
    BY <1>1, WFMin
<1>3. \A x, y \in T : y < x => <<y, x>> \in R
  BY Zenon DEF OpToRel
<1>4. PICK x \in T : \A y \in T : ~ (<<y, x>> \in R)
  BY <1>2
<1>5. \A y \in T : ~ (y < x)
  <2> HIDE DEF R
  <2>1. QED
    BY <1>3, <1>4
<1>6. \A y \in T : x <= y
  BY <1>5
<1>7. QED
  BY <1>6

\* Induction: the order of the natural numbers is well-founded
LEMMA NatSetInduction ==
    ASSUME NEW T \in SUBSET Nat, 0 \in T, \A n \in T : n + 1 \in T
    PROVE  T = Nat
<1>1. SUFFICES ASSUME Nat \ T # {} PROVE FALSE
  OBVIOUS
<1>2. PICK x \in Nat \ T : \A y \in Nat \ T : x <= y
  BY <1>1, LeastOf
<1>3. x # 0 /\ x - 1 \in Nat
  BY <1>2
<1>4. x - 1 \in T
  BY <1>2, <1>3
<1>5. QED
  BY <1>2, <1>3, <1>4

Runs(f, s, n) == f = [i \in 1 .. n |-> IF i = 1 THEN s[i] ELSE f[i - 1] \o s[i]]

\* The function of FlattenSeq exists
LEMMA RunsExist ==
    ASSUME NEW s, NEW n \in Nat
    PROVE  \E f : Runs(f, s, n)
<1> DEFINE T == {k \in Nat : \E f : Runs(f, s, k)}
<1>1. 0 \in T
  <2> DEFINE f == [i \in 1 .. 0 |-> 0]
  <2>1. Runs(f, s, 0)
    BY DEF Runs
  <2>2. QED
    BY <2>1
<1>2. \A k \in T : k + 1 \in T
  <2> SUFFICES ASSUME NEW k \in T PROVE k + 1 \in T
    OBVIOUS
  <2>1. PICK f : Runs(f, s, k)
    OBVIOUS
  <2> DEFINE new == IF k = 0 THEN s[1] ELSE f[k] \o s[k + 1]
             g == [i \in 1 .. k + 1 |-> IF i = k + 1 THEN new ELSE f[i]]
  <2>2. \A i \in 1 .. k : f[i] = IF i = 1 THEN s[i] ELSE f[i - 1] \o s[i]
    BY <2>1 DEF Runs
  <2>3. \A i \in 1 .. k : g[i] = f[i]
    OBVIOUS
  <2>4. \A i \in 1 .. k + 1 : g[i] = IF i = 1 THEN s[i] ELSE g[i - 1] \o s[i]
    BY <2>2, <2>3
  <2>5. Runs(g, s, k + 1)
    <3> HIDE DEF g
    <3>1. g = [i \in 1 .. k + 1 |-> g[i]]
      BY DEF g
    <3>2. QED
      BY <2>4, <3>1 DEF Runs
  <2>6. QED
    BY <2>5
<1>3. T = Nat
  <2> HIDE DEF T
  <2>1. T \in SUBSET Nat
    BY DEF T
  <2>2. QED
    BY <1>1, <1>2, <2>1, NatSetInduction
<1>4. QED
  BY <1>3

Parts == Seq(Seq(Line))

LEMMA FlattenIs ==
    ASSUME NEW s \in Parts, Len(s) # 0
    PROVE  \E f : /\ f[1] = s[1]
                  /\ \A i \in 1 .. Len(s) : i # 1 => f[i] = f[i - 1] \o s[i]
                  /\ FlattenSeq(s) = f[Len(s)]
<1> DEFINE n == Len(s)
           f == CHOOSE f : Runs(f, s, n)
<1>1. n \in Nat /\ n # 0 /\ 1 \in 1 .. n
  BY DEF Parts
<1>2. Runs(f, s, n)
  <2> HIDE DEF n
  <2>1. QED
    BY <1>1, RunsExist
<1>3. FlattenSeq(s) = f[n]
  BY <1>1, Zenon DEF FlattenSeq, Runs
<1> HIDE DEF f
<1>4. \A i \in 1 .. n : f[i] = IF i = 1 THEN s[i] ELSE f[i - 1] \o s[i]
  BY <1>2 DEF Runs
<1>5. QED
  BY <1>1, <1>3, <1>4

LEMMA FlattenEmpty == FlattenSeq(<<>>) = <<>>
  BY DEF FlattenSeq

\* What holds of the first index, and of the one after each, holds of all
LEMMA UpTo ==
    ASSUME NEW T, NEW n \in Nat, 1 \in T, \A i \in 1 .. n - 1 : i \in T => i + 1 \in T
    PROVE  \A i \in 1 .. n : i \in T
<1> DEFINE U == {i \in Nat : i + 1 <= n => i + 1 \in T}
<1>1. 0 \in U
  OBVIOUS
<1>2. \A i \in U : i + 1 \in U
  OBVIOUS
<1>3. U = Nat
  <2> HIDE DEF U
  <2>1. U \in SUBSET Nat
    BY DEF U
  <2>2. QED
    BY <1>1, <1>2, <2>1, NatSetInduction
<1>4. ASSUME NEW i \in 1 .. n PROVE i \in T
  <2> DEFINE j == i - 1
  <2>1. j \in Nat /\ j + 1 = i /\ j + 1 <= n
    OBVIOUS
  <2> HIDE DEF j
  <2>2. j \in U
    BY <1>3, <2>1
  <2>3. QED
    BY <2>1, <2>2
<1>5. QED
  BY <1>4

LEMMA FlattenType ==
    ASSUME NEW s \in Parts
    PROVE  /\ FlattenSeq(s) \in Seq(Line)
           /\ (\A i \in 1 .. Len(s) : s[i] = <<>>) => FlattenSeq(s) = <<>>
<1> DEFINE n == Len(s)
<1>1. n \in Nat /\ \A i \in 1 .. n : s[i] \in Seq(Line)
  BY ElementOfSeq DEF Parts
<1>2. CASE n = 0
  <2>1. s = <<>>
    BY <1>2 DEF Parts
  <2>2. QED
    BY <2>1, FlattenEmpty, EmptySeq
<1>3. CASE n # 0
  <2>1. PICK f : /\ f[1] = s[1]
                 /\ \A i \in 1 .. n : i # 1 => f[i] = f[i - 1] \o s[i]
                 /\ FlattenSeq(s) = f[n]
    BY <1>3, FlattenIs
  <2> HIDE DEF n
  <2>2. n \in 1 .. n /\ 1 \in 1 .. n
    BY <1>1, <1>3
  <2>3. FlattenSeq(s) \in Seq(Line)
    <3> DEFINE T == {i \in 1 .. n : f[i] \in Seq(Line)}
    <3>1. 1 \in T
      BY <1>1, <2>1, <2>2
    <3>2. \A i \in 1 .. n - 1 : i \in T => i + 1 \in T
      <4> SUFFICES ASSUME NEW i \in 1 .. n - 1, f[i] \in Seq(Line)
                   PROVE  i + 1 \in 1 .. n /\ f[i + 1] \in Seq(Line)
        OBVIOUS
      <4>1. i + 1 \in 1 .. n /\ i + 1 # 1 /\ (i + 1) - 1 = i
        BY <1>1
      <4>2. f[i + 1] = f[i] \o s[i + 1]
        BY <2>1, <4>1
      <4>3. s[i + 1] \in Seq(Line)
        BY <1>1, <4>1
      <4>4. QED
        BY <4>1, <4>2, <4>3, ConcatProperties
    <3>3. \A i \in 1 .. n : i \in T
      <4> HIDE DEF T
      <4>1. QED
        BY <1>1, <3>1, <3>2, UpTo
    <3>4. QED
      BY <2>1, <2>2, <3>3
  <2>4. ASSUME \A i \in 1 .. n : s[i] = <<>>
        PROVE  FlattenSeq(s) = <<>>
    <3> DEFINE T == {i \in 1 .. n : f[i] = <<>>}
    <3>1. 1 \in T
      BY <2>1, <2>2, <2>4
    <3>2. \A i \in 1 .. n - 1 : i \in T => i + 1 \in T
      <4> SUFFICES ASSUME NEW i \in 1 .. n - 1, f[i] = <<>>
                   PROVE  i + 1 \in 1 .. n /\ f[i + 1] = <<>>
        OBVIOUS
      <4>1. i + 1 \in 1 .. n /\ i + 1 # 1 /\ (i + 1) - 1 = i
        BY <1>1
      <4>2. f[i + 1] = f[i] \o s[i + 1] /\ s[i + 1] = <<>>
        BY <2>1, <2>4, <4>1
      <4>3. <<>> \in Seq(Line) /\ <<>> \o <<>> = <<>>
        BY EmptySeq, ConcatEmptySeq
      <4>4. QED
        BY <4>1, <4>2, <4>3
    <3>3. \A i \in 1 .. n : i \in T
      <4> HIDE DEF T
      <4>1. QED
        BY <1>1, <3>1, <3>2, UpTo
    <3>4. QED
      BY <2>1, <2>2, <3>3
  <2>5. QED
    BY <2>3, <2>4 DEF n
<1>4. QED
  BY <1>2, <1>3

LEMMA FlattenAppend ==
    ASSUME NEW s \in Parts, NEW x \in Seq(Line)
    PROVE  FlattenSeq(Append(s, x)) = FlattenSeq(s) \o x
<1> DEFINE n == Len(s)
           t == Append(s, x)
<1>1. /\ n \in Nat /\ t \in Parts /\ Len(t) = n + 1 /\ t[n + 1] = x
      /\ \A i \in 1 .. n : t[i] = s[i]
  BY AppendProperties DEF Parts
<1>2. PICK g : /\ g[1] = t[1]
               /\ \A i \in 1 .. n + 1 : i # 1 => g[i] = g[i - 1] \o t[i]
               /\ FlattenSeq(t) = g[n + 1]
  <2> HIDE DEF t, n
  <2>1. Len(t) # 0
    BY <1>1
  <2>2. QED
    BY <1>1, <2>1, FlattenIs
<1>3. CASE n = 0
  <2>1. s = <<>>
    BY <1>3 DEF Parts
  <2>2. FlattenSeq(t) = x
    <3> HIDE DEF t
    <3>1. QED
      BY <1>1, <1>2, <1>3
  <2>3. <<>> \o x = x
    BY ConcatEmptySeq
  <2>4. QED
    BY <2>1, <2>2, <2>3, FlattenEmpty
<1>4. CASE n # 0
  <2>1. PICK f : /\ f[1] = s[1]
                 /\ \A i \in 1 .. n : i # 1 => f[i] = f[i - 1] \o s[i]
                 /\ FlattenSeq(s) = f[n]
    BY <1>4, FlattenIs
  <2> HIDE DEF t, n
  <2> DEFINE T == {i \in 1 .. n : g[i] = f[i]}
  <2>2. 1 \in T
    BY <1>1, <1>2, <1>4, <2>1
  <2>3. \A i \in 1 .. n - 1 : i \in T => i + 1 \in T
    <3> SUFFICES ASSUME NEW i \in 1 .. n - 1, g[i] = f[i]
                 PROVE  i + 1 \in 1 .. n /\ g[i + 1] = f[i + 1]
      OBVIOUS
    <3>1. i + 1 \in 1 .. n /\ i + 1 \in 1 .. n + 1 /\ i + 1 # 1 /\ (i + 1) - 1 = i
      BY <1>1
    <3>2. g[i + 1] = g[i] \o t[i + 1] /\ f[i + 1] = f[i] \o s[i + 1]
      BY <1>2, <2>1, <3>1
    <3>3. QED
      BY <1>1, <3>1, <3>2
  <2>4. \A i \in 1 .. n : i \in T
    <3> HIDE DEF T
    <3>1. QED
      BY <1>1, <2>2, <2>3, UpTo
  <2>5. g[n] = f[n]
    BY <1>1, <1>4, <2>4
  <2>6. n + 1 \in 1 .. n + 1 /\ n + 1 # 1 /\ (n + 1) - 1 = n
    BY <1>1, <1>4
  <2>7. g[n + 1] = g[n] \o t[n + 1]
    BY <1>2, <2>6
  <2>8. QED
    BY <1>1, <1>2, <2>1, <2>5, <2>7 DEF t
<1>5. QED
  BY <1>3, <1>4

\* What is not empty has a last element
LEMMA LastIs ==
    ASSUME NEW S, NEW t \in Seq(S), NEW k \in Nat, Len(t) = k + 1
    PROVE  \E u \in Seq(S) : \E x \in S : t = Append(u, x) /\ Len(u) = k
<1> DEFINE u == [i \in 1 .. k |-> t[i]]
           x == t[k + 1]
<1>1. \A i \in 1 .. k + 1 : t[i] \in S
  BY ElementOfSeq
<1>2. x \in S /\ u \in Seq(S) /\ Len(u) = k /\ \A i \in 1 .. k : u[i] = t[i]
  BY <1>1
<1> HIDE DEF u, x
<1> DEFINE v == Append(u, x)
<1>3. /\ v \in Seq(S) /\ Len(v) = k + 1 /\ v[k + 1] = x
      /\ \A i \in 1 .. k : v[i] = u[i]
  BY <1>2, AppendProperties
<1>4. \A i \in 1 .. k + 1 : v[i] = t[i]
  BY <1>2, <1>3 DEF x
<1> HIDE DEF v
<1>5. v = t
  BY <1>3, <1>4, SeqEqual
<1>6. QED
  BY <1>2, <1>5 DEF v

LEMMA AppendIs ==
    ASSUME NEW S, NEW s \in Seq(S), NEW x \in S
    PROVE  <<x>> \in Seq(S) /\ Append(s, x) = s \o <<x>>
<1> DEFINE one == <<x>>
           u == Append(s, x)
           v == s \o one
<1>1. one \in Seq(S) /\ Len(one) = 1 /\ one[1] = x /\ Len(s) \in Nat
  OBVIOUS
<1>2. /\ u \in Seq(S) /\ Len(u) = Len(s) + 1 /\ u[Len(s) + 1] = x
      /\ \A i \in 1 .. Len(s) : u[i] = s[i]
  BY AppendProperties
<1> HIDE DEF one
<1>3. /\ v \in Seq(S) /\ Len(v) = Len(s) + 1
      /\ \A i \in 1 .. Len(s) + 1 : v[i] = IF i <= Len(s) THEN s[i] ELSE one[i - Len(s)]
  BY <1>1, ConcatProperties
<1> HIDE DEF u, v
<1>4. ASSUME NEW i \in 1 .. Len(s) + 1 PROVE u[i] = v[i]
  <2>1. CASE i = Len(s) + 1
    <3>1. ~ (i <= Len(s)) /\ i - Len(s) = 1
      BY <1>1, <2>1
    <3>2. QED
      BY <1>1, <1>2, <1>3, <2>1, <3>1
  <2>2. CASE i # Len(s) + 1
    <3>1. i \in 1 .. Len(s) /\ i <= Len(s)
      BY <1>1, <2>2
    <3>2. QED
      BY <1>2, <1>3, <3>1
  <2>3. QED
    BY <2>1, <2>2
<1>5. u = v
  BY <1>2, <1>3, <1>4, SeqEqual
<1>6. QED
  BY <1>1, <1>5 DEF one, u, v

LEMMA Assoc ==
    ASSUME NEW S, NEW a \in Seq(S), NEW b \in Seq(S), NEW c \in Seq(S)
    PROVE  (a \o b) \o c = a \o (b \o c)
  BY ConcatAssociative

LEMMA LineAssoc ==
    ASSUME NEW a \in Seq(Line), NEW b \in Seq(Line), NEW c \in Seq(Line)
    PROVE  (a \o b) \o c = a \o (b \o c)
<1> DEFINE S == Line
<1> HIDE DEF S
<1>1. a \in Seq(S) /\ b \in Seq(S) /\ c \in Seq(S)
  BY DEF S
<1>2. QED
  BY <1>1, Assoc

LEMMA FlattenConcat ==
    ASSUME NEW s \in Parts, NEW t \in Parts
    PROVE  FlattenSeq(s \o t) = FlattenSeq(s) \o FlattenSeq(t)
<1> DEFINE P(u) == FlattenSeq(s \o u) = FlattenSeq(s) \o FlattenSeq(u)
           T == {k \in Nat : \A u \in Parts : Len(u) = k => P(u)}
<1>1. 0 \in T
  <2> SUFFICES ASSUME NEW u \in Parts, Len(u) = 0 PROVE P(u)
    OBVIOUS
  <2>1. u = <<>>
    BY DEF Parts
  <2>2. s \o <<>> = s /\ FlattenSeq(s) \o <<>> = FlattenSeq(s)
    <3> DEFINE q == FlattenSeq(s)
    <3>1. q \in Seq(Line)
      BY FlattenType
    <3> HIDE DEF q
    <3>2. q \o <<>> = q
      BY <3>1, ConcatEmptySeq
    <3>3. s \o <<>> = s
      BY ConcatEmptySeq DEF Parts
    <3>4. QED
      BY <3>2, <3>3 DEF q
  <2>3. QED
    BY <2>1, <2>2, FlattenEmpty
<1>2. \A k \in T : k + 1 \in T
  <2> HIDE DEF P
  <2> SUFFICES ASSUME NEW k \in T, NEW u \in Parts, Len(u) = k + 1 PROVE P(u)
    OBVIOUS
  <2> USE DEF P
  <2>1. PICK v \in Parts : \E x \in Seq(Line) : u = Append(v, x) /\ Len(v) = k
    <3> DEFINE S == Seq(Line)
    <3>1. k \in Nat /\ u \in Seq(S)
      BY DEF Parts
    <3> HIDE DEF S
    <3>2. \E v \in Seq(S) : \E x \in S : u = Append(v, x) /\ Len(v) = k
      BY <3>1, LastIs
    <3>3. QED
      BY <3>2 DEF S, Parts
  <2>2. PICK x \in Seq(Line) : u = Append(v, x) /\ Len(v) = k
    BY <2>1
  <2>3. P(v)
    BY <2>2
  <2>4. s \o u = Append(s \o v, x)
    <3> DEFINE S == Seq(Line)
    <3>1. s \in Seq(S) /\ v \in Seq(S) /\ x \in S
      BY DEF Parts
    <3> HIDE DEF S
    <3>2. s \o v \in Seq(S)
      BY <3>1, ConcatProperties
    <3>3. Append(s \o v, x) = s \o Append(v, x)
      <4> DEFINE w == s \o v
                 one == <<x>>
      <4>1. Append(w, x) = w \o one /\ Append(v, x) = v \o one /\ one \in Seq(S)
        <5> HIDE DEF w
        <5>1. w \in Seq(S)
          BY <3>2 DEF w
        <5>2. QED
          BY <3>1, <5>1, AppendIs
      <4> HIDE DEF one
      <4>2. s \in Seq(S) /\ v \in Seq(S) /\ one \in Seq(S)
        BY <3>1, <4>1
      <4>3. (s \o v) \o one = s \o (v \o one)
        <5> HIDE DEF w, P, T
        <5>1. QED
          BY <4>2, Assoc
      <4>4. QED
        BY <4>1, <4>3
    <3>4. QED
      BY <2>2, <3>3
  <2>5. s \o v \in Parts
    BY ConcatProperties DEF Parts
  <2>6. FlattenSeq(s \o u) = FlattenSeq(s \o v) \o x
    BY <2>4, <2>5, FlattenAppend
  <2>7. FlattenSeq(u) = FlattenSeq(v) \o x
    BY <2>2, FlattenAppend
  <2> DEFINE a == FlattenSeq(s)
             b == FlattenSeq(v)
  <2>8. a \in Seq(Line) /\ b \in Seq(Line)
    BY FlattenType
  <2> HIDE DEF a, b
  <2>9. (a \o b) \o x = a \o (b \o x)
    BY <2>8, LineAssoc
  <2>10. QED
    BY <2>3, <2>6, <2>7, <2>9 DEF a, b
<1>3. T = Nat
  <2> HIDE DEF T
  <2>1. T \in SUBSET Nat
    BY DEF T
  <2>2. QED
    BY <1>1, <1>2, <2>1, NatSetInduction
<1>4. Len(t) \in Nat
  BY DEF Parts
<1>5. QED
  BY <1>3, <1>4

-----------------------------------------------------------------------------
(* What is left of units, and of lines.                                     *)

LEMMA ToldIs ==
    ASSUME NEW l \in Line
    PROVE  /\ Told(l) \in Seq(Line) /\ Len(Told(l)) <= 1
           /\ l.kind \notin Kind => Told(l) = <<>>
<1>1. <<l>> \in Seq(Line) /\ <<>> \in Seq(Line) /\ Len(<<l>>) = 1 /\ Len(<<>>) = 0
  OBVIOUS
<1>2. QED
  BY <1>1 DEF Told, FitsEmptyHeap

PartsOf(units) ==
    [i \in 1 .. Len(units) |-> IF units[i].end THEN Told(units[i].of) ELSE <<>>]

LEMMA PartsAre ==
    ASSUME NEW units \in Seq(Unit)
    PROVE  PartsOf(units) \in Parts /\ Len(PartsOf(units)) = Len(units)
<1>1. Len(units) \in Nat
  OBVIOUS
<1>2. ASSUME NEW i \in 1 .. Len(units)
      PROVE  (IF units[i].end THEN Told(units[i].of) ELSE <<>>) \in Seq(Line)
  <2>1. units[i] \in Unit
    BY ElementOfSeq
  <2>2. units[i].of \in Line
    BY <2>1 DEF Unit
  <2>3. QED
    BY <2>2, ToldIs, EmptySeq
<1>3. QED
  BY <1>1, <1>2 DEF PartsOf, Parts

LEMMA KeptInType ==
    ASSUME NEW units \in Seq(Unit)
    PROVE  /\ KeptIn(units) \in Seq(Line)
           /\ (\A i \in 1 .. Len(units) : ~units[i].end) => KeptIn(units) = <<>>
<1>1. PartsOf(units) \in Parts /\ Len(PartsOf(units)) = Len(units)
  BY PartsAre
<1>2. KeptIn(units) = FlattenSeq(PartsOf(units))
  BY DEF KeptIn, PartsOf
<1>3. KeptIn(units) \in Seq(Line)
  BY <1>1, <1>2, FlattenType
<1>4. ASSUME \A i \in 1 .. Len(units) : ~units[i].end
      PROVE  KeptIn(units) = <<>>
  <2>1. \A i \in 1 .. Len(PartsOf(units)) : PartsOf(units)[i] = <<>>
    BY <1>1, <1>4 DEF PartsOf
  <2>2. QED
    BY <1>1, <1>2, <2>1, FlattenType
<1>5. QED
  BY <1>3, <1>4

\* What is kept of two runs of units is kept of the one, then of the other
LEMMA KeptInJoin ==
    ASSUME NEW a \in Seq(Unit), NEW b \in Seq(Unit)
    PROVE  KeptIn(a \o b) = KeptIn(a) \o KeptIn(b)
<1> DEFINE c == a \o b
           u == PartsOf(a)
           v == PartsOf(b)
           m == Len(a)
           n == Len(b)
<1>1. /\ c \in Seq(Unit) /\ Len(c) = m + n /\ m \in Nat /\ n \in Nat
      /\ \A i \in 1 .. m + n : c[i] = IF i <= m THEN a[i] ELSE b[i - m]
  BY ConcatProperties
<1>2. /\ u \in Parts /\ Len(u) = m /\ v \in Parts /\ Len(v) = n
      /\ PartsOf(c) \in Parts /\ Len(PartsOf(c)) = m + n
  <2> HIDE DEF c
  <2>1. QED
    BY <1>1, PartsAre
<1>3. /\ u \o v \in Parts /\ Len(u \o v) = m + n
      /\ \A i \in 1 .. m + n : (u \o v)[i] = IF i <= m THEN u[i] ELSE v[i - m]
  <2> DEFINE S == Seq(Line)
  <2>1. u \in Seq(S) /\ v \in Seq(S) /\ Len(u) = m /\ Len(v) = n
    BY <1>2 DEF Parts
  <2> HIDE DEF u, v, S, m, n
  <2>2. /\ u \o v \in Seq(S) /\ Len(u \o v) = Len(u) + Len(v)
        /\ \A i \in 1 .. Len(u) + Len(v) :
              (u \o v)[i] = IF i <= Len(u) THEN u[i] ELSE v[i - Len(u)]
    BY <2>1, ConcatProperties
  <2>3. u \o v \in Parts
    BY <2>2 DEF S, Parts
  <2>4. QED
    BY <2>1, <2>2, <2>3
<1>4. ASSUME NEW i \in 1 .. m + n
      PROVE  PartsOf(c)[i] = (u \o v)[i]
  <2>1. PartsOf(c)[i] = IF c[i].end THEN Told(c[i].of) ELSE <<>>
    BY <1>1 DEF PartsOf
  <2>2. CASE i <= m
    <3>1. i \in 1 .. m /\ c[i] = a[i] /\ (u \o v)[i] = u[i]
      BY <1>1, <1>3, <2>2
    <3>2. u[i] = IF a[i].end THEN Told(a[i].of) ELSE <<>>
      BY <3>1 DEF PartsOf
    <3>3. QED
      BY <2>1, <3>1, <3>2
  <2>3. CASE ~ (i <= m)
    <3>1. i - m \in 1 .. n /\ c[i] = b[i - m] /\ (u \o v)[i] = v[i - m]
      BY <1>1, <1>3, <2>3
    <3>2. v[i - m] = IF b[i - m].end THEN Told(b[i - m].of) ELSE <<>>
      BY <3>1 DEF PartsOf
    <3>3. QED
      BY <2>1, <3>1, <3>2
  <2>4. QED
    BY <2>2, <2>3
<1>5. PartsOf(c) = u \o v
  <2> DEFINE w == u \o v
             x == PartsOf(c)
             S == Seq(Line)
  <2>1. x \in Seq(S) /\ w \in Seq(S) /\ Len(x) = m + n /\ Len(w) = m + n
        /\ \A i \in 1 .. m + n : x[i] = w[i]
    BY <1>2, <1>3, <1>4 DEF Parts
  <2> HIDE DEF w, x, S
  <2>2. x = w
    BY <2>1, SeqEqual
  <2>3. QED
    BY <2>2 DEF w, x
<1>6. FlattenSeq(u \o v) = FlattenSeq(u) \o FlattenSeq(v)
  <2> HIDE DEF u, v
  <2>1. QED
    BY <1>2, FlattenConcat
<1>7. /\ KeptIn(c) = FlattenSeq(PartsOf(c)) /\ KeptIn(a) = FlattenSeq(u)
      /\ KeptIn(b) = FlattenSeq(v)
  <2> HIDE DEF c
  <2>1. QED
    BY DEF KeptIn, PartsOf
<1> HIDE DEF u, v
<1>8. QED
  BY <1>5, <1>6, <1>7

LEMMA KeptInOne ==
    ASSUME NEW u \in Unit
    PROVE  KeptIn(<<u>>) = IF u.end THEN Told(u.of) ELSE <<>>
<1> DEFINE x == IF u.end THEN Told(u.of) ELSE <<>>
           none == <<>>
<1>1. x \in Seq(Line) /\ none \in Parts
  <2>1. u.of \in Line
    BY DEF Unit
  <2>2. QED
    BY <2>1, ToldIs, EmptySeq DEF Parts
<1>2. PartsOf(<<u>>) = Append(none, x)
  <2> DEFINE s == <<u>>
  <2>1. Len(s) = 1 /\ s[1] = u
    OBVIOUS
  <2>2. PartsOf(s) = [i \in 1 .. 1 |-> x]
    <3>1. \A i \in 1 .. 1 : s[i] = u
      BY <2>1
    <3> HIDE DEF s
    <3>2. QED
      BY <2>1, <3>1 DEF PartsOf
  <2> HIDE DEF x
  <2>3. [i \in 1 .. 1 |-> x] = Append(none, x)
    <3>1. Append(none, x) = <<x>>
      OBVIOUS
    <3>2. QED
      BY <3>1
  <2>4. QED
    BY <2>2, <2>3
<1>3. FlattenSeq(Append(none, x)) = FlattenSeq(none) \o x
  <2> HIDE DEF x, none
  <2>1. QED
    BY <1>1, FlattenAppend
<1>4. FlattenSeq(none) \o x = x
  <2> HIDE DEF x
  <2>1. QED
    BY <1>1, FlattenEmpty, ConcatEmptySeq
<1>5. KeptIn(<<u>>) = FlattenSeq(PartsOf(<<u>>))
  BY DEF KeptIn, PartsOf
<1>6. QED
  BY <1>2, <1>3, <1>4, <1>5

LEMMA KeptAppend ==
    ASSUME NEW w \in Seq(Line), NEW l \in Line
    PROVE  Kept(w) \in Seq(Line) /\ Kept(Append(w, l)) = Kept(w) \o Told(l)
<1> DEFINE P(v) == [i \in 1 .. Len(v) |-> Told(v[i])]
           n == Len(w)
           v == Append(w, l)
           x == Told(l)
<1>1. n \in Nat /\ P(w) \in Parts /\ Len(P(w)) = n /\ x \in Seq(Line)
  <2>1. \A i \in 1 .. n : Told(w[i]) \in Seq(Line)
    BY ElementOfSeq, ToldIs
  <2>2. n \in Nat /\ x \in Seq(Line)
    BY ToldIs
  <2>3. QED
    BY <2>1, <2>2 DEF Parts
<1>2. /\ v \in Seq(Line) /\ Len(v) = n + 1 /\ v[n + 1] = l
      /\ \A i \in 1 .. n : v[i] = w[i]
  BY AppendProperties
<1>3. P(v) = Append(P(w), x)
  <2> DEFINE a == P(v)
             b == P(w)
             c == Append(b, x)
             S == Seq(Line)
  <2> HIDE DEF v
  <2>1. /\ a \in Seq(S) /\ Len(a) = n + 1 /\ a[n + 1] = x
        /\ \A i \in 1 .. n : a[i] = Told(w[i])
    <3>1. \A i \in 1 .. n + 1 : Told(v[i]) \in S
      BY <1>2, ElementOfSeq, ToldIs
    <3> HIDE DEF S
    <3>2. QED
      BY <1>1, <1>2, <3>1
  <2>2. b \in Seq(S) /\ Len(b) = n /\ x \in S /\ \A i \in 1 .. n : b[i] = Told(w[i])
    BY <1>1 DEF Parts
  <2> HIDE DEF a, b, x, S, n
  <2>3. /\ c \in Seq(S) /\ Len(c) = n + 1 /\ c[n + 1] = x
        /\ \A i \in 1 .. n : c[i] = b[i]
    BY <2>2, AppendProperties
  <2> HIDE DEF c
  <2>4. \A i \in 1 .. n + 1 : a[i] = c[i]
    <3> SUFFICES ASSUME NEW i \in 1 .. n + 1 PROVE a[i] = c[i]
      OBVIOUS
    <3>1. i = n + 1 \/ i \in 1 .. n
      BY <1>1
    <3>2. QED
      BY <2>1, <2>2, <2>3, <3>1
  <2>5. a = c
    BY <2>1, <2>3, <2>4, SeqEqual
  <2>6. QED
    BY <2>5 DEF a, b, c
<1>4. Kept(w) = FlattenSeq(P(w)) /\ Kept(v) = FlattenSeq(P(v))
  <2> HIDE DEF v
  <2>1. QED
    BY DEF Kept
<1>5. FlattenSeq(P(w)) \in Seq(Line) /\ FlattenSeq(Append(P(w), x)) = FlattenSeq(P(w)) \o x
  <2> DEFINE b == P(w)
  <2>1. b \in Parts
    BY <1>1
  <2> HIDE DEF b, x, P
  <2>2. FlattenSeq(b) \in Seq(Line) /\ FlattenSeq(Append(b, x)) = FlattenSeq(b) \o x
    BY <1>1, <2>1, FlattenType, FlattenAppend
  <2>3. QED
    BY <2>2 DEF b
<1> HIDE DEF P
<1>6. QED
  BY <1>3, <1>4, <1>5

\* A sequence is its first part, then the rest
LEMMA SplitAt ==
    ASSUME NEW S, NEW s \in Seq(S), NEW n \in 0 .. Len(s)
    PROVE  /\ SubSeq(s, 1, n) \in Seq(S) /\ SubSeq(s, n + 1, Len(s)) \in Seq(S)
           /\ Len(SubSeq(s, 1, n)) = n /\ \A i \in 1 .. n : SubSeq(s, 1, n)[i] = s[i]
           /\ s = SubSeq(s, 1, n) \o SubSeq(s, n + 1, Len(s))
<1> DEFINE a == SubSeq(s, 1, n)
           b == SubSeq(s, n + 1, Len(s))
           c == a \o b
           k == Len(s)
<1>1. k \in Nat /\ n \in Nat /\ n <= k /\ \A i \in 1 .. k : s[i] \in S
  BY ElementOfSeq
<1>2. a \in Seq(S) /\ Len(a) = n /\ \A i \in 1 .. n : a[i] = s[i]
  <2>1. \A i \in 1 .. n : s[i] \in S
    BY <1>1
  <2>2. QED
    BY <1>1, <2>1, SubSeqProperties
<1>3. b \in Seq(S) /\ Len(b) = k - n /\ \A i \in 1 .. k - n : b[i] = s[n + i]
  <2> DEFINE m == n + 1
  <2>1. \A i \in m .. k : s[i] \in S
    BY <1>1
  <2>2. m \in Int /\ k \in Int /\ (k - m) + 1 = k - n
    BY <1>1
  <2> HIDE DEF m, k
  <2>3. /\ SubSeq(s, m, k) \in Seq(S)
        /\ Len(SubSeq(s, m, k)) = IF m <= k THEN (k - m) + 1 ELSE 0
        /\ \A i \in 1 .. (k - m) + 1 : SubSeq(s, m, k)[i] = s[(m + i) - 1]
    BY <2>1, <2>2, SubSeqProperties
  <2>4. Len(SubSeq(s, m, k)) = k - n
    BY <1>1, <2>2, <2>3 DEF m
  <2>5. \A i \in 1 .. k - n : (m + i) - 1 = n + i
    BY <1>1 DEF m
  <2>6. QED
    BY <2>2, <2>3, <2>4, <2>5 DEF m, k
<1> HIDE DEF a, b
<1>4. /\ c \in Seq(S) /\ Len(c) = n + (k - n)
      /\ \A i \in 1 .. n + (k - n) : c[i] = IF i <= n THEN a[i] ELSE b[i - n]
  BY <1>2, <1>3, ConcatProperties
<1> HIDE DEF c, k
<1>5. n + (k - n) = k
  BY <1>1
<1>6. ASSUME NEW i \in 1 .. k PROVE c[i] = s[i]
  <2>1. CASE i <= n
    <3>1. i \in 1 .. n
      BY <1>1, <2>1
    <3>2. QED
      BY <1>2, <1>4, <1>5, <2>1, <3>1
  <2>2. CASE ~ (i <= n)
    <3>1. i - n \in 1 .. k - n /\ n + (i - n) = i
      BY <1>1, <2>2
    <3>2. QED
      BY <1>3, <1>4, <1>5, <2>2, <3>1
  <2>3. QED
    BY <2>1, <2>2
<1>7. c = s
  BY <1>4, <1>5, <1>6, SeqEqual DEF k
<1>8. QED
  BY <1>2, <1>3, <1>7 DEF a, b, c

-----------------------------------------------------------------------------
(* No line is skipped.                                                      *)

\* What the CONTROL agent will have been told of, if nothing more is written
Flow == (given \o KeptIn(wrap.buf)) \o KeptIn(wrap.pipe)

Within == heap.item <= HeapSize

\* The end of the pipe is only met once it is empty
EofEmpty == data.state = "ACTIVE" /\ wrap.eof => wrap.pipe = <<>> /\ formatter.exited

\* What is left of a line that the formatter died writing is the last there is
Conserved ==
    data.state = "ACTIVE" =>
        \E x \in Seq(Line) :
            /\ Flow = Kept(written) \o x
            /\ Len(x) <= 1
            /\ x # <<>> => wrap.eof /\ wrap.buf = <<>>

Unskipped == Within /\ EofEmpty /\ Conserved

LEMMA HeapFields ==
    ASSUME NEW h, HeapOK(h), NEW k \in Kind
    PROVE  /\ h.entry \in Nat /\ h.item \in Nat
           /\ Reset(h).item = HeapSize /\ Reset(h).entry = 0
           /\ Typed(h, k).item = h.item /\ Typed(h, k).entry = h.entry
           /\ h.entry = 0 => Typed(h, k).type = k /\ Typed(h, k).size = EntrySize[k]
<1>1. h \in HeapType
  BY DEF HeapOK, HeapShape
<1>2. QED
  BY <1>1 DEF HeapType, Reset, Typed

LEMMA AddedWithin ==
    ASSUME NEW h, HeapOK(h), NEW l \in Line
    PROVE  Added(h, l).item <= h.item
<1> DEFINE e == EntryAdded(h, l)
           a == Aligned(l.name)
<1>1. h \in HeapType /\ h.item \in Nat
  BY DEF HeapOK, HeapShape, HeapType
<1>2. e.item = h.item
  BY <1>1 DEF EntryAdded, HeapType
<1>3. a \in Nat
  BY AlignedBounds DEF Line
<1>4. CASE l.kind = "node"
  <2>1. Added(h, l) = e
    BY <1>4 DEF Added
  <2> HIDE DEF e
  <2>2. QED
    BY <1>1, <1>2, <2>1
<1>5. CASE l.kind # "node"
  <2>1. Added(h, l) = ItemAdded(e, l.name)
    BY <1>5 DEF Added
  <2>2. \/ Added(h, l) = [e EXCEPT !.item = e.item - a]
        \/ Added(h, l) = [e EXCEPT !.null = TRUE]
    BY <2>1 DEF ItemAdded
  <2>3. DOMAIN e = DOMAIN h /\ "item" \in DOMAIN h
    BY <1>1 DEF EntryAdded, HeapType
  <2> HIDE DEF e, a
  <2>4. Added(h, l).item \in {e.item - a, e.item}
    BY <2>2, <2>3
  <2>5. QED
    BY <1>1, <1>2, <1>3, <2>4
<1>6. QED
  BY <1>4, <1>5

\* An entry is given to the heap if one that is empty can hold it
LEMMA LineTold ==
    ASSUME HeapOK(heap), Ordered, Within, NEW l \in Line, LineIn(l)
    PROVE  Within' /\ given' = given \o Told(l)
<1>1. given \in Seq(Line) /\ given \o <<>> = given
  BY ConcatEmptySeq DEF Ordered
<1>2. CASE l.kind \in Kind /\ EntryGiven(l)
  <2> DEFINE h == Typed(heap, l.kind)
             e == Typed(Reset(h), l.kind)
             size == EntrySize[l.kind]
             need == ItemsNeed(l)
  <2>1. HeapOK(h) /\ HeapOK(Reset(h)) /\ HeapOK(e)
    <3>1. HeapOK(h)
      BY <1>2, TypedOK
    <3>2. HeapOK(Reset(h))
      <4> HIDE DEF h
      <4>1. QED
        BY <3>1, ResetOK
    <3>3. QED
      BY <1>2, <3>1, <3>2, TypedOK
  <2>2. h.item = heap.item /\ h.entry \in Nat /\ heap.item \in Nat /\ heap.item <= HeapSize
    <3>1. h.item = heap.item /\ heap.item \in Nat
      BY <1>2, HeapFields
    <3>2. h.entry \in Nat
      <4> HIDE DEF h
      <4>1. QED
        BY <1>2, <2>1, HeapFields
    <3>3. QED
      BY <3>1, <3>2 DEF Within
  <2>3. e.item = HeapSize /\ e.entry = 0 /\ e.type = l.kind /\ e.size = size
    <3> DEFINE r == Reset(h)
    <3>1. r.item = HeapSize /\ r.entry = 0
      <4> HIDE DEF h
      <4>1. QED
        BY <1>2, <2>1, HeapFields
    <3>2. HeapOK(r)
      BY <2>1
    <3> HIDE DEF r
    <3>3. QED
      BY <1>2, <3>1, <3>2, HeapFields DEF r
  <2>4. size \in Nat /\ need \in Nat /\ HeapSize \in Nat
    BY <1>2, LinesAssumption, SizesAreNat, ItemsNeedIsNat
  <2>5. FitsEmptyHeap(l) <=> size < HeapSize - need
    BY <1>2 DEF FitsEmptyHeap
  <2>6. Prepared(h, l) => size < HeapSize - need
    <3> SUFFICES ASSUME Prepared(h, l) PROVE size < HeapSize - need
      OBVIOUS
    <3>1. h.size = size /\ h.entry + h.size < h.item - need
      BY DEF Prepared, SameType
    <3> HIDE DEF h, size, need
    <3>2. QED
      BY <2>2, <2>4, <3>1
  <2>7. Prepared(e, l) <=> size < HeapSize - need
    <3>1. Prepared(e, l) <=> e.entry + e.size < e.item - need
      BY <2>3 DEF Prepared, SameType
    <3> HIDE DEF e, size, need
    <3>2. QED
      BY <2>3, <2>4, <3>1
  <2>8. Append(given, l) = given \o <<l>>
    BY <1>1, AppendIs
  <2>9. Added(h, l).item <= HeapSize /\ Added(e, l).item <= HeapSize
    <3>1. Added(h, l).item <= h.item /\ Added(e, l).item <= e.item
      <4> HIDE DEF h, e
      <4>1. QED
        BY <2>1, AddedWithin
    <3>2. Added(h, l).item \in Int
      <4>1. l.name \in Nat
        BY DEF Line
      <4> HIDE DEF h
      <4>2. h \in HeapType /\ h.item \in Nat
        BY <2>1 DEF HeapOK, HeapShape, HeapType
      <4>3. EntryAdded(h, l).item = h.item /\ DOMAIN EntryAdded(h, l) = DOMAIN h
            /\ "item" \in DOMAIN h
        BY <4>2 DEF EntryAdded, HeapType
      <4> DEFINE d == EntryAdded(h, l)
                 a == Aligned(l.name)
      <4>4. a \in Nat
        BY <4>1, AlignedBounds
      <4>5. Added(h, l) \in {d, [d EXCEPT !.item = d.item - a], [d EXCEPT !.null = TRUE]}
        BY DEF Added, ItemAdded
      <4> HIDE DEF d, a
      <4>6. Added(h, l).item \in {d.item, d.item - a}
        BY <4>3, <4>5 DEF d
      <4>7. d.item = h.item
        BY <4>3 DEF d
      <4>8. QED
        BY <4>2, <4>4, <4>6, <4>7
    <3> HIDE DEF h, e
    <3>3. QED
      BY <2>2, <2>3, <2>4, <3>1, <3>2
  <2>10. CASE Prepared(h, l) /\ heap' = Added(h, l) /\ given' = Append(given, l)
    BY <2>5, <2>6, <2>8, <2>9, <2>10 DEF Told, Within
  <2>11. CASE Prepared(e, l) /\ heap' = Added(e, l) /\ given' = Append(given, l)
    BY <2>5, <2>7, <2>8, <2>9, <2>11 DEF Told, Within
  <2>12. CASE ~Prepared(e, l) /\ heap' = e /\ given' = given
    <3>1. heap'.item <= HeapSize
      <4> HIDE DEF e
      <4>1. QED
        BY <2>3, <2>4, <2>12
    <3>2. ~FitsEmptyHeap(l)
      BY <2>5, <2>7, <2>12
    <3>3. QED
      BY <1>1, <2>12, <3>1, <3>2 DEF Told, Within
  <2>13. QED
    BY <1>2, <2>10, <2>11, <2>12 DEF EntryGiven
<1>3. CASE l.kind \notin Kind /\ UNCHANGED <<heap, index, given>>
  BY <1>1, <1>3, ToldIs DEF Within
<1>4. QED
  BY <1>2, <1>3 DEF LineIn

LEMMA FlowParts ==
    ASSUME PipesOK, Ordered
    PROVE  /\ given \in Seq(Line) /\ Kept(written) \in Seq(Line)
           /\ wrap.buf \in Seq(Unit) /\ wrap.pipe \in Seq(Unit)
           /\ KeptIn(wrap.buf) \in Seq(Line) /\ KeptIn(wrap.pipe) \in Seq(Line)
           /\ Flow \in Seq(Line)
<1>1. wrap.buf \in Seq(Unit) /\ wrap.pipe \in Seq(Unit) /\ written \in Seq(Line)
  BY DEF PipesOK
<1>2. [kind |-> "other", name |-> 0, len |-> 1] \in Line
  BY DEF Line
<1>3. Kept(written) \in Seq(Line)
  BY <1>1, <1>2, KeptAppend
<1>4. KeptIn(wrap.buf) \in Seq(Line) /\ KeptIn(wrap.pipe) \in Seq(Line)
  BY <1>1, KeptInType
<1>5. given \in Seq(Line)
  BY DEF Ordered
<1> DEFINE b == KeptIn(wrap.buf)
           p == KeptIn(wrap.pipe)
<1>6. (given \o b) \o p \in Seq(Line)
  <2> HIDE DEF b, p
  <2>1. b \in Seq(Line) /\ p \in Seq(Line)
    BY <1>4 DEF b, p
  <2>2. given \o b \in Seq(Line)
    BY <1>5, <2>1, ConcatProperties
  <2>3. QED
    BY <2>1, <2>2, ConcatProperties
<1>7. QED
  BY <1>1, <1>3, <1>4, <1>5, <1>6 DEF Flow

LEMMA NothingYet == KeptIn(<<>>) = <<>> /\ Kept(<<>>) = <<>>
<1>1. <<>> \in Seq(Unit) /\ Len(<<>>) = 0
  BY EmptySeq
<1>2. KeptIn(<<>>) = <<>>
  <2> DEFINE s == <<>>
  <2>1. s \in Seq(Unit) /\ \A i \in 1 .. Len(s) : ~s[i].end
    BY <1>1
  <2> HIDE DEF s
  <2>2. KeptIn(s) = <<>>
    BY <2>1, KeptInType
  <2>3. QED
    BY <2>2 DEF s
<1> DEFINE none == <<>>
           f == [i \in 1 .. Len(none) |-> Told(none[i])]
<1>3. f = <<>>
  BY <1>1
<1>4. Kept(none) = FlattenSeq(f)
  <2> HIDE DEF none
  <2>1. QED
    BY DEF Kept
<1>5. FlattenSeq(f) = <<>>
  BY <1>3, FlattenEmpty
<1>6. QED
  BY <1>2, <1>4, <1>5

LEMMA InitUnskipped == Init => Unskipped
<1> SUFFICES ASSUME Init PROVE Unskipped
  OBVIOUS
<1>1. IInv
  BY InitKeeps
<1>2. /\ wrap.buf = <<>> /\ wrap.pipe = <<>> /\ ~wrap.eof /\ given = <<>>
      /\ written = <<>> /\ heap.item = HeapSize
  BY DEF Init, NoEntries
<1>3. Within
  BY <1>2, SizesAreNat DEF Within
<1>4. Flow = <<>> /\ Kept(written) = <<>>
  <2> DEFINE none == <<>>
  <2>1. Flow = (none \o none) \o none
    BY <1>2, NothingYet DEF Flow
  <2>2. none \o none = none
    OBVIOUS
  <2>3. QED
    BY <1>2, <2>1, <2>2, NothingYet
<1>5. <<>> \in Seq(Line) /\ <<>> \o <<>> = <<>> /\ Len(<<>>) = 0
  BY EmptySeq
<1>6. Conserved
  <2> DEFINE none == <<>>
  <2>1. /\ none \in Seq(Line) /\ Flow = Kept(written) \o none /\ Len(none) <= 1
        /\ none # <<>> => wrap.eof /\ wrap.buf = <<>>
    BY <1>4, <1>5
  <2> HIDE DEF none
  <2>2. QED
    BY <2>1 DEF Conserved
<1>7. QED
  BY <1>2, <1>3, <1>6 DEF Unskipped, EofEmpty

\* A step that touches neither the wrap channel nor the heap
LEMMA Unmoved ==
    ASSUME Unskipped, UNCHANGED <<wrap, heap, given, written>>,
           data'.state = data.state, formatter.exited => formatter'.exited
    PROVE  Unskipped'
<1>1. Within'
  BY DEF Unskipped, Within
<1>2. EofEmpty'
  BY DEF Unskipped, EofEmpty
<1>3. Flow' = Flow /\ Kept(written)' = Kept(written)
  BY DEF Flow
<1>4. Conserved'
  BY <1>3 DEF Unskipped, Conserved
<1>5. QED
  BY <1>1, <1>2, <1>4 DEF Unskipped

\* ndma_data.c reads on until the pipe is empty: what is in front of its end is
\* all there is
LEMMA AllThere ==
    ASSUME IInv, Unskipped, data.state = "ACTIVE", ~wrap.eof \/ wrap.buf # <<>>
    PROVE  Flow = Kept(written)
<1>1. PICK x \in Seq(Line) :
        Flow = Kept(written) \o x /\ (x # <<>> => wrap.eof /\ wrap.buf = <<>>)
  BY DEF Unskipped, Conserved
<1>2. x = <<>>
  BY <1>1
<1> DEFINE k == Kept(written)
<1>3. k \in Seq(Line)
  BY FlowParts DEF IInv
<1> HIDE DEF k
<1>4. k \o <<>> = k
  BY <1>3, ConcatEmptySeq
<1>5. QED
  BY <1>1, <1>2, <1>4 DEF k

LEMMA WritesUnskipped ==
    ASSUME IInv, Unskipped, WritesLine
    PROVE  Unskipped'
<1> DEFINE u == Head(formatter.line)
           t == KeptIn(<<u>>)
<1>1. /\ data.state = "ACTIVE" /\ ~formatter.exited
      /\ formatter.line \in Seq(Unit) /\ formatter.line # <<>>
  BY DEF WritesLine, Running, IInv, PipesOK
<1>2. ~wrap.eof
  BY <1>1 DEF Unskipped, EofEmpty
<1>3. Flow = Kept(written)
  BY <1>1, <1>2, AllThere
<1>4. u \in Unit /\ u.of \in Line
  <2>1. u \in Unit
    BY <1>1, HeadTailProperties
  <2> HIDE DEF u
  <2>2. QED
    BY <2>1 DEF Unit
<1>5. t = (IF u.end THEN Told(u.of) ELSE <<>>) /\ t \in Seq(Line)
  <2> HIDE DEF u
  <2>1. t = IF u.end THEN Told(u.of) ELSE <<>>
    BY <1>4, KeptInOne
  <2>2. QED
    BY <1>4, <2>1, ToldIs, EmptySeq
<1>6. /\ wrap'.buf = wrap.buf /\ ~wrap'.eof /\ given' = given /\ heap' = heap
      /\ data' = data /\ wrap'.pipe = wrap.pipe \o <<u>>
  <2>1. wrap'.pipe = Append(wrap.pipe, u)
    BY DEF WritesLine, IInv, PipesOK
  <2>2. Append(wrap.pipe, u) = wrap.pipe \o <<u>>
    <3> HIDE DEF u
    <3>1. QED
      BY <1>4, FlowParts, AppendIs DEF IInv
  <2>3. QED
    BY <1>2, <2>1, <2>2 DEF WritesLine, IInv, PipesOK
<1>7. KeptIn(wrap'.pipe) = KeptIn(wrap.pipe) \o t
  <2> DEFINE one == <<u>>
  <2>1. one \in Seq(Unit)
    BY <1>4
  <2> HIDE DEF one
  <2>2. KeptIn(wrap.pipe \o one) = KeptIn(wrap.pipe) \o KeptIn(one)
    BY <2>1, FlowParts, KeptInJoin DEF IInv
  <2>3. QED
    BY <1>6, <2>2 DEF one
<1>8. Flow' = Flow \o t
  <2> DEFINE a == given \o KeptIn(wrap.buf)
             p == KeptIn(wrap.pipe)
  <2>1. a \in Seq(Line) /\ p \in Seq(Line)
    BY FlowParts, ConcatProperties DEF IInv
  <2>2. Flow = a \o p /\ Flow' = a \o (p \o t)
    BY <1>6, <1>7 DEF Flow
  <2>3. t \in Seq(Line)
    BY <1>5
  <2> HIDE DEF a, p, t
  <2>4. (a \o p) \o t = a \o (p \o t)
    BY <2>1, <2>3, LineAssoc
  <2>5. QED
    BY <2>2, <2>4
<1>9. Kept(written') = Kept(written) \o t
  <2> DEFINE k == Kept(written)
             l == u.of
  <2>1. k \in Seq(Line) /\ written \in Seq(Line)
    BY FlowParts DEF IInv, PipesOK
  <2>2. CASE u.end
    <3>1. written' = Append(written, l) /\ t = Told(l)
      BY <1>5, <2>2 DEF WritesLine
    <3> HIDE DEF u, t, l
    <3>2. l \in Line
      BY <1>4 DEF l
    <3>3. QED
      BY <2>1, <3>1, <3>2, KeptAppend
  <2>3. CASE ~u.end
    <3>1. written' = written /\ t = <<>>
      BY <1>5, <2>3 DEF WritesLine
    <3> HIDE DEF k, t
    <3>2. k \o <<>> = k
      BY <2>1, ConcatEmptySeq
    <3>3. QED
      BY <3>1, <3>2 DEF k
  <2>4. QED
    BY <2>2, <2>3
<1> HIDE DEF t, u
<1>10. Flow' = Kept(written') \o <<>>
  <2> DEFINE k == Kept(written) \o t
  <2>1. k \in Seq(Line)
    BY <1>5, FlowParts, ConcatProperties DEF IInv
  <2> HIDE DEF k
  <2>2. k \o <<>> = k
    BY <2>1, ConcatEmptySeq
  <2>3. QED
    BY <1>3, <1>8, <1>9, <2>2 DEF k
<1>11. Conserved'
  <2> DEFINE none == <<>>
  <2>1. /\ none \in Seq(Line) /\ Flow' = Kept(written)' \o none /\ Len(none) <= 1
        /\ none = <<>>
    BY <1>10, EmptySeq
  <2> HIDE DEF none
  <2>2. QED
    BY <2>1 DEF Conserved
<1>12. QED
  BY <1>6, <1>11 DEF Unskipped, Within, EofEmpty

\* ndmchan_n_avail() moves the channel's data, and loses none of it
LEMMA CompressedFields ==
    ASSUME PipesOK
    PROVE  /\ Compressed(wrap) \in [pipe : Seq(Unit), buf : Seq(Unit), beg : Nat,
                                    eof : BOOLEAN]
           /\ Compressed(wrap).pipe = wrap.pipe /\ Compressed(wrap).buf = wrap.buf
           /\ Compressed(wrap).eof = wrap.eof
  BY DEF PipesOK, Compressed

\* A read of the wrap pipe takes its first units to the end of the channel, or
\* finds the pipe empty and the formatter gone
LEMMA PollMoves ==
    ASSUME PipesOK, Poll, ~wrap.eof
    PROVE  /\ wrap'.buf \in Seq(Unit) /\ wrap'.pipe \in Seq(Unit)
           /\ KeptIn(wrap'.buf) \o KeptIn(wrap'.pipe)
                  = KeptIn(wrap.buf) \o KeptIn(wrap.pipe)
           /\ wrap'.eof => wrap'.pipe = <<>> /\ formatter.exited
<1> DEFINE w == Compressed(wrap)
           n == Least(Room(w), Len(w.pipe))
<1>1. /\ w \in [pipe : Seq(Unit), buf : Seq(Unit), beg : Nat, eof : BOOLEAN]
      /\ w.pipe = wrap.pipe /\ w.buf = wrap.buf /\ w.eof = wrap.eof
  BY CompressedFields
<1>2. wrap' = WrapPolled(w)
  BY DEF Poll
<1> HIDE DEF w
<1>3. /\ w.pipe \in Seq(Unit) /\ w.buf \in Seq(Unit)
      /\ Len(w.pipe) \in Nat /\ Room(w) \in Int
  BY <1>1, SizesAreNat, LenProperties DEF Room, End
<1>4. CASE n > 0
  <2> DEFINE rest == SubSeq(w.pipe, n + 1, Len(w.pipe))
             first == SubSeq(w.pipe, 1, n)
             b == w.buf \o first
  <2>1. n \in 0 .. Len(w.pipe)
    BY <1>3, <1>4 DEF Least
  <2>2. wrap' = [w EXCEPT !.pipe = rest, !.buf = b]
    BY <1>2, <1>4 DEF WrapPolled
  <2> HIDE DEF n
  <2>3. first \in Seq(Unit) /\ rest \in Seq(Unit) /\ w.pipe = first \o rest
    BY <1>3, <2>1, SplitAt
  <2> HIDE DEF first, rest
  <2>4. b \in Seq(Unit) /\ KeptIn(b) = KeptIn(w.buf) \o KeptIn(first)
    BY <1>3, <2>3, ConcatProperties, KeptInJoin
  <2>5. KeptIn(w.pipe) = KeptIn(first) \o KeptIn(rest)
    BY <2>3, KeptInJoin
  <2> HIDE DEF b
  <2>6. wrap'.buf = b /\ wrap'.pipe = rest /\ ~wrap'.eof
    BY <1>1, <2>2
  <2> DEFINE k == KeptIn(w.buf)
             f == KeptIn(first)
             r == KeptIn(rest)
  <2>7. k \in Seq(Line) /\ f \in Seq(Line) /\ r \in Seq(Line)
    BY <1>3, <2>3, KeptInType
  <2> HIDE DEF k, f, r
  <2>8. (k \o f) \o r = k \o (f \o r)
    BY <2>7, LineAssoc
  <2>9. QED
    BY <1>1, <2>3, <2>4, <2>5, <2>6, <2>8 DEF k, f, r
<1>5. CASE ~(n > 0)
  <2> DEFINE x == Room(w) > 0 /\ formatter.exited
  <2>1. wrap' = [w EXCEPT !.eof = x]
    BY <1>2, <1>5 DEF WrapPolled
  <2>2. Room(w) > 0 => Len(w.pipe) = 0
    BY <1>3, <1>5 DEF Least
  <2>3. x => w.pipe = <<>> /\ formatter.exited
    BY <1>3, <2>2
  <2> HIDE DEF x, n
  <2>4. wrap'.buf = w.buf /\ wrap'.pipe = w.pipe /\ wrap'.eof = x
    BY <1>1, <2>1
  <2>5. QED
    BY <1>1, <1>3, <2>3, <2>4
<1>6. QED
  BY <1>4, <1>5

LEMMA PollUnskipped ==
    ASSUME IInv, Unskipped, Poll
    PROVE  Unskipped'
<1>1. /\ data.state = "ACTIVE" /\ data'.state = data.state /\ UNCHANGED formatter
      /\ heap' = heap /\ given' = given /\ written' = written
  BY DEF Poll, At, Goes, IInv, PipesOK
<1>2. CASE wrap.eof
  <2>1. wrap' = wrap
    BY <1>2 DEF Poll
  <2>2. QED
    BY <1>1, <2>1, Unmoved
<1>3. CASE ~wrap.eof
  <2>1. /\ wrap'.buf \in Seq(Unit) /\ wrap'.pipe \in Seq(Unit)
        /\ KeptIn(wrap'.buf) \o KeptIn(wrap'.pipe)
               = KeptIn(wrap.buf) \o KeptIn(wrap.pipe)
        /\ wrap'.eof => wrap'.pipe = <<>> /\ formatter.exited
    BY <1>3, PollMoves DEF IInv
  <2>2. Flow = Kept(written)
    BY <1>1, <1>3, AllThere
  <2>3. Flow' = Flow
    <3> DEFINE b == KeptIn(wrap.buf)
               p == KeptIn(wrap.pipe)
               c == KeptIn(wrap'.buf)
               q == KeptIn(wrap'.pipe)
    <3>1. /\ b \in Seq(Line) /\ p \in Seq(Line) /\ c \in Seq(Line) /\ q \in Seq(Line)
          /\ given \in Seq(Line)
      <4>1. c \in Seq(Line) /\ q \in Seq(Line)
        BY <2>1, KeptInType
      <4>2. b \in Seq(Line) /\ p \in Seq(Line) /\ given \in Seq(Line)
        BY FlowParts DEF IInv
      <4>3. QED
        BY <4>1, <4>2
    <3>2. Flow = (given \o b) \o p /\ Flow' = (given \o c) \o q
      BY <1>1 DEF Flow
    <3>3. c \o q = b \o p
      BY <2>1
    <3> HIDE DEF b, p, c, q
    <3>4. (given \o b) \o p = given \o (b \o p)
      BY <3>1, LineAssoc, Zenon
    <3>5. (given \o c) \o q = given \o (c \o q)
      BY <3>1, LineAssoc, Zenon
    <3>6. QED
      BY <3>2, <3>3, <3>4, <3>5
  <2>4. Kept(written') = Kept(written)
    BY <1>1
  <2>5. Conserved'
    <3> DEFINE none == <<>>
               k == Kept(written)
    <3>1. k \in Seq(Line)
      BY FlowParts DEF IInv
    <3>2. k \o none = k
      <4> HIDE DEF k
      <4>1. QED
        BY <3>1, ConcatEmptySeq
    <3>3. /\ none \in Seq(Line) /\ Len(none) <= 1 /\ none = <<>>
          /\ Flow' = Kept(written)' \o none
      BY <2>2, <2>3, <2>4, <3>2, EmptySeq
    <3> HIDE DEF none, k
    <3>4. QED
      BY <3>3 DEF Conserved
  <2>6. QED
    BY <1>1, <2>1, <2>5 DEF Unskipped, Within, EofEmpty
<1>4. QED
  BY <1>2, <1>3

\* ndmda_quantum_wrap() takes the units up to a newline: the line they make
LEMMA LineUnskipped ==
    ASSUME IInv, Unskipped, TakesLine
    PROVE  Unskipped'
<1>1. PICK n \in 1 .. Len(wrap.buf) :
        /\ NewlineAt(n)
        /\ wrap' = [wrap EXCEPT !.buf = SubSeq(@, n + 1, Len(@)), !.beg = @ + n]
        /\ LineIn(wrap.buf[n].of)
  BY DEF TakesLine
<1>2. /\ data.state = "ACTIVE" /\ UNCHANGED <<formatter, data, written>>
      /\ PipesOK /\ HeapOK(heap) /\ Ordered /\ Within
  BY DEF TakesLine, At, IInv, Unskipped
<1> DEFINE s == wrap.buf
           u == s[n]
           l == u.of
           first == SubSeq(s, 1, n)
           rest == SubSeq(s, n + 1, Len(s))
           front == SubSeq(first, 1, n - 1)
           last == SubSeq(first, n, Len(first))
           p == KeptIn(wrap.pipe)
<1>3. s \in Seq(Unit) /\ Len(s) \in Nat /\ p \in Seq(Line) /\ given \in Seq(Line)
  BY <1>2, FlowParts, LenProperties
<1>4. u \in Unit /\ u.end /\ \A i \in 1 .. n - 1 : ~s[i].end
  BY <1>1, <1>3, ElementOfSeq DEF NewlineAt
<1>5. l \in Line
  <2> HIDE DEF u
  <2>1. QED
    BY <1>4 DEF Unit
<1>6. /\ wrap'.buf = rest /\ wrap'.pipe = wrap.pipe /\ wrap'.eof = wrap.eof
  BY <1>1, <1>2 DEF PipesOK
<1>7. Within' /\ given' = given \o Told(l)
  <2> HIDE DEF l
  <2>1. LineIn(l)
    BY <1>1 DEF l
  <2>2. QED
    BY <1>2, <1>5, <2>1, LineTold
<1>8. /\ first \in Seq(Unit) /\ rest \in Seq(Unit) /\ s = first \o rest
      /\ Len(first) = n /\ \A i \in 1 .. n : first[i] = s[i]
  <2> HIDE DEF s
  <2>1. n \in 0 .. Len(s)
    BY <1>3 DEF s
  <2>2. QED
    BY <1>3, <2>1, SplitAt
<1> HIDE DEF u
<1>9. KeptIn(first) = Told(l)
  <2> DEFINE m == n - 1
  <2>1. m \in 0 .. n /\ m + 1 = n
    BY <1>3
  <2> HIDE DEF first, m
  <2>2. /\ SubSeq(first, 1, m) \in Seq(Unit)
        /\ SubSeq(first, m + 1, Len(first)) \in Seq(Unit)
        /\ Len(SubSeq(first, 1, m)) = m
        /\ \A i \in 1 .. m : SubSeq(first, 1, m)[i] = first[i]
        /\ first = SubSeq(first, 1, m) \o SubSeq(first, m + 1, Len(first))
    BY <1>8, <2>1, SplitAt
  <2>3. /\ front \in Seq(Unit) /\ last \in Seq(Unit) /\ Len(front) = m
        /\ \A i \in 1 .. m : front[i] = first[i]
        /\ first = front \o last
    BY <2>1, <2>2 DEF m
  <2>4. last = <<u>>
    <3>1. \A i \in n .. n : first[i] \in Unit
      BY <1>4, <1>8 DEF u
    <3>2. /\ Len(last) = 1 /\ last[1] = first[n]
      BY <1>3, <1>8, <3>1, SubSeqProperties
    <3> HIDE DEF last
    <3>3. first[n] = u
      BY <1>3, <1>8 DEF u
    <3>4. QED
      BY <2>3, <3>2, <3>3
  <2>5. KeptIn(front) = <<>>
    <3>1. \A i \in 1 .. Len(front) : ~front[i].end
      BY <1>4, <1>8, <2>1, <2>3
    <3> HIDE DEF front
    <3>2. QED
      BY <2>3, <3>1, KeptInType
  <2>6. KeptIn(last) = Told(l)
    BY <1>4, <2>4, KeptInOne
  <2>7. KeptIn(front \o last) = KeptIn(front) \o KeptIn(last)
    <3> HIDE DEF front, last
    <3>1. QED
      BY <2>3, KeptInJoin
  <2> DEFINE t == Told(l)
  <2>8. t \in Seq(Line)
    <3> HIDE DEF l
    <3>1. QED
      BY <1>5, ToldIs
  <2> HIDE DEF t, front, last, l
  <2>9. <<>> \o t = t
    BY <2>8, ConcatEmptySeq
  <2>10. QED
    BY <2>3, <2>5, <2>6, <2>7, <2>9 DEF t
<1> DEFINE t == Told(l)
           r == KeptIn(rest)
<1>10. t \in Seq(Line) /\ r \in Seq(Line)
  <2> HIDE DEF l, rest
  <2>1. QED
    BY <1>5, <1>8, ToldIs, KeptInType
<1>11. KeptIn(s) = t \o r
  <2> HIDE DEF first, rest, s
  <2>1. KeptIn(first \o rest) = KeptIn(first) \o KeptIn(rest)
    BY <1>8, KeptInJoin
  <2>2. QED
    BY <1>8, <1>9, <2>1
<1>12. Flow' = Flow
  <2>1. Flow = (given \o (t \o r)) \o p
    BY <1>11 DEF Flow
  <2>2. Flow' = ((given \o t) \o r) \o p
    BY <1>6, <1>7 DEF Flow
  <2>3. given \in Seq(Line) /\ t \in Seq(Line) /\ r \in Seq(Line)
    BY <1>3, <1>10
  <2> HIDE DEF t, r, p
  <2>4. (given \o t) \o r = given \o (t \o r)
    BY <2>3, LineAssoc
  <2>5. QED
    BY <2>1, <2>2, <2>4
<1>13. Flow = Kept(written)
  <2>1. s # <<>>
    BY <1>3
  <2>2. QED
    BY <1>2, <2>1, AllThere
<1> HIDE DEF t, r, p, l, first, rest, front, last, s
<1>14. Conserved'
  <2> DEFINE none == <<>>
             k == Kept(written)
  <2>1. k \in Seq(Line)
    BY <1>2, FlowParts
  <2>2. k \o none = k
    <3> HIDE DEF k
    <3>1. QED
      BY <2>1, ConcatEmptySeq
  <2>3. /\ none \in Seq(Line) /\ Len(none) <= 1 /\ none = <<>>
        /\ Flow' = Kept(written)' \o none
    BY <1>2, <1>12, <1>13, <2>2, EmptySeq
  <2> HIDE DEF none, k
  <2>4. QED
    BY <2>3 DEF Conserved
<1>15. EofEmpty'
  BY <1>2, <1>6 DEF Unskipped, EofEmpty
<1>16. QED
  BY <1>7, <1>14, <1>15 DEF Unskipped

\* What is left without a newline is one line more, and the last
LEMMA CutLineUnskipped ==
    ASSUME IInv, Unskipped, TakesCutLine
    PROVE  Unskipped'
<1>1. /\ data.state = "ACTIVE" /\ UNCHANGED <<formatter, data, written>>
      /\ PipesOK /\ HeapOK(heap) /\ Ordered /\ Within
      /\ wrap.eof /\ wrap.buf # <<>> /\ wrap.pipe = <<>>
  BY DEF TakesCutLine, At, IInv, Unskipped, EofEmpty
<1>2. PICK l \in CutShort(wrap.buf[1].of) : LineIn(l)
  BY DEF TakesCutLine
<1>3. l \in Line
  <2> DEFINE u == wrap.buf[1]
  <2>1. u \in Unit
    <3>1. 1 \in 1 .. Len(wrap.buf)
      BY <1>1, FlowParts
    <3>2. QED
      BY <1>1, <3>1, FlowParts, ElementOfSeq
  <2>2. l \in CutShort(u.of)
    BY <1>2
  <2> HIDE DEF u
  <2> DEFINE m == u.of
  <2>3. m \in Line
    BY <2>1 DEF Unit
  <2> HIDE DEF m
  <2>4. l \in CutShort(m)
    BY <2>2 DEF m
  <2>5. QED
    BY <2>3, <2>4 DEF CutShort, Line
<1>4. /\ wrap'.buf = <<>> /\ wrap'.pipe = wrap.pipe /\ wrap'.eof
  BY <1>1 DEF TakesCutLine, PipesOK
<1>5. Within' /\ given' = given \o Told(l)
  BY <1>1, <1>2, <1>3, LineTold
<1>6. KeptIn(wrap.buf) = <<>> /\ KeptIn(wrap.pipe) = <<>>
  <2>1. \A i \in 1 .. Len(wrap.buf) : ~wrap.buf[i].end
    BY DEF TakesCutLine, HasNewline
  <2>2. wrap.buf \in Seq(Unit)
    BY <1>1, FlowParts
  <2>3. KeptIn(wrap.buf) = <<>>
    BY <2>1, <2>2, KeptInType
  <2>4. QED
    BY <1>1, <2>3, NothingYet
<1> DEFINE t == Told(l)
           g == given \o t
<1>7. t \in Seq(Line) /\ Len(t) <= 1 /\ given \in Seq(Line) /\ g \in Seq(Line)
  BY <1>1, <1>3, ToldIs, FlowParts, ConcatProperties
<1>8. Flow = given /\ Flow' = g
  <2>1. Flow = (given \o <<>>) \o <<>> /\ Flow' = (g \o <<>>) \o <<>>
    BY <1>1, <1>4, <1>5, <1>6, NothingYet DEF Flow
  <2> HIDE DEF g
  <2>2. given \o <<>> = given /\ g \o <<>> = g
    BY <1>7, ConcatEmptySeq
  <2>3. QED
    BY <2>1, <2>2
<1>9. Flow = Kept(written)
  BY <1>1, AllThere
<1> HIDE DEF t
<1>10. Conserved'
  <2>1. Flow' = Kept(written)' \o t
    BY <1>1, <1>8, <1>9
  <2>2. QED
    BY <1>1, <1>4, <1>7, <2>1 DEF Conserved
<1>11. EofEmpty'
  BY <1>1, <1>4 DEF Unskipped, EofEmpty
<1>12. QED
  BY <1>5, <1>10, <1>11 DEF Unskipped

\* After the halt the heap is empty, and nothing more is said of the lines
LEMMA HaltedUnskipped ==
    ASSUME IInv, NEW r, Halted(r)
    PROVE  Unskipped'
<1>1. heap.item \in Nat /\ heap \in HeapType
  BY DEF IInv, HeapOK, HeapShape, HeapType
<1>2. heap'.item = HeapSize
  BY <1>1 DEF Halted, Reset, HeapType
<1>3. data'.state = "HALTED"
  BY DEF Halted
<1>4. QED
  BY <1>2, <1>3, SizesAreNat DEF Unskipped, Within, EofEmpty, Conserved

LEMMA NextUnskipped == IInv /\ Unskipped /\ [Next]_vars => Unskipped'
<1> SUFFICES ASSUME IInv, Unskipped, [Next]_vars PROVE Unskipped'
  OBVIOUS
<1>1. ASSUME NEW l \in Lines, StartsLine(l) PROVE Unskipped'
  <2>1. formatter'.exited = formatter.exited
    BY <1>1 DEF StartsLine, IInv, PipesOK
  <2>2. QED
    BY <1>1, <2>1, Unmoved DEF StartsLine
<1>2. CASE WritesLine
  BY <1>2, WritesUnskipped
<1>3. CASE WritesImage
  <2>1. formatter'.exited = formatter.exited
    BY <1>3 DEF WritesImage, IInv, PipesOK
  <2>2. QED
    BY <1>3, <2>1, Unmoved DEF WritesImage
<1>4. CASE Exits
  <2>1. formatter'.exited
    BY <1>4 DEF Exits, IInv, PipesOK
  <2>2. QED
    BY <1>4, <2>1, Unmoved DEF Exits
<1>5. CASE StreamTaken
  BY <1>5, Unmoved DEF StreamTaken
<1>6. CASE Poll
  BY <1>6, PollUnskipped
<1>7. CASE TakesLine
  BY <1>7, LineUnskipped
<1>8. CASE TakesCutLine
  BY <1>8, CutLineUnskipped
<1>9. CASE WrapDone
  <2>1. data'.state = data.state
    BY <1>9 DEF WrapDone, Goes, IInv, PipesOK
  <2>2. QED
    BY <1>9, <2>1, Unmoved DEF WrapDone
<1>10. CASE MovesImage
  <2>1. data'.state = data.state
    BY <1>10 DEF MovesImage, Goes, IInv, PipesOK
  <2>2. QED
    BY <1>10, <2>1, Unmoved DEF MovesImage
<1>11. CASE ImageDone
  BY <1>11, HaltedUnskipped DEF ImageDone
<1>12. CASE Aborts
  BY <1>12, HaltedUnskipped DEF Aborts
<1>13. CASE Done \/ UNCHANGED vars
  BY <1>13, Unmoved DEF Done, vars
<1>14. QED
  BY <1>1, <1>2, <1>3, <1>4, <1>5, <1>6, <1>7, <1>8, <1>9, <1>10, <1>11, <1>12,
     <1>13 DEF Next, FormatterNext, DataNext

\* What Conserved says of the lines is what NothingSkipped says of them
LEMMA UnskippedIs == IInv /\ Unskipped => NothingSkipped
<1> SUFFICES ASSUME IInv, Unskipped, data.state = "ACTIVE"
             PROVE  IsPrefix(Kept(written), Flow) /\ Len(Flow) <= Len(Kept(written)) + 1
  BY DEF NothingSkipped, Flow
<1> DEFINE k == Kept(written)
<1>1. PICK x \in Seq(Line) : Flow = k \o x /\ Len(x) <= 1
  BY DEF Unskipped, Conserved
<1>2. k \in Seq(Line)
  BY FlowParts DEF IInv
<1> DEFINE f == k \o x
           p == SubSeq(f, 1, Len(k))
<1> HIDE DEF k
<1>3. /\ f \in Seq(Line) /\ Len(f) = Len(k) + Len(x) /\ Len(k) \in Nat /\ Len(x) \in Nat
      /\ \A i \in 1 .. Len(k) : f[i] = k[i]
  BY <1>2, ConcatProperties
<1> HIDE DEF f
<1>4. p = k
  <2>1. Len(k) \in 0 .. Len(f)
    BY <1>3
  <2>2. p \in Seq(Line) /\ Len(p) = Len(k) /\ \A i \in 1 .. Len(k) : p[i] = f[i]
    BY <1>3, <2>1, SplitAt
  <2> HIDE DEF p
  <2>3. QED
    BY <1>2, <1>3, <2>2, SeqEqual
<1>5. IsPrefix(k, f)
  BY <1>3, <1>4 DEF IsPrefix
<1>6. QED
  BY <1>1, <1>3, <1>5 DEF k, f

\* No line of the history is lost between the formatter's write and the heap, and
\* none is taken twice, for every size of the pipe, of the channel and of the
\* heap, and wherever the lines are cut by them: each one that was written
\* (wraplib.c) is in the wrap pipe, in its channel (ndml_chan.c), or was given to
\* the heap by ndmda_quantum_wrap() (ndma_data.c) as ndmda_fh_add_file() and its
\* like do (ndma_data_fh.c); the formatter's death adds one that is cut at most.
THEOREM NoLineSkipped == Spec => []NothingSkipped
<1>1. Init => Unskipped
  BY InitUnskipped
<1>2. IInv /\ Unskipped /\ [Next]_vars => Unskipped'
  BY NextUnskipped
<1>3. IInv /\ Unskipped => NothingSkipped
  BY UnskippedIs
<1>4. Spec => []IInv
  BY IInvHolds
<1>5. QED
  BY <1>1, <1>2, <1>3, <1>4, PTL DEF Spec

=============================================================================
