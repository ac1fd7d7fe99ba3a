---------------------------- MODULE FileHistory ----------------------------
(***************************************************************************)
(* The file history of a backup: the formatter writes one-line messages to *)
(* its wrap pipe while it writes the image to its standard output; the     *)
(* DATA agent reads both, collects the entries of the lines in a heap      *)
(* (ndml_fhh.c) and posts the heap's table to the CONTROL agent when it is *)
(* full, when the type of the entries changes and when the backup halts    *)
(* (ndma_data_fh.c, ndma_data.c).                                          *)
(*                                                                         *)
(* The wrap pipe and its channel hold units, of which a line has a few and *)
(* only the last one is its newline.  The heap's addresses are bytes.  The *)
(* image is counted.  The mover takes the image stream at its own pace.    *)
(* Left out: read errors on the pipes, and a CONTROL agent that is gone    *)
(* (the session ends with its connection).                                 *)
(***************************************************************************)
EXTENDS Integers, Sequences, SequencesExt

CONSTANTS
    Lines,          \* the lines a formatter may write
    EntrySize,      \* sizeof of an entry of each kind
    HeapSize,       \* from heap_top to heap_bot
    WrapBuf,        \* units of the wrap channel, NDMDA_N_FMT_WRAP_BUF
    WrapPipe,       \* units of the wrap pipe
    ImageBuf,       \* size of the image channel, of its pipe and of the stream
    MaxLines,       \* bound: lines a formatter writes
    MaxImage        \* bound: its image

Kind == {"file", "dir", "node"}     \* NDMP9_FH_ADD_FILE, _DIR, _NODE

\* A line, its item's size and its length; "other" is not of the history: a log
\* message, or a line that does not parse
Line == [kind : Kind \cup {"other"}, name : Nat, len : Nat \ {0}]

\* A name is at least its terminator; a line of wraplib.c fits the channel
ASSUME LinesAssumption ==
    /\ Lines \subseteq {l \in Line : l.len <= WrapBuf}
    /\ EntrySize \in [Kind -> Nat \ {0}]

ASSUME SizesAssumption ==
    /\ HeapSize \in Nat \ {0}
    /\ {WrapBuf, WrapPipe, ImageBuf, MaxLines, MaxImage} \subseteq Nat
    /\ WrapBuf > 0 /\ WrapPipe > 0 /\ ImageBuf > 0

VARIABLES
    formatter,  \* what is left of its line, how much image it made, its exit
    wrap,       \* formatter_wrap: the pipe, the channel's data from beg_ix, eof
    image,      \* formatter_image: pipe, channel, eof; the image stream's channel
    heap,       \* fhh: type, entry size, the entries, allo_entry and allo_item
    index,      \* the entries posted to the CONTROL agent
    data,       \* data_state.state and halt_reason, and the quantum's place
    written,    \* history: the lines written to their newline
    given       \* history: the lines whose entries went into the heap

vars == <<formatter, wrap, image, heap, index, data, written, given>>

Unit == [of : Line, end : BOOLEAN]

UnitsOf(l) == [i \in 1 .. l.len |-> [of |-> l, end |-> i = l.len]]

Align == 8                      \* NDMOS_CONST_ALIGN

Slop == 32

Least(a, b) == IF a < b THEN a ELSE b

-----------------------------------------------------------------------------
(* The heap (ndml_fhh.c): the table of entries grows up from its top, their *)
(* items grow down from its bottom.                                        *)

NoEntries == [type |-> "none", size |-> 0, table |-> <<>>, entry |-> 0,
              item |-> HeapSize, null |-> FALSE]

\* Mutation: the flush leaves the table
ResetItemsOnly(h) == [h EXCEPT !.item = HeapSize]

\* ndmfhh_reset()
Reset(h) == [h EXCEPT !.table = <<>>, !.entry = 0, !.item = HeapSize]

\* ndmfhh_prepare() gives an empty heap its type
Typed(h, k) ==
    IF h.entry = 0 THEN [h EXCEPT !.type = k, !.size = EntrySize[k]] ELSE h

\* Mutation: entries of another type are taken
SameTypeAlways(h, k) == TRUE

SameType(h, k) == h.type = k /\ h.size = EntrySize[k]

\* What ndmda_fh_add_file(), _dir() and _node() say of their items
ItemSize(l) == IF l.kind = "node" THEN 0 ELSE l.name

\* Mutation: no room is kept for the alignment of the items
ItemsNeedExact(l) == ItemSize(l)

ItemsNeed(l) == ItemSize(l) + Align + Slop

\* ndmfhh_prepare() == NDMFHH_RET_OK, with the heap typed
Prepared(h, l) ==
    /\ SameType(h, l.kind)
    /\ h.entry + h.size < h.item - ItemsNeed(l)

\* ndmfhh_add_entry()
EntryAdded(h, l) ==
    IF h.entry + h.size < h.item
    THEN [h EXCEPT !.table = Append(@, l), !.entry = @ + h.size]
    ELSE [h EXCEPT !.null = TRUE]

Aligned(n) == (n + Align - 1) - ((n + Align - 1) % Align)

\* ndmfhh_add_item()
ItemAdded(h, n) ==
    IF h.item - Aligned(n) > h.entry
    THEN [h EXCEPT !.item = @ - Aligned(n)]
    ELSE [h EXCEPT !.null = TRUE]

\* An entry, then its item: a node has none
Added(h, l) ==
    IF l.kind = "node" THEN EntryAdded(h, l)
                       ELSE ItemAdded(EntryAdded(h, l), l.name)

FitsEmptyHeap(l) ==
    /\ l.kind \in Kind
    /\ EntrySize[l.kind] < HeapSize - ItemsNeed(l)

-----------------------------------------------------------------------------
(* Posting the table (ndma_data_fh.c).                                     *)

\* ndmda_fh_flush() with a heap h
Posted(h) == IF h.entry > 0 THEN index \o h.table ELSE index

\* Mutation: a full heap is flushed, and the entry that met it dropped
EntryGivenOnce(l) ==
    LET h == Typed(heap, l.kind)
    IN  IF Prepared(h, l)
        THEN heap' = Added(h, l) /\ given' = Append(given, l) /\ UNCHANGED index
        ELSE heap' = Reset(h) /\ index' = Posted(h) /\ UNCHANGED given

\* ndmda_fh_add_file(), _dir() and _node(): an entry that an empty heap cannot
\* hold is dropped
EntryGiven(l) ==
    LET h == Typed(heap, l.kind)
        e == Typed(Reset(h), l.kind)
    IN  \/ /\ Prepared(h, l)
           /\ heap' = Added(h, l)
           /\ given' = Append(given, l)
           /\ UNCHANGED index
        \/ /\ ~Prepared(h, l) /\ Prepared(e, l)
           /\ heap' = Added(e, l)
           /\ index' = Posted(h)
           /\ given' = Append(given, l)
        \/ /\ ~Prepared(h, l) /\ ~Prepared(e, l)
           /\ heap' = e
           /\ index' = Posted(h)
           /\ UNCHANGED given

\* ndmda_wrap_in(); a line that is not of the history leaves it alone
LineIn(l) ==
    \/ l.kind \in Kind /\ EntryGiven(l)
    \/ l.kind \notin Kind /\ UNCHANGED <<heap, index, given>>

\* Mutation: the last table stays in the heap
HaltedUnposted(reason) ==
    /\ data' = [state |-> "HALTED", reason |-> reason, pc |-> "poll"]
    /\ wrap' = [wrap EXCEPT !.buf = <<>>, !.beg = 0, !.eof = TRUE]
    /\ image' = [image EXCEPT !.buf = 0, !.eof = TRUE, !.stream = 0]
    /\ formatter' = [formatter EXCEPT !.exited = TRUE]
    /\ UNCHANGED <<heap, index, written, given>>

\* ndmda_data_halt(): the table is posted, the channels are closed with what
\* they hold, and the formatter is killed
Halted(reason) ==
    /\ data' = [state |-> "HALTED", reason |-> reason, pc |-> "poll"]
    /\ index' = Posted(heap)
    /\ heap' = Reset(heap)
    /\ wrap' = [wrap EXCEPT !.buf = <<>>, !.beg = 0, !.eof = TRUE]
    /\ image' = [image EXCEPT !.buf = 0, !.eof = TRUE, !.stream = 0]
    /\ formatter' = [formatter EXCEPT !.exited = TRUE]
    /\ UNCHANGED <<written, given>>

-----------------------------------------------------------------------------
(* The formatter, a process of its own: what a pipe cannot take waits.     *)

Running == ~formatter.exited /\ data.state = "ACTIVE"

StartsLine(l) ==
    /\ Running
    /\ formatter.line = <<>>
    /\ Len(written) < MaxLines
    /\ formatter' = [formatter EXCEPT !.line = UnitsOf(l)]
    /\ UNCHANGED <<wrap, image, heap, index, data, written, given>>

WritesLine ==
    /\ Running
    /\ formatter.line # <<>>
    /\ Len(wrap.pipe) < WrapPipe
    /\ wrap' = [wrap EXCEPT !.pipe = Append(@, Head(formatter.line))]
    /\ formatter' = [formatter EXCEPT !.line = Tail(@)]
    /\ written' = IF Head(formatter.line).end
                  THEN Append(written, Head(formatter.line).of) ELSE written
    /\ UNCHANGED <<image, heap, index, data, given>>

WritesImage ==
    /\ Running
    /\ formatter.made < MaxImage
    /\ image.pipe < ImageBuf
    /\ formatter' = [formatter EXCEPT !.made = @ + 1]
    /\ image' = [image EXCEPT !.pipe = @ + 1]
    /\ UNCHANGED <<wrap, heap, index, data, written, given>>

\* It may die in the middle of a line
Exits ==
    /\ Running
    /\ formatter' = [formatter EXCEPT !.exited = TRUE, !.line = <<>>]
    /\ UNCHANGED <<wrap, image, heap, index, data, written, given>>

\* The mover, or the connection to it, takes what the image stream holds
StreamTaken ==
    /\ data.state = "ACTIVE"
    /\ image.stream > 0
    /\ image' = [image EXCEPT !.stream = 0]
    /\ UNCHANGED <<formatter, wrap, heap, index, data, written, given>>

-----------------------------------------------------------------------------
(* The DATA agent's quantum and the poll (ndma_data.c, ndml_chan.c).       *)

At(pc) == data.state = "ACTIVE" /\ data.pc = pc

Goes(pc) == data' = [data EXCEPT !.pc = pc]

\* end_ix
End(w) == w.beg + Len(w.buf)

\* Mutation: the data stays where it is
CompressedNever(w) == IF w.buf = <<>> THEN [w EXCEPT !.beg = 0] ELSE w

\* ndmchan_n_avail() moves the data down only when the buffer's end is reached
Compressed(w) ==
    IF w.buf = <<>> \/ End(w) >= WrapBuf THEN [w EXCEPT !.beg = 0] ELSE w

Room(w) == WrapBuf - End(w)

\* A channel takes what there is room for, and the end of a pipe once it is empty
WrapPolled(w) ==
    LET n == Least(Room(w), Len(w.pipe))
    IN  IF n > 0
        THEN [w EXCEPT !.pipe = SubSeq(@, n + 1, Len(@)),
                       !.buf = @ \o SubSeq(w.pipe, 1, n)]
        ELSE [w EXCEPT !.eof = Room(w) > 0 /\ formatter.exited]

ImagePolled ==
    LET room == ImageBuf - image.buf
        n == Least(room, image.pipe)
    IN  IF n > 0
        THEN [image EXCEPT !.pipe = @ - n, !.buf = @ + n]
        ELSE [image EXCEPT !.eof = room > 0 /\ formatter.exited]

\* ndmchan_quantum(): one read of each channel
Poll ==
    /\ At("poll")
    /\ wrap' = IF wrap.eof THEN wrap ELSE WrapPolled(Compressed(wrap))
    /\ image' = IF image.eof THEN image ELSE ImagePolled
    /\ Goes("wrap")
    /\ UNCHANGED <<formatter, heap, index, written, given>>

\* The number of units up to the first newline
NewlineAt(n) ==
    /\ n \in 1 .. Len(wrap.buf)
    /\ wrap.buf[n].end
    /\ \A i \in 1 .. n - 1 : ~wrap.buf[i].end

HasNewline == \E i \in 1 .. Len(wrap.buf) : wrap.buf[i].end

\* ndmda_quantum_wrap(): a line of the channel
TakesLine ==
    /\ At("wrap")
    /\ \E n \in 1 .. Len(wrap.buf) :
        /\ NewlineAt(n)
        /\ wrap' = [wrap EXCEPT !.buf = SubSeq(@, n + 1, Len(@)), !.beg = @ + n]
        /\ LineIn(wrap.buf[n].of)
    /\ UNCHANGED <<formatter, image, data, written>>

\* What is left of a line may parse, with less of a name
CutShort(l) ==
    {[l EXCEPT !.kind = "other"]} \cup {[l EXCEPT !.name = n] : n \in 1 .. l.name}

\* The last line has no newline: the formatter died writing it
TakesCutLine ==
    /\ At("wrap")
    /\ wrap.eof /\ wrap.buf # <<>> /\ ~HasNewline
    /\ wrap' = [wrap EXCEPT !.buf = <<>>, !.beg = 0]
    /\ \E l \in CutShort(wrap.buf[1].of) : LineIn(l)
    /\ UNCHANGED <<formatter, image, data, written>>

WrapDone ==
    /\ At("wrap")
    /\ ~HasNewline
    /\ wrap.eof => wrap.buf = <<>>
    /\ Goes("image")
    /\ UNCHANGED <<formatter, wrap, image, heap, index, written, given>>

\* ndmda_quantum_image() moves what there is room for
MovesImage ==
    /\ At("image")
    /\ image.buf > 0 \/ ~image.eof \/ image.stream > 0
    /\ LET n == Least(image.buf, ImageBuf - image.stream)
       IN  image' = [image EXCEPT !.buf = @ - n, !.stream = @ + n]
    /\ Goes("poll")
    /\ UNCHANGED <<formatter, wrap, heap, index, written, given>>

\* The image is at its end and has left: the backup is done
ImageDone ==
    /\ At("image")
    /\ image.buf = 0 /\ image.eof /\ image.stream = 0
    /\ Halted("SUCCESSFUL")

\* ndmda_data_abort(), from the dispatch between two quanta
Aborts ==
    /\ At("poll")
    /\ Halted("ABORTED")

-----------------------------------------------------------------------------
\* The backup has started: ndmda_pipe_fork_exec()
Init ==
    /\ formatter = [line |-> <<>>, made |-> 0, exited |-> FALSE]
    /\ wrap = [pipe |-> <<>>, buf |-> <<>>, beg |-> 0, eof |-> FALSE]
    /\ image = [pipe |-> 0, buf |-> 0, eof |-> FALSE, stream |-> 0]
    /\ heap = NoEntries
    /\ index = <<>> /\ written = <<>> /\ given = <<>>
    /\ data = [state |-> "ACTIVE", reason |-> "NA", pc |-> "poll"]

FormatterNext ==
    \/ \E l \in Lines : StartsLine(l)
    \/ WritesLine
    \/ WritesImage
    \/ Exits

DataNext ==
    \/ Poll
    \/ TakesLine
    \/ TakesCutLine
    \/ WrapDone
    \/ MovesImage
    \/ ImageDone

Done == data.state = "HALTED" /\ UNCHANGED vars

Next == FormatterNext \/ StreamTaken \/ DataNext \/ Aborts \/ Done

\* The session loop runs, the mover takes the stream, and a formatter that can
\* write does, and exits when it has nothing left to write
Fairness ==
    /\ WF_vars(DataNext)
    /\ WF_vars(StreamTaken)
    /\ WF_vars(WritesLine)
    /\ WF_vars(formatter.line = <<>> /\ Exits)

Spec == Init /\ [][Next]_vars /\ Fairness

-----------------------------------------------------------------------------
(* What the file history is for.                                           *)

\* Type invariant
TypeOK ==
    /\ formatter \in [line : Seq(Unit), made : 0 .. MaxImage, exited : BOOLEAN]
    /\ wrap \in [pipe : Seq(Unit), buf : Seq(Unit), beg : Nat, eof : BOOLEAN]
    /\ End(wrap) <= WrapBuf
    /\ image \in [pipe : 0 .. ImageBuf, buf : 0 .. ImageBuf, eof : BOOLEAN,
                  stream : 0 .. ImageBuf]
    /\ heap \in [type : Kind \cup {"none"}, size : Nat, table : Seq(Line),
                 entry : Nat, item : Nat, null : BOOLEAN]
    /\ index \in Seq(Line) /\ written \in Seq(Line) /\ given \in Seq(Line)
    /\ data \in [state : {"ACTIVE", "HALTED"},
                 reason : {"NA", "SUCCESSFUL", "ABORTED"},
                 pc : {"poll", "wrap", "image"}]

\* The table and the items never meet, and once ndmfhh_prepare() said that an
\* entry and its item fit, neither is refused: the callers store through the
\* pointers they get without looking (ndma_data_fh.c:109-111)
HeapNeverOverlaps ==
    /\ heap.entry <= heap.item
    /\ ~heap.null

\* A table goes out under one message: all its entries are of that type, and
\* the division of the table by the entry size counts them (ndml_fhh.c:192-194)
TableOfOneType ==
    /\ \A i \in 1 .. Len(heap.table) : heap.table[i].kind = heap.type
    /\ heap.entry = Len(heap.table) * heap.size

\* The CONTROL agent is told of the entries in the order in which the formatter
\* gave them, of each of them once, and of none after the halt
InOrder ==
    /\ given = index \o heap.table
    /\ data.state = "HALTED" => heap.table = <<>>

\* A line of the history, unless no heap can hold its entry
Told(l) == IF FitsEmptyHeap(l) THEN <<l>> ELSE <<>>

Kept(lines) == FlattenSeq([i \in 1 .. Len(lines) |-> Told(lines[i])])

\* The lines that have their newline among these units
KeptIn(units) ==
    FlattenSeq([i \in 1 .. Len(units) |->
                    IF units[i].end THEN Told(units[i].of) ELSE <<>>])

\* As long as the backup runs, each line that was written and is of the history
\* is in the pipe, in the channel, or has been given to the heap; but for the
\* one an empty heap cannot hold.  The formatter's death adds a line at most.
NothingSkipped ==
    data.state = "ACTIVE" =>
        LET all == given \o KeptIn(wrap.buf) \o KeptIn(wrap.pipe)
        IN  IsPrefix(Kept(written), all) /\ Len(all) <= Len(Kept(written)) + 1

\* A formatter waits on a full pipe, and the pipe on the channel: a backup with
\* lines that fit the channel comes to its end
BackupEnds == <>(data.state = "HALTED")

\* The DATA agent says that a backup was successful when the messages of the
\* formatter have been directed toward the CONTROL agent (ndma_data.c:566-576)
HistoryComplete ==
    data.reason = "SUCCESSFUL" => IsPrefix(Kept(written), index)
=============================================================================
