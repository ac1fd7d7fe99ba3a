--------------------------- MODULE TapeSimulator ---------------------------
(***************************************************************************)
(* The tape simulator (ndma_tape_simulator.c): a tape is a file of gaps,    *)
(* each with its type, the size of the data behind it and the size of what  *)
(* is before it, a DATA gap being followed by its data.  The file's offset  *)
(* stands at a gap; a position here is the number of that gap.  Sizes and   *)
(* offsets are in units, and a gap is one unit.                             *)
(*                                                                         *)
(* A request is one step.  Left out: a disk that fails anywhere but in the  *)
(* data of a write, and the device names (there is one drive).              *)
(***************************************************************************)
EXTENDS Integers, Sequences, FiniteSets

CONSTANTS
    Sizes,      \* sizes of a record, in units
    CountMax,   \* bound: the count one request gives
    Limit,      \* o_tape_limit
    LogicalEOM, \* TAPE_SIM_LOGICAL_EOM
    Faults      \* "disk": the data of a write does not get to the disk

ASSUME TapeAssumption ==
    /\ Sizes \subseteq Nat \ {0}
    /\ CountMax \in Nat \ {0} /\ Limit \in Nat \ {0} /\ LogicalEOM \in Nat
    /\ Faults \subseteq {"disk"}

VARIABLES
    file,       \* the gaps of the tape's file
    dev,        \* tape_fd's offset, tape_state's numbers and the two flags
    mode,       \* tape_state.open_mode, CLOSED when tape_fd < 0
    disk,       \* the other files of the drive: its lock, its saved offset
    reply       \* of the last request: its error and its count

vars == <<file, dev, mode, disk, reply>>

GapSize == 1

Gap(type, prev, size) == [type |-> type, prev |-> prev, size |-> size]

NoLink == 0

Fresh(pos) == [pos |-> pos, fnum |-> 0, block |-> 0, leom |-> FALSE, weof |-> FALSE]

\* A file and an offset in it, passed through the steps of one request
At(gaps, d) == [gaps |-> gaps, d |-> d]

Now == At(file, dev)

\* lseek (fd, 0, 1): the offset of gap k
Offset(gaps, k) ==
    LET to[i \in 1 .. k] ==
            IF i = 1 THEN 0 ELSE to[i - 1] + GapSize + gaps[i - 1].size
    IN  to[k]

Readable(t) == t.d.pos \in 1 .. Len(t.gaps)

Here(t) == t.gaps[t.d.pos]

Before(t) == SubSeq(t.gaps, 1, t.d.pos - 1)

-----------------------------------------------------------------------------
(* Writing.                                                                 *)

\* Mutation: the end of tape keeps the size before the mark
MarkedKeeping(t) ==
    At(Before(t) \o <<Gap("FILE", Here(t).prev, 0), Gap("EOT", Here(t).prev, 0)>>,
       [t.d EXCEPT !.pos = @ + 1, !.fnum = @ + 1, !.block = 0, !.weof = FALSE])

\* ndmos_tape_wfm() when nothing is wrong
Marked(t) ==
    At(Before(t) \o <<Gap("FILE", Here(t).prev, 0), Gap("EOT", 0, 0)>>,
       [t.d EXCEPT !.pos = @ + 1, !.fnum = @ + 1, !.block = 0, !.weof = FALSE])

MarkFits(t) ==
    /\ Offset(t.gaps, t.d.pos) + GapSize <= Limit
    /\ Readable(t)

\* ndmos_tape_wfm(): marks never meet the logical end
WriteMark(t) ==
    IF mode = "RDWR" /\ MarkFits(t) THEN Marked(t)
                                    ELSE At(t.gaps, [t.d EXCEPT !.weof = FALSE])

\* simu_flush_weof()
Flushed(t) == IF t.d.weof THEN WriteMark(t) ELSE t

\* Mutation: the warning comes when the tape is full
PastLogicalEndLate(t) == Offset(t.gaps, t.d.pos) > Limit - GapSize

PastLogicalEnd(t) == Offset(t.gaps, t.d.pos) > Limit - LogicalEOM

PastPhysicalEnd(t, size) == Offset(t.gaps, t.d.pos) + GapSize + size > Limit

\* A write cuts off the file and puts the end of tape behind the data
Written(t, size) ==
    At(Before(t) \o <<Gap("DATA", Here(t).prev, size), Gap("EOT", size, 0)>>,
       [t.d EXCEPT !.pos = @ + 1, !.block = @ + 1, !.weof = TRUE])

\* The data did not get to the disk: the file ends where the write began
Cut(t) ==
    At(Before(t) \o <<Gap("EOT", Here(t).prev, 0)>>, [t.d EXCEPT !.weof = TRUE])

-----------------------------------------------------------------------------
(* Spacing.  A step's outcome is the type of what was passed, "none" at the *)
(* limit of the motion and "bad" where there is no gap.                     *)

Step(t, gave) == [t |-> t, gave |-> gave]

Unwarned(t) == At(t.gaps, [t.d EXCEPT !.leom = FALSE])

Moved(t, by, fnum, block) ==
    At(t.gaps, [t.d EXCEPT !.pos = @ + by, !.fnum = fnum, !.block = block,
                           !.leom = FALSE])

Less(n) == IF n > 0 THEN n - 1 ELSE n

\* Mutation: spacing over records goes over marks
ForwardOverMarks(t, overMark) ==
    CASE ~Readable(t) -> Step(t, "bad")
      [] Readable(t) /\ Here(t).type = "DATA" ->
            Step(Moved(t, 1, t.d.fnum, t.d.block + 1), "DATA")
      [] Readable(t) /\ Here(t).type = "FILE" ->
            Step(Moved(t, 1, t.d.fnum + 1, 0), "FILE")
      [] Readable(t) /\ Here(t).type = "EOT" -> Step(Unwarned(t), "none")
      [] OTHER -> Step(Unwarned(t), "bad")

\* simu_forw_one()
Forward(t, overMark) ==
    CASE ~Readable(t) -> Step(t, "bad")
      [] Readable(t) /\ Here(t).type = "DATA" ->
            Step(Moved(t, 1, t.d.fnum, t.d.block + 1), "DATA")
      [] Readable(t) /\ Here(t).type = "FILE" /\ overMark ->
            Step(Moved(t, 1, t.d.fnum + 1, 0), "FILE")
      [] Readable(t) /\ Here(t).type = "FILE" /\ ~overMark ->
            Step(Unwarned(t), "none")
      [] Readable(t) /\ Here(t).type = "EOT" -> Step(Unwarned(t), "none")
      [] OTHER -> Step(Unwarned(t), "bad")

\* The offset that prev leads back to holds a gap
Leads(t) == t.d.pos > 1 /\ Here(t).prev = t.gaps[t.d.pos - 1].size

Behind(t) == t.gaps[t.d.pos - 1].type

\* Mutation: the block number goes below the first block of the file
BackwardUncounted(t, overMark) ==
    CASE ~Readable(t) -> Step(t, "bad")
      [] Readable(t) /\ ~Leads(t) -> Step(Unwarned(t), "bad")
      [] Readable(t) /\ Leads(t) /\ Behind(t) = "BOT" ->
            Step(Moved(t, 0, 0, 0), "none")
      [] Readable(t) /\ Leads(t) /\ Behind(t) = "DATA" ->
            Step(Moved(t, -1, t.d.fnum, t.d.block), "DATA")
      [] Readable(t) /\ Leads(t) /\ Behind(t) = "FILE" /\ overMark ->
            Step(Moved(t, -1, Less(t.d.fnum), 0), "FILE")
      [] Readable(t) /\ Leads(t) /\ Behind(t) = "FILE" /\ ~overMark ->
            Step(Moved(t, 0, t.d.fnum, 0), "none")
      [] OTHER -> Step(Unwarned(t), "bad")

\* simu_back_one(): BOT is passed back to the first gap behind it
Backward(t, overMark) ==
    CASE ~Readable(t) -> Step(t, "bad")
      [] Readable(t) /\ ~Leads(t) -> Step(Unwarned(t), "bad")
      [] Readable(t) /\ Leads(t) /\ Behind(t) = "BOT" ->
            Step(Moved(t, 0, 0, 0), "none")
      [] Readable(t) /\ Leads(t) /\ Behind(t) = "DATA" ->
            Step(Moved(t, -1, t.d.fnum, Less(t.d.block)), "DATA")
      [] Readable(t) /\ Leads(t) /\ Behind(t) = "FILE" /\ overMark ->
            Step(Moved(t, -1, Less(t.d.fnum), 0), "FILE")
      [] Readable(t) /\ Leads(t) /\ Behind(t) = "FILE" /\ ~overMark ->
            Step(Moved(t, 0, t.d.fnum, 0), "none")
      [] OTHER -> Step(Unwarned(t), "bad")

\* The four motions: over records or files, forward or back
Motion == {"FSR", "FSF", "BSR", "BSF"}

OverMark(op) == op \in {"FSF", "BSF"}

OneStep(t, op) ==
    IF op \in {"FSR", "FSF"} THEN Forward(t, OverMark(op))
                             ELSE Backward(t, OverMark(op))

Counts(gave, op) == IF OverMark(op) THEN gave = "FILE" ELSE gave \in {"DATA", "FILE"}

\* The loop of ndmos_tape_mtio(): it flushes before each step and ends when
\* the count is done or a step gets nowhere
Spaced(op, count) ==
    LET turn[i \in 0 .. Limit + count] ==
            IF i = 0 THEN [t |-> Now, left |-> count, gave |-> "DATA"]
            ELSE LET was == turn[i - 1]
                     now == OneStep(Flushed(was.t), op)
                 IN  IF was.left = 0 \/ was.gave \in {"none", "bad"} THEN was
                     ELSE [t |-> now.t, gave |-> now.gave,
                           left |-> was.left - (IF Counts(now.gave, op) THEN 1 ELSE 0)]
    IN  turn[Limit + count]

-----------------------------------------------------------------------------
Init ==
    /\ file = <<>>
    /\ dev = Fresh(1) /\ mode = "CLOSED"
    /\ disk = [lock |-> FALSE, link |-> NoLink]
    /\ reply = [err |-> "NO_ERR", n |-> 0]

Replies(err, n) == reply' = [err |-> err, n |-> n]

Becomes(t) == file' = t.gaps /\ dev' = t.d

Refused(err) ==
    Replies(err, 0) /\ UNCHANGED <<file, dev, mode, disk>>

\* ndmos_tape_open(): a blank tape gets its first gaps when it is opened for
\* writing; the offset is where the last close left it
Open ==
    \E m \in {"READ", "RDWR"} :
        \/ mode # "CLOSED" /\ Refused("DEVICE_OPENED_ERR")
        \/ mode = "CLOSED" /\ disk.lock /\ Refused("DEVICE_BUSY_ERR")
        \/ /\ mode = "CLOSED" /\ ~disk.lock
           /\ IF file = <<>>
              THEN IF m = "RDWR"
                   THEN Becomes(At(<<Gap("BOT", 0, 0), Gap("EOT", 0, 0)>>, Fresh(2)))
                   ELSE Becomes(At(file, Fresh(1)))
              ELSE Becomes(At(file, Fresh(IF disk.link = NoLink THEN 2
                                                                ELSE disk.link)))
           /\ mode' = m
           /\ disk' = [lock |-> TRUE, link |-> NoLink]
           /\ Replies("NO_ERR", 0)

\* Mutation: what was written is not marked when the drive is closed
UnmarkedClose == Now

\* simu_flush_weof() on closing
ClosedAs == Flushed(Now)

Close ==
    \/ mode = "CLOSED" /\ Refused("DEV_NOT_OPEN_ERR")
    \/ /\ mode # "CLOSED" /\ mode' = "CLOSED"
       /\ file' = ClosedAs.gaps
       /\ dev' = Fresh(1)
       /\ disk' = [lock |-> FALSE, link |-> ClosedAs.d.pos]
       /\ Replies("NO_ERR", 0)

\* The session ends without closing the tape: the lock stays (external: the
\* process exits, and somebody removes the lock file)
Vanish ==
    /\ mode # "CLOSED" /\ mode' = "CLOSED"
    /\ dev' = Fresh(1)
    /\ UNCHANGED <<file, disk, reply>>

Unlock ==
    /\ mode = "CLOSED" /\ disk.lock
    /\ disk' = [disk EXCEPT !.lock = FALSE]
    /\ UNCHANGED <<file, dev, mode, reply>>

Space ==
    \E op \in Motion, n \in 1 .. CountMax :
        \/ mode = "CLOSED" /\ Refused("DEV_NOT_OPEN_ERR")
        \/ /\ mode # "CLOSED"
           /\ LET s == Spaced(op, n)
              IN  /\ Becomes(s.t)
                  /\ IF s.gave = "bad" THEN Replies("IO_ERR", s.left)
                                       ELSE Replies("NO_ERR", s.left)
           /\ UNCHANGED <<mode, disk>>

\* MTIO_REW: to the gap behind BOT, whatever is there
Rewind ==
    /\ mode # "CLOSED"
    /\ LET t == Flushed(Now)
       IN  Becomes(At(t.gaps, [t.d EXCEPT !.pos = 2, !.fnum = 0, !.block = 0]))
    /\ Replies("NO_ERR", 0)
    /\ UNCHANGED <<mode, disk>>

\* MTIO_OFF: only what is unmarked is marked, and the count is not done
Offline ==
    /\ mode # "CLOSED"
    /\ Becomes(Flushed(Now))
    /\ \E n \in 1 .. CountMax : Replies("NO_ERR", n)
    /\ UNCHANGED <<mode, disk>>

\* MTIO_EOF
WriteMarks ==
    \E n \in 1 .. CountMax :
        \/ mode = "CLOSED" /\ Refused("DEV_NOT_OPEN_ERR")
        \/ mode = "READ" /\ Refused("PERMISSION_ERR")
        \/ /\ mode = "RDWR"
           /\ LET marked[i \in 0 .. n] ==
                      IF i = 0 THEN Now ELSE WriteMark(marked[i - 1])
                  fit == {i \in 1 .. n : ~MarkFits(marked[i - 1])}
              IN  /\ Becomes(marked[n])
                  /\ IF fit = {} THEN Replies("NO_ERR", 0)
                                 ELSE Replies("IO_ERR", Cardinality(fit))
           /\ UNCHANGED <<mode, disk>>

Write ==
    \E size \in Sizes :
        \/ mode = "CLOSED" /\ Refused("DEV_NOT_OPEN_ERR")
        \/ mode = "READ" /\ Refused("PERMISSION_ERR")
        \/ /\ mode = "RDWR" /\ PastLogicalEnd(Now) /\ ~dev.leom
           /\ dev' = [dev EXCEPT !.leom = TRUE]
           /\ Replies("EOM_ERR", 0)
           /\ UNCHANGED <<file, mode, disk>>
        \/ /\ mode = "RDWR" /\ (PastLogicalEnd(Now) => dev.leom)
           /\ PastPhysicalEnd(Now, size) \/ ~Readable(Now)
           /\ Refused("IO_ERR")
        \/ /\ mode = "RDWR" /\ (PastLogicalEnd(Now) => dev.leom)
           /\ ~PastPhysicalEnd(Now, size) /\ Readable(Now)
           /\ \/ Becomes(Written(Now, size)) /\ Replies("NO_ERR", size)
              \/ "disk" \in Faults /\ Becomes(Cut(Now)) /\ Replies("IO_ERR", 0)
           /\ UNCHANGED <<mode, disk>>

\* ndmos_tape_read(): everything but data is the end of the file
Read ==
    \E size \in Sizes :
        \/ mode = "CLOSED" /\ Refused("DEV_NOT_OPEN_ERR")
        \/ mode # "CLOSED" /\ ~Readable(Now) /\ Refused("IO_ERR")
        \/ /\ mode # "CLOSED" /\ Readable(Now) /\ Here(Now).type # "DATA"
           /\ Refused("EOF_ERR")
        \/ /\ mode # "CLOSED" /\ Readable(Now) /\ Here(Now).type = "DATA"
           /\ dev' = [dev EXCEPT !.pos = @ + 1, !.block = @ + 1]
           /\ Replies("NO_ERR", IF size < Here(Now).size THEN size ELSE Here(Now).size)
           /\ UNCHANGED <<file, mode, disk>>

Next ==
    \/ Open \/ Close \/ Vanish \/ Unlock
    \/ Space \/ Rewind \/ Offline \/ WriteMarks \/ Write \/ Read

Spec == Init /\ [][Next]_vars

-----------------------------------------------------------------------------
(* Properties.                                                              *)

\* The offset stays on a gap or at the end of the file, and no number of the
\* tape's state goes below zero (ndma_tape_simulator.c:346-362)
TypeOK ==
    /\ file \in Seq([type : {"BOT", "DATA", "FILE", "EOT"},
                     prev : Sizes \cup {0}, size : Sizes \cup {0}])
    /\ dev \in [pos : 1 .. Limit + 2, fnum : Nat, block : Nat,
                leom : BOOLEAN, weof : BOOLEAN]
    /\ mode \in {"CLOSED", "READ", "RDWR"}
    /\ disk \in [lock : BOOLEAN, link : 0 .. Limit + 2]
    /\ reply.n \in Nat

\* Every gap leads back to the one before it, however the tape was written,
\* cut off, marked and written over again: simu_back_one() finds its way by
\* prev_size alone (ndma_tape_simulator.c:319-320).
GapChain ==
    \A i \in 1 .. Len(file) :
        /\ file[i].prev = IF i = 1 THEN 0 ELSE file[i - 1].size
        /\ file[i].type = "BOT" <=> i = 1
        /\ file[i].type = "EOT" <=> i = Len(file)

\* Records and marks before the head, as they really are
TrueFile == Cardinality({i \in 1 .. dev.pos - 1 : file[i].type = "FILE"})

TrueBlock ==
    Cardinality({i \in 1 .. dev.pos - 1 :
        /\ file[i].type = "DATA"
        /\ \A k \in i .. dev.pos - 1 : file[k].type # "FILE"})

OnTape == mode # "CLOSED" /\ file # <<>>

Exact == dev.fnum = TrueFile /\ dev.block = TrueBlock

\* The marks a step went back over, the one it may have put there included
PassedBack ==
    {i \in dev'.pos .. (IF dev.weof THEN dev.pos ELSE dev.pos - 1) :
        file'[i].type = "FILE"}

\* file_num and blockno stay right, once they are, over everything that does
\* not go back over a mark: the mover spaces by the difference of two block
\* numbers (ndma_tape.c:525-560).
NumbersStayExact ==
    [][OnTape /\ OnTape' /\ Exact /\ (dev'.pos = 2 \/ PassedBack = {})
       => Exact']_vars

\* A write that no longer fits is refused after the logical end of the tape
\* has been told, for records that fit between the two ends
\* (TAPE_SIM_LOGICAL_EOM).
WarnedBeforeTheEnd ==
    [][Write /\ mode = "RDWR" /\ reply'.err = "IO_ERR"
       /\ (\E size \in Sizes : PastPhysicalEnd(Now, size)) => dev.leom]_vars

HeadOf(pos) == IF pos <= 2 THEN 0 ELSE pos - 2

\* The simulator keeps what a drive promises: the gaps are its records and
\* marks, and every request has the effect and the reply it has on a tape.
Medium == INSTANCE TapeMedium WITH
    recs <- IF file = <<>> THEN <<>>
            ELSE [i \in 1 .. Len(file) - 2 |-> file[i + 1].size],
    head <- IF mode = "CLOSED" THEN HeadOf(disk.link) ELSE HeadOf(dev.pos),
    dirty <- dev.weof

BehavesAsTape == Medium!Spec

=============================================================================
