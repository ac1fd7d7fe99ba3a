----------------------------- MODULE TapeMedium -----------------------------
(***************************************************************************)
(* What a tape drive promises the TAPE agent: the medium is a sequence of   *)
(* records and file marks with the head between two of them.  A write cuts  *)
(* off what follows the head; spacing over records stops at a mark, at the  *)
(* end of the data and at the beginning of the tape; a drive that has       *)
(* written puts a mark behind the last record before it moves or closes.    *)
(*                                                                         *)
(* It is the one drive this TAPE agent has, the simulator, in every version *)
(* of the protocol.  The repository's conformance tests expect another one  *)
(* in two places: a read at the end of the data that is answered EOM_ERR in *)
(* NDMP4 (ndma_ctst_tape.c:499-505, 597), where this drive answers EOF_ERR  *)
(* at a mark and at the end alike; and, in NDMP2 and 3, a read or a spacing *)
(* over records that meets a mark and ends on its far side (755, 845-853,   *)
(* 871-878), where this drive stays before it.                              *)
(***************************************************************************)
EXTENDS Integers, Sequences, FiniteSets

CONSTANTS Sizes,    \* sizes of a record
          CountMax  \* bound: the count one request gives

Mark == 0           \* a file mark, among the sizes of the records

VARIABLES
    recs,       \* the medium
    head,       \* how many records and marks are before the head
    mode,       \* how the drive is open
    dirty,      \* written, and no mark behind it yet
    reply       \* of the last request: its error and its count

vars == <<recs, head, mode, dirty, reply>>

Counts == 1 .. CountMax

Ok(n) == [err |-> "NO_ERR", n |-> n]

Error(err, n) == [err |-> err, n |-> n]

Init ==
    /\ recs = <<>> /\ head = 0 /\ mode = "CLOSED" /\ dirty = FALSE
    /\ reply = Ok(0)

Kept == SubSeq(recs, 1, head)

\* The medium and the head once a drive that has written is about to move:
\* marked, unless the mark does not fit
Settled ==
    IF dirty THEN {[recs |-> Append(Kept, Mark), head |-> head + 1],
                   [recs |-> recs, head |-> head]}
             ELSE {[recs |-> recs, head |-> head]}

Marks(s, from, to) == {i \in from .. to : s[i] = Mark}

\* The head after spacing over n records, n at most
ForwardRecords(m, n) ==
    CHOOSE h \in m.head .. Len(m.recs) :
        /\ Marks(m.recs, m.head + 1, h) = {} /\ h <= m.head + n
        /\ \/ h = m.head + n \/ h = Len(m.recs) \/ m.recs[h + 1] = Mark

BackRecords(m, n) ==
    CHOOSE h \in 0 .. m.head :
        /\ Marks(m.recs, h + 1, m.head) = {} /\ h >= m.head - n
        /\ \/ h = m.head - n \/ h = 0 \/ m.recs[h] = Mark

\* The head behind the nth mark from here, or at the end of the data
ForwardFiles(m, n) ==
    CHOOSE h \in m.head .. Len(m.recs) :
        LET crossed == Cardinality(Marks(m.recs, m.head + 1, h))
        IN  \/ crossed = n /\ m.recs[h] = Mark
            \/ crossed < n /\ h = Len(m.recs)

\* The head before the nth mark back, or at the beginning of the tape
BackFiles(m, n) ==
    CHOOSE h \in 0 .. m.head :
        LET crossed == Cardinality(Marks(m.recs, h + 1, m.head))
        IN  \/ crossed = n /\ m.recs[h + 1] = Mark
            \/ crossed < n /\ h = 0

\* The head goes to h, and left of what was asked for is not done
Goes(m, h, left) ==
    /\ recs' = m.recs /\ head' = h /\ dirty' = FALSE
    /\ reply' = Ok(left)
    /\ UNCHANGED mode

Span(a, b) == IF a < b THEN b - a ELSE a - b

Space ==
    /\ mode # "CLOSED"
    /\ \E m \in Settled, n \in Counts :
          \/ LET h == ForwardRecords(m, n) IN Goes(m, h, n - Span(m.head, h))
          \/ LET h == BackRecords(m, n) IN Goes(m, h, n - Span(m.head, h))
          \/ LET h == ForwardFiles(m, n)
             IN  Goes(m, h, n - Cardinality(Marks(m.recs, m.head + 1, h)))
          \/ LET h == BackFiles(m, n)
             IN  Goes(m, h, n - Cardinality(Marks(m.recs, h + 1, m.head)))
          \/ Goes(m, 0, 0)              \* rewind
          \/ Goes(m, m.head, n)         \* off line: nothing moves

Write ==
    /\ mode = "RDWR"
    /\ \E size \in Sizes :
          /\ recs' = Append(Kept, size) /\ reply' = Ok(size)
    /\ head' = head + 1 /\ dirty' = TRUE
    /\ UNCHANGED mode

WriteMarks ==
    /\ mode = "RDWR"
    /\ \E n \in Counts :
          /\ recs' = Kept \o [i \in 1 .. n |-> Mark]
          /\ head' = head + n
    /\ dirty' = FALSE /\ reply' = Ok(0)
    /\ UNCHANGED mode

Read ==
    /\ mode # "CLOSED" /\ head < Len(recs) /\ recs[head + 1] # Mark
    /\ head' = head + 1
    /\ \E size \in Sizes :
          reply' = Ok(IF size < recs[head'] THEN size ELSE recs[head'])
    /\ UNCHANGED <<recs, mode, dirty>>

\* The reply is an error, and nothing else happens
Refused(err) ==
    reply' = Error(err, 0) /\ UNCHANGED <<recs, head, mode, dirty>>

\* The drive is not open, is another's, is open already, is open for reading
Refuses ==
    \/ mode = "CLOSED" /\ (Refused("DEV_NOT_OPEN_ERR") \/ Refused("DEVICE_BUSY_ERR"))
    \/ mode # "CLOSED" /\ Refused("DEVICE_OPENED_ERR")
    \/ mode = "READ" /\ Refused("PERMISSION_ERR")

\* There is no record behind the head: a mark, or the end of the data
ReadsNothing ==
    /\ mode # "CLOSED" /\ (head = Len(recs) \/ recs[head + 1] = Mark)
    /\ Refused("EOF_ERR")

\* A drive that is open for writing tells that the tape is almost full
Warns == mode = "RDWR" /\ Refused("EOM_ERR")

\* A tape nothing was ever written on, and the drive open for reading: there
\* is nothing to read and nowhere to go
Blank ==
    /\ mode = "READ" /\ recs = <<>>
    /\ \E n \in 0 .. CountMax : reply' = Error("IO_ERR", n)
    /\ UNCHANGED <<recs, head, mode, dirty>>

\* The record does not fit, or it fails and has cut off what followed
WriteFails ==
    /\ mode = "RDWR"
    /\ \/ Refused("IO_ERR")
       \/ /\ recs' = Kept /\ dirty' = TRUE /\ reply' = Error("IO_ERR", 0)
          /\ UNCHANGED <<head, mode>>

\* Only the first k of n marks fit; if none does, what followed is still there
MarksFail ==
    /\ mode = "RDWR"
    /\ \E n \in Counts : \E k \in 0 .. n - 1 :
          /\ recs' = IF k = 0 THEN recs ELSE Kept \o [i \in 1 .. k |-> Mark]
          /\ head' = head + k
          /\ reply' = Error("IO_ERR", n - k)
    /\ dirty' = FALSE
    /\ UNCHANGED mode

Fails == Refuses \/ ReadsNothing \/ Warns \/ Blank \/ WriteFails \/ MarksFail

Open ==
    /\ mode = "CLOSED" /\ mode' \in {"READ", "RDWR"} /\ reply' = Ok(0)
    /\ UNCHANGED <<recs, head, dirty>>

Close ==
    /\ mode # "CLOSED" /\ mode' = "CLOSED"
    /\ \E m \in Settled : recs' = m.recs /\ head' = m.head
    /\ dirty' = FALSE /\ reply' = Ok(0)

\* The process that has the drive is gone: no mark is written, and where the
\* head was is forgotten
Vanish ==
    /\ mode # "CLOSED" /\ mode' = "CLOSED" /\ dirty' = FALSE /\ head' = 0
    /\ UNCHANGED <<recs, reply>>

Next == Space \/ Write \/ WriteMarks \/ Read \/ Fails \/ Open \/ Close \/ Vanish

Spec == Init /\ [][Next]_vars

=============================================================================
