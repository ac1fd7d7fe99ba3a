---------------------------- MODULE MediaWindows ----------------------------
(***************************************************************************)
(* One image on several tapes: the media and monitor code of the CONTROL    *)
(* agent (ndma_ctrl_media.c, ndma_cops_backreco.c) over the records and     *)
(* windows of the mover (ndma_tape.c).  A backup fills tapes one after      *)
(* another; afterwards a recover, a process of its own, is given the tapes  *)
(* in the same order and serves the reads the DATA agent asks for.          *)
(*                                                                         *)
(* Offsets are in units, RecordSize to a record; what is on a tape is the   *)
(* sequence of the image's records it holds, numbered from 0.  File marks   *)
(* are not represented: a read at a mark and one at the end of the data     *)
(* both give EOF.  How a stop waits for the stream to drain, and how the    *)
(* stream ends, is in Session: here the stream has room and a change that   *)
(* is pending is applied at once.                                           *)
(***************************************************************************)
EXTENDS Integers, Sequences, FiniteSets, SequencesExt

CONSTANTS
    Room,           \* per tape the drive gets, in order: records to its EOM
    RecordSize,     \* job->record_size, in units
    ImageRecords,   \* bound: records of the image
    ReadMax,        \* bound: units one DATA_READ asks for
    Lengths,        \* lengths the backup's media list may give each tape
    Tables,         \* what lengths the recover's media list gives
    Faults          \* "load": a tape does not load, "media": a tape error

ASSUME MediaAssumption ==
    /\ Room \in Seq(Nat) /\ Len(Room) > 0
    /\ RecordSize \in Nat \ {0}
    /\ ImageRecords \in Nat
    /\ ReadMax \in Nat \ {0}
    /\ Tables \subseteq {"exact", "indexed", "none"}
    /\ Faults \subseteq {"load", "media"}

Media == 1 .. Len(Room)

\* NDMP_LENGTH_INFINITY: beyond every position of the image
Infinity == RecordSize * (ImageRecords + 2)

ASSUME LengthsAssumption ==
    Lengths \subseteq {r * RecordSize : r \in 0 .. ImageRecords} \cup {Infinity}

VARIABLES
    cart,       \* the image records each tape holds
    drive,      \* the tape in the drive, 0 if none, and its block number
    mover,      \* mover_state, window, position and tape buffer
    job,        \* the operation running and where it is
    ca,         \* the CONTROL agent: media table, current tape, last window
    fed,        \* backup: records of the image that reached a tape
    ask         \* recover: the read asked for, and what it has been served

vars == <<cart, drive, mover, job, ca, fed, ask>>

NoBlock == -1       \* tb_blockno: the tape buffer is not to be trusted

NoRead == [off |-> 0, len |-> 0, out |-> <<>>]

\* ndmta_init_mover_state(), and ndmta_mover_stop() the same: left is not reset
Stopped(left) ==
    [state |-> "IDLE", why |-> "NA", want |-> 0, off |-> 0, end |-> Infinity,
     first |-> 0, num |-> 0, tb |-> NoBlock, buf |-> 0, left |-> left]

\* Mutation: the tape buffer stays trusted when the tape is another
ActiveTrusting(m) == [m EXCEPT !.state = "ACTIVE", !.why = "NA"]

\* ndmta_mover_active(); want, window and the bytes left stay
Active(m) == [m EXCEPT !.state = "ACTIVE", !.why = "NA", !.tb = NoBlock]

Paused(m, why) == [m EXCEPT !.state = "PAUSED", !.why = why]

Halted(m, why) == [m EXCEPT !.state = "HALTED", !.why = why]

\* ndmp_sxa_mover_set_window(): the first block is where the tape is now
Windowed(m, off, len, blockno) ==
    [m EXCEPT !.off = off,
              !.end = IF len = Infinity THEN Infinity ELSE off + len,
              !.num = off \div RecordSize,
              !.first = blockno]

-----------------------------------------------------------------------------
(* The media table.                                                         *)

Listed(n) == [valid |-> n # Infinity, n |-> n]

\* Where a tape's part of the image begins: tapes without a length count as
\* nothing (ndmca_media_calculate_offsets)
Begin(tab, m) ==
    LET sum[k \in 0 .. Len(tab)] ==
            IF k = 0 THEN 0
            ELSE sum[k - 1] + (IF tab[k].valid THEN tab[k].n ELSE 0)
    IN  sum[m - 1]

End(tab, m) == IF tab[m].valid THEN Begin(tab, m) + tab[m].n ELSE Infinity

\* ndmca_media_capture_mover_window(): the number of the mover's last record,
\* taken for the number of records
CapturedLength(m, lastw) == m.num * RecordSize - lastw

Captured == [ca.tab EXCEPT ![ca.cur] = Listed(CapturedLength(mover, ca.lastw))]

\* Mutation: a position behind the last of a tape is taken to be on it
HoldingBoth(tab, pos) ==
    {m \in 1 .. Len(tab) : Begin(tab, m) <= pos /\ pos <= End(tab, m)}

\* ndmca_media_load_seek()
Holding(tab, pos) ==
    {m \in 1 .. Len(tab) : Begin(tab, m) <= pos /\ pos < End(tab, m)}

Lowest(S) == CHOOSE m \in S : \A x \in S : m <= x

-----------------------------------------------------------------------------
Init ==
    /\ cart = [m \in Media |-> <<>>]
    /\ drive = [tape |-> 0, block |-> 0]
    /\ mover = Stopped(0)
    /\ job = [op |-> "none", at |-> "idle", list |-> "none"]
    /\ ca = [tab |-> <<>>, cur |-> 1, lastw |-> 0]
    /\ fed = 0
    /\ ask = NoRead

\* Every way ndmca_media_load_current() fails ends in an empty drive: nothing
\* was opened, or what was has been closed and unloaded again
Loads(m) == drive' = [tape |-> m, block |-> 0]

LoadFails == "load" \in Faults /\ drive' = [tape |-> 0, block |-> 0]

\* ndmca_media_set_window_current() and what the mover does next
SetWindow(tab, m, lastw, next) ==
    /\ mover' = next
    /\ ca' = [tab |-> tab, cur |-> m, lastw |-> lastw]

\* Mutation: the window of the tape that was loaded before
WindowOfOld(tab, m) == Windowed(mover, Begin(tab, ca.cur), tab[ca.cur].n, 0)

\* The window of a tape that was just loaded
WindowOf(tab, m) == Windowed(mover, Begin(tab, m), tab[m].n, 0)

\* monitor_backup, monitor_recover: "Operation paused w/o remedy"; drive and
\* table are as the failed remedy left them
Cancels == mover' = Halted(mover, "ABORTED")

-----------------------------------------------------------------------------
(* Startup: ndmca_backreco_startup.                                         *)

Starts(op, list, tab) ==
    /\ UNCHANGED <<cart, fed, ask>>
    /\ \/ /\ Loads(1)
          /\ SetWindow(tab, 1, 0, [Windowed(Stopped(0), 0, tab[1].n, 0)
                                      EXCEPT !.state = "LISTEN"])
          /\ job' = [op |-> op, at |-> "monitor", list |-> list]
       \/ /\ LoadFails
          /\ SetWindow(tab, 1, 0, Stopped(0))
          /\ job' = [op |-> op, at |-> "failed", list |-> list]

StartBackup ==
    /\ job.op = "none"
    /\ \E n \in [Media -> Lengths] :
          Starts("backup", "none", [m \in Media |-> Listed(n[m])])

\* The lengths a recover is given: what is on the tapes, what the backup wrote
\* to its index, or none.  The list is that of the tapes the backup used.
GivenTable(kind) ==
    [m \in 1 .. ca.cur |->
        CASE kind = "exact" -> Listed(Len(cart[m]) * RecordSize)
          [] kind = "indexed" -> Listed(ca.tab[m].n)
          [] kind = "none" -> Listed(Infinity)]

StartRecover ==
    /\ job.op = "backup" /\ job.at = "over"
    /\ \E kind \in Tables : Starts("recover", kind, GivenTable(kind))

\* ndmta_quantum() in LISTEN, when the DATA agent has connected
MoverStarts ==
    /\ mover.state = "LISTEN"
    /\ mover' = Active(mover)
    /\ UNCHANGED <<cart, drive, job, ca, fed, ask>>

-----------------------------------------------------------------------------
(* ndmta_read_quantum(): the records that are ready go to the tape, up to   *)
(* the end of the window or of the tape.                                    *)

Records(from, n) == [i \in 1 .. n |-> from + i - 1]

\* What a quantum with ready records moves
Moves(ready) ==
    Lowest({ready, (mover.end - mover.want) \div RecordSize,
            Room[drive.tape] - drive.block} \cap Nat)

\* Mutation: the record that met the end of the tape is dropped
TakenDropping(ready) ==
    IF Moves(ready) < ready THEN Moves(ready) + 1 ELSE Moves(ready)

\* The records that left the stream
Taken(ready) == Moves(ready)

AtWindowEnd(m) == m.want >= m.end

\* record_num is that of the last record moved, from the position before it
Wrote(n) ==
    IF n = 0 THEN mover
    ELSE [mover EXCEPT !.num = (mover.want + (n - 1) * RecordSize) \div RecordSize,
                       !.want = @ + n * RecordSize]

AfterWrite(ready) ==
    LET m == Wrote(Moves(ready))
    IN  IF Moves(ready) = ready THEN m
        ELSE Paused(m, IF AtWindowEnd(m) THEN "SEEK" ELSE "EOM")

BackupQuantum ==
    /\ job.op = "backup" /\ mover.state = "ACTIVE"
    /\ \E ready \in 1 .. ImageRecords - fed :
          /\ mover' = AfterWrite(ready)
          /\ cart' = [cart EXCEPT ![drive.tape] =
                         SubSeq(@, 1, drive.block) \o Records(fed, Moves(ready))]
          /\ drive' = [drive EXCEPT !.block = @ + Moves(ready)]
          /\ fed' = fed + Taken(ready)
    /\ UNCHANGED <<job, ca, ask>>

\* The image has ended, of whatever length, and all of it is on tape
BackupEnds ==
    /\ job.op = "backup" /\ mover.state = "ACTIVE"
    /\ mover' = Halted(mover, "CONNECT_CLOSED")
    /\ UNCHANGED <<cart, drive, job, ca, fed, ask>>

-----------------------------------------------------------------------------
(* ndmta_write_quantum(), one turn of its loop: the next piece of the read  *)
(* in progress, from the tape buffer or from the tape.                      *)

Reading == job.op = "recover" /\ mover.state = "ACTIVE" /\ mover.left > 0

InWindow == mover.off <= mover.want /\ mover.want < mover.end

WantBlock == mover.first + (mover.want - mover.off) \div RecordSize

ReadOutside ==
    /\ Reading /\ ~InWindow
    /\ mover' = Paused(mover, "SEEK")
    /\ UNCHANGED <<cart, drive, job, ca, fed, ask>>

\* Spaced or read up to the mark behind the last record
ReadMeetsMark ==
    /\ Reading /\ InWindow /\ mover.tb # WantBlock
    /\ WantBlock >= Len(cart[drive.tape])
    /\ drive' = [drive EXCEPT !.block = Len(cart[drive.tape])]
    /\ mover' = Paused(mover, "EOF")
    /\ UNCHANGED <<cart, job, ca, fed, ask>>

\* Mutation: the position inside the record is forgotten
PieceFromStart(rec, n) == [i \in 1 .. n |-> rec * RecordSize + i - 1]

\* Image units from the wanted position, as they are in the record rec
Piece(rec, n) ==
    [i \in 1 .. n |-> rec * RecordSize + (mover.want % RecordSize) + i - 1]

Serves(m, rec) ==
    \E n \in 1 .. Lowest({mover.left, mover.end - mover.want,
                          RecordSize - (mover.want % RecordSize)}) :
       /\ mover' = [m EXCEPT !.want = @ + n, !.left = @ - n]
       /\ ask' = [ask EXCEPT !.out = @ \o Piece(rec, n)]

ServeFromBuffer ==
    /\ Reading /\ InWindow /\ mover.tb = WantBlock
    /\ Serves(mover, mover.buf)
    /\ UNCHANGED <<cart, drive, job, ca, fed>>

ServeFromTape ==
    /\ Reading /\ InWindow /\ mover.tb # WantBlock
    /\ WantBlock < Len(cart[drive.tape])
    /\ LET rec == cart[drive.tape][WantBlock + 1]
       IN  Serves([mover EXCEPT !.tb = WantBlock, !.buf = rec,
                                !.num = mover.want \div RecordSize], rec)
    /\ drive' = [drive EXCEPT !.block = WantBlock + 1]
    /\ UNCHANGED <<cart, job, ca, fed>>

\* The tape fails while the mover writes or reads it
MediaFails ==
    /\ "media" \in Faults /\ mover.state = "ACTIVE"
    /\ job.op = "backup" => fed < ImageRecords
    /\ job.op = "recover" => mover.left > 0
    /\ mover' = Halted(mover, "MEDIA_ERROR")
    /\ UNCHANGED <<cart, drive, job, ca, fed, ask>>

-----------------------------------------------------------------------------
(* The DATA agent of a recover: it asks when it has been served.            *)

\* NDMP_NOTIFY_DATA_READ, and ndmca_monitor_recover() passing it on
MoverRead ==
    /\ job.op = "recover" /\ mover.state = "ACTIVE" /\ mover.left = 0
    /\ \E off \in 0 .. ImageRecords * RecordSize, len \in 1 .. ReadMax :
          /\ ask' = [off |-> off, len |-> len, out |-> <<>>]
          /\ mover' = [mover EXCEPT !.want = off, !.left = len]
    /\ UNCHANGED <<cart, drive, job, ca, fed>>

\* DATA has halted: the mover, which waits for a MOVER_READ, is closed
RecoverEnds ==
    /\ job.op = "recover" /\ mover.state = "ACTIVE" /\ mover.left = 0
    /\ mover' = Halted(mover, "CONNECT_CLOSED")
    /\ UNCHANGED <<cart, drive, job, ca, fed, ask>>

-----------------------------------------------------------------------------
(* The monitor's remedies for a mover that paused.                          *)

\* The mover's notice of a pause is sent in the quantum that pauses it
Noticed == job.at = "monitor" /\ mover.state = "PAUSED"

\* Tape m in the drive, its window set, the mover told to continue; or no
\* such tape, or it does not load
Remedy(tab, exists, m) ==
    \/ /\ exists
       /\ Loads(m)
       /\ SetWindow(tab, m, Begin(tab, m), Active(WindowOf(tab, m)))
    \/ /\ exists
       /\ LoadFails
       /\ Cancels
       /\ ca' = [ca EXCEPT !.tab = tab, !.cur = m]
    \/ /\ ~exists
       /\ drive' = [tape |-> 0, block |-> 0]
       /\ Cancels
       /\ ca' = [ca EXCEPT !.tab = tab]

\* ndmca_monitor_load_next()
LoadNext ==
    /\ Noticed
    /\ \/ job.op = "backup" /\ mover.why = "EOM"
       \/ job.op = "recover" /\ mover.why = "EOF" /\ ca.cur < Len(ca.tab)
    /\ Remedy(Captured, ca.cur < Len(ca.tab), ca.cur + 1)
    /\ UNCHANGED <<cart, job, fed, ask>>

\* ndmca_monitor_seek_tape(): the tape that holds the position the mover wants
SeekTape ==
    /\ Noticed
    /\ job.op = "recover" /\ mover.why = "SEEK" /\ ca.cur < Len(ca.tab)
    /\ LET on == Holding(ca.tab, mover.want)
       IN  Remedy(ca.tab, on # {}, IF on = {} THEN ca.cur ELSE Lowest(on))
    /\ UNCHANGED <<cart, job, fed, ask>>

\* "End of tapes"
CloseLast ==
    /\ Noticed
    /\ job.op = "recover" /\ ca.cur = Len(ca.tab)
    /\ mover' = Halted(mover, "CONNECT_CLOSED")
    /\ UNCHANGED <<cart, drive, job, ca, fed, ask>>

\* A backup's window has ended: a reason the monitor has no remedy for
CancelBackup ==
    /\ Noticed
    /\ job.op = "backup" /\ mover.why = "SEEK"
    /\ Cancels
    /\ UNCHANGED <<cart, drive, job, ca, fed, ask>>

\* ndmca_monitor_shutdown() once the mover has halted, with
\* ndmca_monitor_unload_last_tape() if a tape is loaded
Shutdown ==
    /\ job.at = "monitor" /\ mover.state = "HALTED"
    /\ drive' = [tape |-> 0, block |-> 0]
    /\ ca' = IF drive.tape = 0 THEN ca ELSE [ca EXCEPT !.tab = Captured]
    /\ mover' = Stopped(mover.left)
    /\ job' = [job EXCEPT !.at =
                  IF mover.why = "CONNECT_CLOSED" THEN "over" ELSE "failed"]
    /\ UNCHANGED <<cart, fed, ask>>

Ended ==
    /\ \/ job.at = "failed"
       \/ job.op = "recover" /\ job.at = "over"
    /\ UNCHANGED vars

-----------------------------------------------------------------------------
MoverNext ==
    \/ MoverStarts \/ BackupQuantum \/ BackupEnds
    \/ ReadOutside \/ ReadMeetsMark \/ ServeFromBuffer \/ ServeFromTape

MonitorNext ==
    LoadNext \/ SeekTape \/ CloseLast \/ CancelBackup \/ Shutdown

Next ==
    \/ MoverNext \/ MonitorNext \/ MediaFails
    \/ StartBackup \/ StartRecover \/ MoverRead \/ RecoverEnds \/ Ended

\* Quanta are given as long as the connection is there, and the monitor looks
\* at the states again after at most 30 seconds
Fairness == WF_vars(MoverNext) /\ WF_vars(MonitorNext)

Spec == Init /\ [][Next]_vars /\ Fairness

-----------------------------------------------------------------------------
(* Properties.                                                              *)

\* The records, positions and tables have their types, and the tape buffer is
\* distrusted by no other value than NoBlock (ndma_tape.c:86-110)
TypeOK ==
    /\ cart \in [Media -> Seq(0 .. ImageRecords - 1)]
    /\ drive \in [tape : Media \cup {0}, block : Nat]
    /\ mover \in [state : {"IDLE", "LISTEN", "ACTIVE", "PAUSED", "HALTED"},
                  why : {"NA", "SEEK", "EOM", "EOF", "CONNECT_CLOSED",
                         "MEDIA_ERROR", "ABORTED"},
                  want : Nat, off : Nat, end : Nat, first : Nat, num : Nat,
                  tb : {NoBlock} \cup Nat, buf : Nat, left : Nat]
    /\ job \in [op : {"none", "backup", "recover"},
                at : {"idle", "monitor", "over", "failed"},
                list : {"none", "exact", "indexed"}]
    /\ ca \in [tab : Seq([valid : BOOLEAN, n : Nat]), cur : Media, lastw : Nat]
    /\ fed \in 0 .. ImageRecords
    /\ ask \in [off : Nat, len : 0 .. ReadMax, out : Seq(Nat)]

\* While a backup runs and after it, the tapes in the order of the media list
\* hold the image from its first record on, none twice and none missing over
\* a change of tapes (ndma_tape.c:421-449, ndmca_monitor_load_next).
LaidOut ==
    FlattenSeq(cart) = Records(0, fed)

\* With the true lengths of the tapes, a read is served with the image units
\* asked for, in order, over any tapes it spans (ndma_tape.c:460-600).
ServedAsAsked ==
    job.list = "exact" =>
        \A i \in 1 .. Len(ask.out) : ask.out[i] = ask.off + i - 1

\* An active mover that reads back has the window of the tape in the drive:
\* the tape's blocks, from the first block of the window, are the records from
\* the window's offset (ndmca_media_set_window_current after the load).
WindowIsTheTapes ==
    job.list = "exact" /\ mover.state = "ACTIVE" =>
        LET on == cart[drive.tape]
        IN  /\ mover.first = 0
            /\ mover.end = mover.off + Len(on) * RecordSize
            /\ \A b \in 1 .. Len(on) : on[b] = mover.off \div RecordSize + b - 1

\* The monitor leaves no read hanging: it is served to its end, or the mover
\* comes to a halt (ndmca_monitor_recover).
ReadsEnd ==
    (mover.left > 0 /\ job.at = "monitor") ~>
        (mover.left = 0 \/ job.at # "monitor")

=============================================================================
