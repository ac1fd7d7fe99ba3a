------------------------------ MODULE Session ------------------------------
(***************************************************************************)
(* One NDMP server session: the image stream, the TAPE agent's mover, the   *)
(* DATA agent with the formatter it forks, and the loop that gives them     *)
(* their quanta, polls the channels and dispatches the requests of the      *)
(* CONTROL agent (ndma_comm_session.c, ndma_tape.c, ndma_data.c and the     *)
(* MOVER, DATA and TAPE handlers of ndma_comm_dispatch.c).                  *)
(*                                                                         *)
(* The session is one thread, so a quantum and a handler are each one step; *)
(* what interleaves is which channel becomes ready, which request arrives   *)
(* between two rounds of quanta, and what the tape, the network and the     *)
(* formatter answer.  Bytes are counted in units; a record is RecordSize    *)
(* units.  A request the audits refuse changes nothing and is no step.      *)
(***************************************************************************)
EXTENDS ImageStream

CONSTANTS
    RecordSize,     \* mover_state.record_size, in units
    ImageSize,      \* buffer of the formatter's image channel, in units
    JobLimit,       \* bound: units one job produces, and units it asks for
    ReadMax,        \* bound: units one DATA_READ or MOVER_READ asks for
    Addrs,          \* the addresses requests name: a subset of AddrType
    Ops,            \* the operations requests name: a subset of DataOp
    Faults          \* what may go wrong besides what the CONTROL agent asks

FaultKind == {"EOM", "SEEK", "EOF", "MEDIA_ERROR",  \* the tape and its window
              "listen", "accept", "io",             \* the network
              "copy", "fork",                       \* memory and processes
              "lines"}     \* a formatter that asks again before it is served

ASSUME SizesAssumption ==
    /\ RecordSize \in Nat \ {0}
    /\ RecordSize <= ChanSize
    /\ ImageSize \in Nat \ {0}
    /\ JobLimit \in Nat
    /\ ReadMax \in Nat \ {0}

DataOp == {"BACKUP", "RECOVER"}

ASSUME KindsAssumption ==
    Addrs \subseteq AddrType /\ Ops \subseteq DataOp /\ Faults \subseteq FaultKind

VARIABLES
    is,         \* plumb.image_stream
    mover,      \* tape_acb: mover_state and the pending change
    tape,       \* tape_fd and the mode it was opened with
    data,       \* data_acb.data_state
    fmt,        \* the formatter's channels of data_acb
    told,       \* the last NOTIFY each agent sent about its present state
    acct,       \* history of the present job: what entered and what left
    pc,         \* where the session loop is
    goal,       \* what follows the round of quanta: poll or dispatch
    did         \* did_something of the present round

vars == <<is, mover, tape, data, fmt, told, acct, pc, goal, did>>

MoverState == {"IDLE", "LISTEN", "ACTIVE", "PAUSED", "HALTED"}

MoverMode == {"READ", "WRITE"}      \* READ: stream to tape, WRITE: back

HaltReason == {"NA", "CONNECT_CLOSED", "CONNECT_ERROR", "ABORTED",
               "MEDIA_ERROR", "SUCCESSFUL", "INTERNAL_ERROR"}

PauseReason == {"NA", "SEEK", "EOM", "EOF"}

\* pend: pending_change_after_drain with the reason it will be applied with
Mover == [state : MoverState, mode : MoverMode, addr : AddrType,
          halt : HaltReason, pause : PauseReason, left : 0 .. ReadMax,
          pend : {"none", "SEEK", "EOF", "MEDIA_ERROR"}, notify : BOOLEAN]

\* LISTEN is not entered: the DATA_LISTEN handler is not compiled ("notyet").
\* RECOVER stands for recover and recover_filehist, which only differ in what
\* they make the formatter do.
Data == [state : {"IDLE", "CONNECTED", "ACTIVE", "HALTED"},
         op : DataOp \cup {"NOACTION"}, addr : AddrType,
         halt : HaltReason, notify : BOOLEAN]

\* img, imgEof, imgErr: formatter_image; ask: the length on the DATA_READ line
\* waiting in formatter_wrap, 0 if none waits, and more: whether a second one
\* waits behind it; chat: lines that only get logged wait
Formatter == [img : 0 .. ImageSize, imgEof : BOOLEAN, imgErr : BOOLEAN,
              ask : 0 .. ReadMax, more : BOOLEAN, wrapEof : BOOLEAN,
              chat : BOOLEAN]

\* made: units that entered the session, pad: zeroes that filled a record,
\* out: units on tape (backup) or with the consumer, asked: units requested
Account == [made : Nat, pad : Nat, out : Nat, asked : Nat]

InitMover == [state |-> "IDLE", mode |-> "READ", addr |-> "LOCAL",
              halt |-> "NA", pause |-> "NA", left |-> 0, pend |-> "none",
              notify |-> FALSE]

InitData == [state |-> "IDLE", op |-> "NOACTION", addr |-> "LOCAL",
             halt |-> "NA", notify |-> FALSE]

NoFormatter == [img |-> 0, imgEof |-> FALSE, imgErr |-> FALSE, ask |-> 0,
                more |-> FALSE, wrapEof |-> FALSE, chat |-> FALSE]

NewAccount == [made |-> 0, pad |-> 0, out |-> 0, asked |-> 0]

Init ==
    /\ is = InitStream
    /\ mover = InitMover
    /\ tape = "CLOSED"
    /\ data = InitData
    /\ fmt = NoFormatter
    /\ told = [mover |-> "none", data |-> "none"]
    /\ acct = NewAccount
    /\ pc = "is" /\ goal = "poll" /\ did = FALSE

Least(a, b) == IF a < b THEN a ELSE b

-----------------------------------------------------------------------------
(* The mover's state changes, ndma_tape.c.                                  *)

MoverHalted(m, reason) ==
    [m EXCEPT !.state = "HALTED", !.halt = reason, !.pause = "NA",
              !.pend = "none", !.notify = TRUE]

MoverPaused(m, reason) ==
    [m EXCEPT !.state = "PAUSED", !.halt = "NA", !.pause = reason,
              !.pend = "none", !.notify = TRUE]

MoverActive(m) == [m EXCEPT !.state = "ACTIVE", !.halt = "NA", !.pause = "NA"]

MoverListening(m, mode, addr) ==
    [m EXCEPT !.state = "LISTEN", !.mode = mode, !.addr = addr,
              !.halt = "NA", !.pause = "NA"]

\* Only the state, the window and the position: not the bytes left to read
MoverStopped(m) == [m EXCEPT !.state = "IDLE"]

\* Mutation: the change is applied and nobody is told
MoverAppliedUntold(m) ==
    IF m.pend = "MEDIA_ERROR"
    THEN [m EXCEPT !.state = "HALTED", !.halt = m.pend, !.pend = "none"]
    ELSE [m EXCEPT !.state = "PAUSED", !.pause = m.pend, !.pend = "none"]

\* A pending change is applied to the mover alone
MoverApplied(m) ==
    IF m.pend = "MEDIA_ERROR" THEN MoverHalted(m, m.pend)
                              ELSE MoverPaused(m, m.pend)

\* ndmta_mover_send_notice(): in any other state the flag is just dropped
MoverTold(m) ==
    IF m.notify /\ m.state \in {"PAUSED", "HALTED"} THEN m.state ELSE told.mover

NoticeSent(agent) == [agent EXCEPT !.notify = FALSE]

-----------------------------------------------------------------------------
(* The DATA agent's state changes, ndma_data.c.                             *)

DataHalted(d, reason) ==
    [d EXCEPT !.state = "HALTED", !.halt = reason, !.notify = TRUE]

\* ndmda_decommission(): only the state goes back
DataIdled(d) == [d EXCEPT !.state = "IDLE"]

\* ndmchan_cleanup() of the three formatter channels
FormatterCleaned == [NoFormatter EXCEPT !.imgEof = TRUE, !.wrapEof = TRUE]

DataTold(d) == IF d.notify /\ d.state = "HALTED" THEN "HALTED" ELSE told.data

-----------------------------------------------------------------------------
(* The round of quanta, ndma_session_distribute_quantum().                  *)

\* Each quantum is one step and hands on to the next agent's
Then(next, something) ==
    /\ pc' = next
    /\ did' = (did \/ something)
    /\ UNCHANGED goal

\* The last quantum of a round: go round again if anything was done
RoundEnds(something) ==
    /\ pc' = IF did \/ something THEN "is" ELSE goal
    /\ did' = FALSE
    /\ UNCHANGED goal

\* ndmis_quantum(): take the connection that waits on the listening socket
StreamAccepts ==
    /\ pc = "is" /\ is.remote = "LISTEN" /\ is.ready
    /\ \E side \in Side, ok \in BOOLEAN :
           /\ is.ep[side].cs = "LISTEN"
           /\ ok \/ "accept" \in Faults
           /\ is' = Accept(is, side, ok)
    /\ Then("ta", TRUE)
    /\ UNCHANGED <<mover, tape, data, fmt, told, acct>>

StreamIdles ==
    /\ pc = "is" /\ ~(is.remote = "LISTEN" /\ is.ready)
    /\ Then("ta", FALSE)
    /\ UNCHANGED <<is, mover, tape, data, fmt, told, acct>>

\* ndmta_quantum() ends with the notice, whatever it did before
MoverBecomes(m) ==
    /\ mover' = NoticeSent(m)
    /\ told' = [told EXCEPT !.mover = MoverTold(m)]

\* An IDLE mover gets no quantum, so not even a stale notice is dropped
MoverIdles ==
    /\ pc = "ta" /\ mover.state = "IDLE"
    /\ Then("da", FALSE)
    /\ UNCHANGED <<is, mover, tape, data, fmt, told, acct>>

MoverRests ==
    /\ pc = "ta" /\ mover.state \in {"PAUSED", "HALTED"}
    /\ MoverBecomes(mover)
    /\ Then("da", FALSE)
    /\ UNCHANGED <<is, tape, data, fmt, acct>>

\* LISTEN: wait, go ACTIVE on the accepted connection, or halt
MoverAwaits ==
    /\ pc = "ta" /\ mover.state = "LISTEN"
    /\ LET status == is.ep["tape"].cs
       IN  CASE status = "LISTEN" ->
                  /\ MoverBecomes(mover)
                  /\ Then("da", FALSE)
                  /\ UNCHANGED is
             [] status = "ACCEPTED" ->
                  /\ MoverBecomes(MoverActive(mover))
                  /\ is' = Start(is, "tape", mover.mode)
                  /\ Then("da", TRUE)
             [] OTHER ->
                  /\ MoverBecomes(MoverHalted(mover, "CONNECT_ERROR"))
                  /\ is' = Close(is, "tape")
                  /\ Then("da", FALSE)
    /\ UNCHANGED <<tape, data, fmt, acct>>

\* What stops the mover before the next record: the end of the window, the
\* end of the medium, or the device.  A device that is not open for writing
\* refuses with an error the mover takes for a medium error.
WriteStops ==
    (Faults \cap {"EOM", "SEEK", "MEDIA_ERROR"})
        \cup IF tape = "RW" THEN {} ELSE {"MEDIA_ERROR"}

\* Mutation: a record the image does not fill is dropped
NeverPads(stream) == FALSE

\* The end of the image leaves a record unfilled
Pads(stream) == stream.chan.eof /\ stream.chan.n % RecordSize > 0

\* ndmta_read_quantum(): move whole records from the channel to the tape; the
\* last one is padded once the channel has seen the end of the image
MoverReads ==
    /\ pc = "ta" /\ mover.state = "ACTIVE" /\ mover.mode = "READ"
    /\ \E w \in 0 .. ChanSize :
         LET n    == is.chan.n
             full == n \div RecordSize
             most == IF Pads(is) THEN full + 1 ELSE full
             \* the record it stops at, or has just written, is the padded one
             pad  == IF Pads(is) /\ w >= full
                     THEN RecordSize - (n % RecordSize) ELSE 0
             is1  == [is EXCEPT !.chan.n = n + pad - w * RecordSize]
         IN  /\ w <= most
             /\ w > 0 => tape = "RW"
             /\ acct' = [acct EXCEPT !.out = @ + w * RecordSize, !.pad = @ + pad]
             /\ \/ /\ w = most
                   /\ ~is.chan.eof
                   /\ MoverBecomes(mover) /\ is' = is1
                   /\ Then("da", w > 0)
                \/ /\ w = most
                   /\ is.chan.eof
                   /\ MoverBecomes(MoverHalted(mover,
                          IF is.chan.errno THEN "CONNECT_ERROR"
                                           ELSE "CONNECT_CLOSED"))
                   /\ is' = Close(is1, "tape")
                   /\ Then("da", TRUE)
                \/ /\ w < most
                   /\ \E stop \in WriteStops :
                         IF stop = "MEDIA_ERROR"
                         THEN /\ MoverBecomes(MoverHalted(mover, stop))
                              /\ is' = Close(is1, "tape")
                         ELSE /\ MoverBecomes(MoverPaused(mover, stop))
                              /\ is' = is1
                   /\ Then("da", TRUE)
    /\ UNCHANGED <<tape, data, fmt>>

\* What stops the mover before the next byte it was asked for
ReadStops ==
    (Faults \cap {"EOF", "SEEK", "MEDIA_ERROR"})
        \cup IF tape = "CLOSED" THEN {"MEDIA_ERROR"} ELSE {}

\* A change waits until the other end has taken what was read before it
MayApply(stream) == stream.chan.n = 0

\* ndmta_write_quantum(): move what was asked for from the tape to the channel.
\* What stops it becomes pending until the channel has drained.
MoverWrites ==
    /\ pc = "ta" /\ mover.state = "ACTIVE" /\ mover.mode = "WRITE"
    /\ \E k \in 0 .. ChanSize :
         LET most == Least(Room(is), mover.left)
             m1   == [mover EXCEPT !.left = @ - k]
             is1  == [is EXCEPT !.chan.n = @ + k]
         IN  \/ \* drained: the pending change is due
                /\ mover.pend # "none" /\ k = 0
                /\ Room(is) > 0 /\ MayApply(is)
                /\ MoverBecomes(MoverApplied(mover))
                /\ Then("da", TRUE)
                /\ UNCHANGED <<is, acct>>
             \/ \* still draining
                /\ mover.pend # "none" /\ k = 0
                /\ Room(is) = 0 \/ ~MayApply(is)
                /\ MoverBecomes(mover)
                /\ Then("da", FALSE)
                /\ UNCHANGED <<is, acct>>
             \/ \* blocked: no room, or nothing more asked for
                /\ mover.pend = "none" /\ k = most
                /\ k > 0 => tape # "CLOSED"
                /\ MoverBecomes(m1)
                /\ is' = is1
                /\ acct' = [acct EXCEPT !.made = @ + k]
                /\ Then("da", k > 0)
             \/ \* stopped short
                /\ mover.pend = "none" /\ k < most
                /\ k > 0 => tape # "CLOSED"
                /\ \E stop \in ReadStops, tried \in BOOLEAN :
                      LET m2 == [m1 EXCEPT !.pend = stop]
                      IN  /\ stop = "SEEK" => ~tried
                          /\ MoverBecomes(IF MayApply(is1)
                                          THEN MoverApplied(m2) ELSE m2)
                          /\ Then("da", tried \/ k > 0 \/ MayApply(is1))
                /\ is' = is1
                /\ acct' = [acct EXCEPT !.made = @ + k]
    /\ UNCHANGED <<tape, data, fmt>>

\* ndmda_quantum() ends with the notice too
DataBecomes(d) ==
    /\ data' = NoticeSent(d)
    /\ told' = [told EXCEPT !.data = DataTold(d)]

DataIdles ==
    /\ pc = "da" /\ data.state = "IDLE"
    /\ RoundEnds(FALSE)
    /\ UNCHANGED <<is, mover, tape, data, fmt, told, acct>>

DataRests ==
    /\ pc = "da" /\ data.state \in {"CONNECTED", "HALTED"}
    /\ DataBecomes(data)
    /\ RoundEnds(FALSE)
    /\ UNCHANGED <<is, mover, tape, fmt, acct>>

\* The formatter's image has ended and k units of it are what is left
ImageEnds(k) == fmt.img = k /\ fmt.imgEof

\* Mutation: the end of the image is not passed on
PassImageOnly(stream, k) == [stream EXCEPT !.chan.n = @ + k]

\* ndmda_quantum_image() passes on k units, and then the end of the image
PassImage(stream, k) ==
    [stream EXCEPT !.chan.n = @ + k, !.chan.eof = @ \/ ImageEnds(k)]

\* Mutation: the backup is over when the image has been passed on
Passed(stream, k) == ImageEnds(k)

\* The backup is over when whoever drains the image stream has taken it all
Drained(stream, k) == ImageEnds(k) /\ stream.chan.n = 0

DataBackups ==
    /\ pc = "da" /\ data.state = "ACTIVE" /\ data.op = "BACKUP"
    /\ LET k   == Least(fmt.img, Room(is))
           is1 == PassImage(is, k)
       IN  IF Drained(is1, k)
           THEN /\ DataBecomes(DataHalted(data, "SUCCESSFUL"))
                /\ is' = Close(is1, "data")
                /\ fmt' = FormatterCleaned
           ELSE /\ DataBecomes(data)
                /\ is' = is1
                /\ fmt' = [fmt EXCEPT !.img = @ - k, !.chat = FALSE]
    /\ RoundEnds(fmt.chat)
    /\ UNCHANGED <<mover, tape, acct>>

\* ndmta_local_mover_read(): what the mover must be for the DATA agent's
\* short cut to MOVER_READ
Readable ==
    /\ mover.state \in {"ACTIVE", "LISTEN"}
    /\ mover.left = 0
    /\ mover.addr = "LOCAL"
    /\ mover.mode = "WRITE"

\* A DATA_READ line the local mover refuses, or a second one behind it
ReadRefused == data.addr = "LOCAL" /\ fmt.ask > 0 /\ (~Readable \/ fmt.more)

\* ndmda_quantum_wrap() takes the lines and halts when the formatter has ended;
\* ndmda_quantum_image() runs after it even so, into a channel that is closed
DataHaltsRecover(reason, m) ==
    LET is1 == Close(is, "data")
        k   == Least(is1.chan.n, ImageSize)
    IN  /\ DataBecomes(DataHalted(data, reason))
        /\ is' = [is1 EXCEPT !.chan.n = @ - k]
        /\ fmt' = [FormatterCleaned EXCEPT !.img = k]
        /\ mover' = m

DataRecovers ==
    /\ pc = "da" /\ data.state = "ACTIVE" /\ data.op = "RECOVER"
    /\ ~ReadRefused
    /\ LET k  == Least(is.chan.n, ImageSize - fmt.img)
           m1 == IF data.addr = "LOCAL" /\ fmt.ask > 0
                 THEN [mover EXCEPT !.left = fmt.ask] ELSE mover
       IN  IF fmt.wrapEof
           THEN DataHaltsRecover("SUCCESSFUL", m1)
           ELSE /\ DataBecomes(data)
                /\ is' = [is EXCEPT !.chan.n = @ - k]
                /\ fmt' = [fmt EXCEPT !.img = @ + k,
                              !.imgEof = @ \/ (is.chan.n = k /\ is.chan.eof),
                              !.ask = 0, !.more = FALSE, !.chat = FALSE]
                /\ mover' = m1
    /\ acct' = [acct EXCEPT !.asked = @ + fmt.ask]
    /\ RoundEnds(fmt.chat \/ fmt.ask > 0)
    /\ UNCHANGED tape

\* The refused read halts the agent, which empties formatter_wrap under the
\* loop that reads it; the loop then steps past the end of the buffer.  Where
\* pointers are wider than the count it runs off and the process dies; where
\* they are not it meets the end again and halts the agent a second time.
DataOverruns ==
    /\ pc = "da" /\ data.state = "ACTIVE" /\ data.op = "RECOVER"
    /\ ReadRefused
    /\ \/ /\ pc' = "crashed" /\ did' = FALSE
          /\ UNCHANGED <<is, mover, data, fmt, told, goal>>
       \/ /\ DataHaltsRecover("SUCCESSFUL",
                IF Readable THEN [mover EXCEPT !.left = fmt.ask] ELSE mover)
          /\ RoundEnds(TRUE)
    /\ acct' = [acct EXCEPT !.asked = @ + IF Readable THEN fmt.ask ELSE 0]
    /\ UNCHANGED tape

-----------------------------------------------------------------------------
(* The poll, ndmchan_quantum(): every channel may make progress once.       *)

Polled == pc = "poll" /\ UNCHANGED <<tape, mover, data, told, pc, goal, did>>

PollConnects ==
    /\ Polled
    /\ is.remote = "LISTEN" /\ ~is.ready
    /\ is' = [is EXCEPT !.ready = TRUE]
    /\ UNCHANGED <<fmt, acct>>

\* The image stream comes from a TCP peer
PollReceives ==
    /\ Polled
    /\ is.chan.mode = "READ" /\ ~is.chan.eof /\ ~is.chan.error
    /\ Room(is) > 0
    /\ \/ \E k \in 1 .. Room(is) :
             /\ acct.made + k <= JobLimit
             /\ is' = [is EXCEPT !.chan.n = @ + k]
             /\ acct' = [acct EXCEPT !.made = @ + k]
       \/ is' = [is EXCEPT !.chan.eof = TRUE] /\ UNCHANGED acct
       \/ /\ "io" \in Faults
          /\ is' = [is EXCEPT !.chan.eof = TRUE, !.chan.error = TRUE,
                              !.chan.errno = TRUE]
          /\ UNCHANGED acct
    /\ UNCHANGED fmt

\* Mutation: a short write is taken for a whole one
PollSendsAll ==
    /\ Polled
    /\ is.chan.mode = "WRITE" /\ is.chan.n > 0 /\ ~is.chan.error
    /\ \E k \in 1 .. is.chan.n :
           /\ is' = [is EXCEPT !.chan.n = 0]
           /\ acct' = [acct EXCEPT !.out = @ + k]
    /\ UNCHANGED fmt

\* The image stream goes to a TCP peer; write() returning 0 sets no errno
PollSends ==
    /\ Polled
    /\ is.chan.mode = "WRITE" /\ is.chan.n > 0 /\ ~is.chan.error
    /\ \/ \E k \in 1 .. is.chan.n :
             /\ is' = [is EXCEPT !.chan.n = @ - k]
             /\ acct' = [acct EXCEPT !.out = @ + k]
       \/ /\ "io" \in Faults
          /\ \E errno \in BOOLEAN :
                is' = [is EXCEPT !.chan.eof = TRUE, !.chan.error = TRUE,
                                 !.chan.errno = errno]
          /\ UNCHANGED acct
    /\ UNCHANGED fmt

\* Backup: the formatter's image arrives, or the formatter closes its end
PollFormatterImage ==
    /\ Polled
    /\ data.state = "ACTIVE" /\ data.op = "BACKUP" /\ ~fmt.imgEof
    /\ fmt.img < ImageSize
    /\ \/ \E k \in 1 .. ImageSize - fmt.img :
             /\ acct.made + k <= JobLimit
             /\ fmt' = [fmt EXCEPT !.img = @ + k]
             /\ acct' = [acct EXCEPT !.made = @ + k]
       \/ fmt' = [fmt EXCEPT !.imgEof = TRUE] /\ UNCHANGED acct
    /\ UNCHANGED is

\* Recover: the formatter takes the image, or is gone.  The end of the image
\* does not close the pipe: the formatter never sees it.
PollFormatterFed ==
    /\ Polled
    /\ data.state = "ACTIVE" /\ data.op = "RECOVER"
    /\ fmt.img > 0 /\ ~fmt.imgErr
    /\ \/ \E k \in 1 .. fmt.img :
             /\ fmt' = [fmt EXCEPT !.img = @ - k]
             /\ acct' = [acct EXCEPT !.out = @ + k]
       \/ /\ "io" \in Faults
          /\ fmt' = [fmt EXCEPT !.imgEof = TRUE, !.imgErr = TRUE]
          /\ UNCHANGED acct
    /\ UNCHANGED is

\* Lines on the formatter's stderr and wrap channels, and the end of the latter
PollFormatterLines ==
    /\ Polled
    /\ data.state = "ACTIVE" /\ ~fmt.wrapEof
    /\ \/ ~fmt.chat /\ fmt' = [fmt EXCEPT !.chat = TRUE]
       \/ data.op = "RECOVER" /\ fmt' = [fmt EXCEPT !.wrapEof = TRUE]
       \/ /\ data.op = "RECOVER" /\ fmt.ask = 0
          /\ \E ask \in 1 .. ReadMax, more \in BOOLEAN :
                /\ acct.asked + ask <= JobLimit
                /\ more => "lines" \in Faults
                /\ fmt' = [fmt EXCEPT !.ask = ask, !.more = more]
    /\ UNCHANGED <<is, acct>>

PollEnds ==
    /\ pc = "poll"
    /\ pc' = "is" /\ goal' = "dispatch"
    /\ UNCHANGED <<is, mover, tape, data, fmt, told, acct, did>>

-----------------------------------------------------------------------------
(* Dispatch: the CONTROL agent's requests, ndma_comm_dispatch.c.  A control  *)
(* agent in the same process dispatches one after the other, so any number  *)
(* of requests may be served between two rounds of quanta.                  *)

Dispatched == pc = "dispatch" /\ UNCHANGED <<pc, goal, did>>

TapeOpen ==
    /\ Dispatched
    /\ tape = "CLOSED"
    /\ tape' \in {"RO", "RW"}
    /\ UNCHANGED <<is, mover, data, fmt, told, acct>>

\* tape_op_ok() only refuses what NDMP9_TAPE_STATE_MOVER stands for
TapeClose ==
    /\ Dispatched
    /\ tape # "CLOSED" /\ mover.state # "ACTIVE"
    /\ tape' = "CLOSED"
    /\ UNCHANGED <<is, mover, data, fmt, told, acct>>

\* mover_can_proceed(): the tape drive is ready
CanProceed(mode) ==
    /\ tape # "CLOSED" /\ mover.state # "ACTIVE"
    /\ mode = "READ" => tape = "RW"

\* A listen() that fails has already overwritten the connection address
MoverListen(addr, mode) ==
    /\ Dispatched
    /\ mover.state = "IDLE" /\ data.state = "IDLE"
    /\ CanProceed(mode) /\ CanListen(is, "tape")
    /\ \/ /\ is' = Listen(is, "tape", addr)
          /\ mover' = MoverListening(mover, mode, addr)
          /\ told' = [told EXCEPT !.mover = "none"]
          /\ acct' = NewAccount
       \/ /\ addr = "TCP" /\ "listen" \in Faults
          /\ mover' = [mover EXCEPT !.addr = addr]
          /\ UNCHANGED <<is, told, acct>>
    /\ UNCHANGED <<tape, data, fmt>>

\* LOCAL would need a DATA agent in LISTEN, which is never entered.  A connect()
\* that fails changes nothing, here and in DataConnect.
MoverConnect(mode) ==
    /\ Dispatched
    /\ "TCP" \in Addrs
    /\ mover.state = "IDLE" /\ data.state = "IDLE"
    /\ CanProceed(mode) /\ CanConnect(is, "tape", "TCP")
    /\ is' = Start(Connect(is, "tape", "TCP"), "tape", mode)
    /\ mover' = MoverActive([mover EXCEPT !.mode = mode, !.addr = "TCP"])
    /\ told' = [told EXCEPT !.mover = "none"]
    /\ acct' = NewAccount
    /\ UNCHANGED <<tape, data, fmt>>

MoverContinue ==
    /\ Dispatched
    /\ mover.state = "PAUSED" /\ CanProceed(mover.mode)
    /\ mover' = MoverActive(mover)
    /\ told' = [told EXCEPT !.mover = "none"]
    /\ UNCHANGED <<is, tape, data, fmt, acct>>

\* Mutation: the mover halts and keeps its end of the stream
MoverHaltsEngaged(reason) ==
    /\ mover' = MoverHalted(mover, reason)
    /\ UNCHANGED <<is, tape, data, fmt, told, acct>>

\* ndmta_mover_halt()
MoverHalts(reason) ==
    /\ mover' = MoverHalted(mover, reason)
    /\ is' = Close(is, "tape")
    /\ UNCHANGED <<tape, data, fmt, told, acct>>

MoverAbort ==
    /\ Dispatched
    /\ mover.state \in {"LISTEN", "ACTIVE", "PAUSED"}
    /\ MoverHalts("ABORTED")

\* In HALTED the request succeeds and does nothing
MoverClose ==
    /\ Dispatched
    /\ mover.state \in {"LISTEN", "ACTIVE", "PAUSED"}
    /\ MoverHalts("CONNECT_CLOSED")

MoverStop ==
    /\ Dispatched
    /\ mover.state = "HALTED"
    /\ mover' = MoverStopped(mover)
    /\ UNCHANGED <<is, tape, data, fmt, told, acct>>

MoverRead(length) ==
    /\ Dispatched
    /\ mover.state = "ACTIVE" /\ mover.left = 0
    /\ mover.addr = "TCP" /\ mover.mode = "WRITE"
    /\ acct.asked + length <= JobLimit
    /\ mover' = [mover EXCEPT !.left = length]
    /\ acct' = [acct EXCEPT !.asked = @ + length]
    /\ UNCHANGED <<is, tape, data, fmt, told>>

\* data_can_connect()
DataCanConnect(addr) ==
    /\ data.state = "IDLE"
    /\ IF addr = "LOCAL" THEN mover.state = "LISTEN" /\ mover.addr = "LOCAL"
                         ELSE mover.state = "IDLE"
    /\ CanConnect(is, "data", addr)

\* ndmis_data_connect(): a LOCAL connection gives the mover a quantum at once,
\* in which it finds its end ACCEPTED and starts
StreamConnected(addr) ==
    IF addr = "LOCAL" THEN Start(Connect(is, "data", addr), "tape", mover.mode)
                      ELSE Connect(is, "data", addr)

MoverMet(addr) ==
    IF addr = "LOCAL"
    THEN mover' = NoticeSent(MoverActive(mover)) /\ UNCHANGED acct
    ELSE UNCHANGED mover /\ acct' = NewAccount

DataConnected(addr) ==
    [data EXCEPT !.state = "CONNECTED", !.addr = addr, !.halt = "NA"]

DataConnect(addr) ==
    /\ Dispatched
    /\ DataCanConnect(addr)
    /\ is' = StreamConnected(addr)
    /\ MoverMet(addr)
    /\ data' = DataConnected(addr)
    /\ UNCHANGED <<tape, fmt, told>>

\* The mover mode an operation of the DATA agent needs, and its own transfer
MoverModeFor(op) == IF op = "BACKUP" THEN "READ" ELSE "WRITE"

DataModeFor(op) == IF op = "BACKUP" THEN "WRITE" ELSE "READ"

DataActive(d, op) == [d EXCEPT !.state = "ACTIVE", !.op = op]

\* ndmda_belay() when memory or a process cannot be had
StartFails(stream, d) ==
    /\ Faults \cap {"copy", "fork"} # {}
    /\ is' = Close(stream, "data")
    /\ data' = DataIdled(d)
    /\ UNCHANGED <<fmt, told>>

\* DATA_START_* with the address AS_CONNECTED, versions 3 and 4
DataStart(op) ==
    /\ Dispatched
    /\ data.state = "CONNECTED"
    /\ IF data.addr = "LOCAL"
       THEN /\ mover.state = "ACTIVE" /\ mover.addr = "LOCAL"
            /\ mover.mode = MoverModeFor(op)
       ELSE mover.state = "IDLE"
    /\ \/ /\ is' = Start(is, "data", DataModeFor(op))
          /\ data' = DataActive(data, op)
          /\ fmt' = NoFormatter
          /\ told' = [told EXCEPT !.data = "none"]
       \/ StartFails(is, data)
    /\ UNCHANGED <<mover, tape, acct>>

\* DATA_START_* that connects too, version 2; what fails before the connection
\* is made leaves everything as it was
DataConnectStart(op, addr) ==
    /\ Dispatched
    /\ DataCanConnect(addr)
    /\ addr = "LOCAL" => mover.mode = MoverModeFor(op)
    /\ \/ /\ is' = Start(StreamConnected(addr), "data", DataModeFor(op))
          /\ data' = DataActive(DataConnected(addr), op)
          /\ fmt' = NoFormatter
          /\ told' = [told EXCEPT !.data = "none"]
       \/ "fork" \in Faults /\ StartFails(StreamConnected(addr),
                                          DataConnected(addr))
    /\ MoverMet(addr)
    /\ UNCHANGED tape

DataAbort ==
    /\ Dispatched
    /\ data.state = "ACTIVE"
    /\ data' = DataHalted(data, "ABORTED")
    /\ is' = Close(is, "data")
    /\ fmt' = FormatterCleaned
    /\ UNCHANGED <<mover, tape, told, acct>>

DataStop ==
    /\ Dispatched
    /\ data.state = "HALTED"
    /\ data' = DataIdled(data)
    /\ is' = Close(is, "data")
    /\ UNCHANGED <<mover, tape, fmt, told, acct>>

DispatchEnds ==
    /\ pc = "dispatch"
    /\ pc' = "is" /\ goal' = "poll"
    /\ UNCHANGED <<is, mover, tape, data, fmt, told, acct, did>>

\* ndma_session_decommission(): the TAPE agent does not close the tape
SessionEnds ==
    /\ pc = "dispatch"
    /\ is' = Close(Close(is, "data"), "tape")
    /\ data' = DataIdled(data)
    /\ mover' = [InitMover EXCEPT !.notify = mover.notify, !.pend = mover.pend]
    /\ pc' = "ended"
    /\ UNCHANGED <<tape, fmt, told, acct, goal, did>>

Ended == pc \in {"ended", "crashed"} /\ UNCHANGED vars

-----------------------------------------------------------------------------
MoverOf == MoverIdles \/ MoverRests \/ MoverAwaits \/ MoverReads \/ MoverWrites

DataOf == \/ DataIdles \/ DataRests \/ DataBackups \/ DataRecovers
          \/ DataOverruns

\* What the session does of itself, whatever anybody asks
Quantum == StreamAccepts \/ StreamIdles \/ MoverOf \/ DataOf

Poll == \/ PollConnects \/ PollReceives \/ PollSends \/ PollFormatterImage
        \/ PollFormatterFed \/ PollFormatterLines \/ PollEnds

MoverRequest ==
    \/ \E mode \in MoverMode : \/ \E addr \in Addrs : MoverListen(addr, mode)
                               \/ MoverConnect(mode)
    \/ MoverContinue \/ MoverAbort \/ MoverClose \/ MoverStop
    \/ \E length \in 1 .. ReadMax : MoverRead(length)

DataRequest ==
    \/ \E addr \in Addrs :
          \/ DataConnect(addr)
          \/ \E op \in Ops : DataConnectStart(op, addr)
    \/ \E op \in Ops : DataStart(op)
    \/ DataAbort \/ DataStop

Request == TapeOpen \/ TapeClose \/ MoverRequest \/ DataRequest

Next == Quantum \/ Poll \/ Request \/ DispatchEnds \/ SessionEnds \/ Ended

Spec == Init /\ [][Next]_vars

\* The loop keeps turning: quanta run, poll() returns, at the latest when its
\* time is up, and the dispatch of what was ready comes to an end.  Nothing is
\* assumed of the formatter, the network or the CONTROL agent.
Fairness == WF_vars(Quantum) /\ WF_vars(PollEnds) /\ WF_vars(DispatchEnds)

FairSpec == Spec /\ Fairness

=============================================================================
