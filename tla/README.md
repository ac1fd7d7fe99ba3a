# ndmjob in TLA+

A verification of the NDMP engine in this repository: the part of ndmjob that
runs a backup or a recover by moving an image between a tape and a formatter
(tar) under the orders of a CONTROL agent, the CONTROL agent that gives them, the
connection and the protocol translation between the two, and the tape library they
work on.  TLC checks the models on small
instances; TLAPS proves the theorems for every value of the constants.  The
paths below are relative to the repository's `src/`.

## 1. Inventory

A *session* (`ndmagents.h:55-95`) holds up to four agents and what connects
them.  It is one thread: everything happens in the quanta of
`ndma_session_quantum()` or in a request handler called from it, and what
interleaves is the order in which sockets become ready, requests arrive, and the
tape, the network and the forked formatter answer.

| component | state | operations | interacts with | hard part | what makes it correct |
|---|---|---|---|---|---|
| Image stream (`ndma_image_stream.c`) | two end points (status, address, mode), the remote side, one channel | listen, connect, start, accept quantum, close, audits | called by the mover, the DATA agent and their handlers | either end may go away at any time | end points and remote side are only in the combinations of the table at the top of the file |
| Mover (`ndma_tape.c`) | state, mode, reasons, window, bytes left to read, change pending after the drain | listen, connect, continue, abort, close, stop, read; read and write quanta; notice | stream, tape, CONTROL | stops with data in flight; padding; pending changes | no image is lost or duplicated; it pauses or halts after the drain; its notices arrive |
| DATA agent (`ndma_data.c`, `ndma_data_pfe.c`) | state, operation, reason, three pipes of the formatter | start backup/recover, connect, abort, stop, halt; image, stderr and wrap quanta | stream, formatter, CONTROL, local mover | the end of the image and the halt race with what is in two buffers | SUCCESSFUL only when all has gone on |
| Session loop (`ndma_comm_session.c`) | `did_something` | distribute quanta until nothing is done, poll, dispatch | all agents | who runs before whom | every agent with work gets its quantum |
| Dispatch (`ndma_comm_dispatch.c`) | connection and authentication flags | one handler per message, with the audits | all agents | guards and checks of other components' state, stale when used | a granted request leaves a state every component agrees with |
| Channels (`ndml_chan.c`) | buffer, mode, eof, error, errno | poll, read, write, compress, cleanup | stream, pipes, connections | short reads and writes, full buffers | bytes in order, none lost, never past the buffer |
| Notices (`ndma_noti_calls.c`) | - | NOTIFY messages | agents to CONTROL | sent once, dropped by a stop | a state that is waited for is told |
| File-history heap (`ndml_fhh.c`, `ndma_data_fh.c`) | entries from one end, items from the other | prepare, add, flush, reset | DATA to CONTROL | the two ends meet; a change of type | no overlap, every entry sent once and in order |
| Connection (`ndml_conn.c`, `ndml_nmb.c`) | sequence number, last call's outcome | call, exchange, unexpected | all agents | notices and requests while a reply is awaited | the reply a caller gets is that of its request |
| Backup and recover monitor (`ndma_cops_backreco.c`) | counts, copies of the agents' states, pending notices of one bit | startup, monitor, load next, seek, shutdown | CONTROL to the others | decides by counts and by copies that are out of date | comes to an end, and OKAY means both agents said so |
| Media (`ndma_ctrl_media.c`, `ndml_media.c`) | per tape: slot, offsets, length; what is loaded | load, unload, windows, offsets | monitor, tape, robot | several tapes; what is where in the image | a recover reads from each tape what the backup wrote there |
| Tape simulator (`ndma_tape_simulator.c`) | file, position, gap records, lock file | open, close, mtio, read, write | mover, TAPE requests | spacing over marks in both directions; full tape | behaves as a tape |
| Robot (`ndma_robot*.c`, `ndma_ctrl_robot.c`, `ndma_cops_robot.c`, `smc_*.c`) | element status | move, load, unload, initialise | media | retries, half-done moves | a cartridge is in one place |
| Calls, label, query and test operations (`ndma_ctrl_calls.c`, `ndma_cops_*.c`, `ndma_ctst_*.c`) | - | sequences of calls | dispatch | - | - |
| Formatter wrapper (`wraplib.c`, `wrap_*.c`) | a process of its own | reads and writes the pipes; in a recover asks for parts of the image | DATA agent | its buffer against what it asked for | it reads what it asked for |
| Databases (`ndml_fhdb.c`, `ndml_bstf.c`, `ndml_stzf.c`) | - | searches in sorted files | - | - | - |
| Messages and translation (`ndmp_translate.c`, `ndmp[234]_translate.c`, the XDR files) | tables | every message to and from NDMP9 | every call and notice | values one dialect has no word for; a translation that fails after the handler has acted | what arrives is what was meant; the outcome told is what happened |
| Message printing (`ndmp*_pp.c`, `ndml_log.c`) | - | - | - | - | - |
| Command line, configuration, platform (`ndmjob_*.c`, `ndml_config.c`, `ndmos*.c`, `md5c.c`) | - | parsing, glue | - | - | - |

`PROJECT.json` lists every component with its status, and under "hazards" what is
hard to test, each at its line.

## 2. Plan

Most important first.

| step | modules | state |
|---|---|---|
| 1 | **ImageStream**, **Session**, **BackupPipe**: the three state machines that move the image, everything the CONTROL agent can ask of them, and what a local backup implements | built; safety and the refinement proved |
| 2 | **MediaWindows**: the media code and the remedies of the monitor over several tapes, with the mover's records and windows | built, proved |
| 3 | **TapeSimulator**, **TapeMedium**: gap records and positions; abstract specification: a sequence of records and file marks | built; safety and the refinement proved |
| 4 | **FileHistory**: the two-ended heap, its flushes and the pipes that feed it | built, proved |
| 5 | **ControlMonitor**: counts, one-bit notices, startup and shutdown, over an abstract pair of agents; that it ends, and what OKAY means | built, proved |
| 6 | **NdmConn**: the handshake, and the exchange with sequence numbers and notices in between | built, proved |
| 7 | **Translation**, **TranslationV2**, **V3**, **V4**, **Translate**: every message of the three protocol versions, and one call across a connection | built |
| 8 | **Library**: robot, drive, labels and the jobs that load and put away tapes | built, proved |

How they meet: NdmConn gives ControlMonitor its calls (a call is one step there, with the
notices that come before its reply); ControlMonitor decides what Session is asked and when, and
has of the agents only states and notices; MediaWindows has what its remedies do to the tapes,
and Library how a tape gets into the drive; TapeSimulator is what a TAPE request meets.  A
model of all at once is out of TLC's reach.  Where one module stands for another its steps are
the other's, taken together.

What a next step would be: the formatter's reader of a recover (`wraplib.c`, `wrap_reco_*`),
and the index search (`ndml_bstf.c`).

## 3. The modules

### ImageStream
`is` is `struct ndm_image_stream`: `ep` maps the two sides to their end points, the
remote side is reduced to its status and the readiness of the listening socket,
and the channel to its mode, the number of units in it and its flags.  Each C
function is an operator from the stream before to the stream after, so that
handlers chain them in the order the C code does: `Listen`, `Connect`, `Start`, `Accept`,
`Close`, with the audits `CanListen` and `CanConnect`.  `LocalLink`, `RemoteLink`
and `BotchedLink` are the combinations of statuses that can occur.

### Session
One variable per structure: `is`, `mover` (the mover state with its pending change),
`tape` (open and how), `data`, `fmt` (the formatter's pipes).  `told` records the last
NOTIFY an agent sent about its present state and `acct` the units that entered and
left during the present job; both are history.  `pc`, `goal` and `did` are the
control of the loop: `is` -> `ta` -> `da` and round again while anything was done, then
`poll`, a round, `dispatch`, a round.

| actions | code |
|---|---|
| `StreamAccepts`, `StreamIdles` | `ndmis_quantum` |
| `MoverIdles`, `MoverRests`, `MoverAwaits`, `MoverReads`, `MoverWrites` | `ndmta_quantum` with its read and write quanta |
| `DataIdles`, `DataRests`, `DataBackups`, `DataRecovers`, `DataOverruns` | `ndmda_quantum` with its channel quanta |
| `PollConnects` ... `PollEnds` | `ndmchan_quantum` |
| `TapeOpen`, `TapeClose`, `Mover*`, `Data*` requests, `DispatchEnds` | the handlers of `ndma_comm_dispatch.c` |
| `SessionEnds` | `ndma_session_decommission` |

A quantum and a handler are one step each, because the session is one thread
and neither waits for anything.  A request that an audit refuses is no step.

### BackupPipe
The abstract specification of a backup: units are made, kept, and the job
is called complete only when everything made is kept.

### MediaWindows
`cart` is what is on each tape: the numbers of the image's records.  `drive` is the loaded
tape and its block number, `mover` the mover's state with its window, position, record
number and one-record buffer, `ca` the CONTROL agent's media table, current tape and last
window offset.  A backup runs over the tapes; then a recover, a process of its own, is
given the same tapes with the lengths they have, those the backup indexed, or none.

| actions | code |
|---|---|
| `StartBackup`, `StartRecover` | `ndmca_backreco_startup` with the first load and window |
| `MoverStarts`, `BackupQuantum`, `BackupEnds` | LISTEN to ACTIVE; `ndmta_read_quantum` |
| `ReadOutside`, `ReadMeetsMark`, `ServeFromBuffer`, `ServeFromTape` | one turn of the loop in `ndmta_write_quantum` |
| `MediaFails` | the tape errors of both quanta |
| `MoverRead`, `RecoverEnds` | NOTIFY_DATA_READ passed on as MOVER_READ; DATA has halted |
| `LoadNext`, `SeekTape`, `CloseLast`, `CancelBackup` | what `ndmca_monitor_backup` and `_recover` do about a pause |
| `Shutdown` | `ndmca_monitor_shutdown` with `ndmca_monitor_unload_last_tape` |

A remedy is one step: the CONTROL agent waits for each of its calls, and the mover, which is
paused, does nothing meanwhile.

### TapeMedium and TapeSimulator
`TapeMedium` is what a drive promises: a sequence of records and marks, a head, and the
replies.  `TapeSimulator` is the file: gaps with their type, size and the size before them,
the offset, the numbers and the two flags, the lock and the saved offset.  A C function is an
operator from file and offset to file and offset (`Forward`, `Backward`, `WriteMark`,
`Written`), a request an action.  The mapping drops the first and the last gap and the links.

The medium names the error of each failure, and when it may happen (`Refuses`, `ReadsNothing`, `Warns`, `Blank`,
`WriteFails`, `MarksFail`), and of marks that do not all fit the count that is left.  It is the drive as the
simulator answers; in two things the repository's conformance tests expect another one (below).

### FileHistory
`formatter` is the formatter at the other end of two pipes, `wrap` the wrap pipe and the
channel's buffer with its start index, `image` the counts of the image in pipe, channel and
stream, `heap` the heap's type, table and two ends in bytes, `index` what was posted to the
CONTROL agent.  `data.pc` is the order of a round: `Poll`, then the wrap quantum line by
line (`TakesLine`, `TakesCutLine`, `WrapDone`), then the image quantum (`MovesImage`,
`ImageDone`).  `written` and `given` are history: the lines written, the entries given to
the heap.

### NdmConn
`client` is the CONTROL agent's `ndmconn`: where it is in the handshake, the version it
encodes and decodes in, its next sequence number and its outstanding call.  `server` is
the session at the other end: `conn_open`, `conn_authorized`, the challenge, its version
and sequence number.  `c2s` and `s2c` are what is under way.  A message is its header
with the version its body was encoded in.

| actions | code |
|---|---|
| `Greeted`, `Assumes` | `ndmconn_connect_sockaddr_in` with its CONNECT_OPEN, or without one |
| `Authenticates`, `ShowsDigest` | `ndmconn_auth_agent` and the calls under it |
| `Calls`, `TakesReply`, `TakesUnexpected` | `ndmconn_exchange_nmb`, `ndma_dispatch_ctrl_unexpected` |
| `TakesIdle` | the quantum of the control connection between calls |
| `Serves` | `ndma_dispatch_conn`, `ndma_dispatch_request` with the connect handlers |
| `Notifies` | `ndma_send_to_control` |
| `SeesEnd`, `Breaks`, `HangsUp`, `ServerEnds` | the ends of a connection |

### ControlMonitor
`ca` is the CONTROL agent: which of its four loops it is in (startup, monitor, shutdown, and
the loop that waits for IDLE at the end), the stage of its turn, the count, its copies `ds` and `ms` of the
agents' states, the one-bit `pend` flags.  `data` and `mover` are the agents reduced to state,
reason and pending notice; `wire` has the notices on the way.  `past` is history: how each agent
really halted, waits that expired, whether a flag wrapped or a request came too late.

| actions | code |
|---|---|
| `GetsData`, `GetsMover` | `ndmca_monitor_get_states`, one call after the other |
| `WaitTurns`, `WaitExpires` | `ndmca_mon_wait_for_something` |
| `StartupDecides` | `ndmca_monitor_startup` |
| `PassesRead` ... `AwaitsData` | one branch each of `ndmca_monitor_backup` and `_recover` |
| `ShutdownDecides` ... `StoppingDecides` | `ndmca_monitor_shutdown` |
| `DataNotifies` ... `DataSeesEnd` | what the agents of Session do as seen from here |

### Translation, TranslationV2, V3, V4 and Translate
`Translation` has the bodies of NDMP9 field by field (a field's values are those that some
table tells apart), the conversions of one field (`FieldOut`, `FieldIn`), and the translation of
a body.  Each `TranslationVn` is `ndmpn_translate.c`: its tables, and per message the codec of
each field in each direction, with what the code leaves out left out.  `Translate` is one
message at a time across a connection of a version:

| actions | code |
|---|---|
| `Asks`, `AsksNatively` | `ndma_call_no_tattle` and `ndmconn_call`, from this program or another |
| `Arrive` | the first half of `ndma_dispatch_request`: version table, translation, lookup |
| `Handle`, `HandleNotice`, `Decline`, `Foreign` | the dispatch function, or another program's agent; the reply translated |
| `Return` | the header's error, the reply's, and the translation's, in this order |

### Library
`files` and `inv` are what the robot simulator has on disk: a file per element, and the
state file.  `position` is the tape whose saved position the drive has, `tape` the TAPE agent's
drive with its lock file, `label` what each tape bears.  `job` is the CONTROL agent: the
operation, the part it is in, and the list of calls it still makes.  `Fails` is where each of
them goes when a call fails.

| actions | code |
|---|---|
| `Begins`, `BeginsMoving` | the operations of `ndma_cops_*.c` that touch tapes |
| `Looks` | `ndmca_robot_startup`, `_obtain_info`, and the element status the simulator saves with it |
| `Moves`, `MoveRefused`, `MoveFails`, `MoveTorn` | `ndmca_robot_move`, `robot_simulator_move` |
| `Opens`, `OpenRefused`, `OpenFails`, `Closes` | `ndmca_tape_open`, `_close` and the simulator's |
| `Deck`, `DeckFails`, `WritesLabel` | tape motions, `ndmca_media_check_label`, `_write_label` |
| `Works` | the backup or the recover, as far as its tapes are concerned |
| `Ends`, `Dies` | the end of the sessions |

### SessionProperties, MC*, *Proofs
`SessionProperties` has the properties of Session; `MCSession`, `MCMedia`, `MCTape`,
`MCHistory`, `MCConn`, `MCMonitor` and `MCLibrary` the instances for TLC.  Of Session,
`SessionProofs` has the lemmas about the stream's operators and the theorems about states and
notices, and `ImageProofs` those about the units of the image and the refinement;
`MediaWindowsProofs`, `TapeSimulatorProofs`, `FileHistoryProofs`, `NdmConnProofs`,
`ControlMonitorProofs` and `LibraryProofs` have those of their modules.

## 4. The runs

| run | question | result |
|---|---|---|
| SessionLocal | both agents in one session, backup and recover, requests at any time: `EndPointPairing`, `AgentsMatchStream`, `ImageConserved`, `NoticeNotLost` | hold, 0.8 million states |
| SessionTcp | one agent and a TCP peer that may fail: `ImageConserved`, `BackupComplete`, `ClosedMeansWritten` | hold, 2.3 million states |
| SessionBackup | a local backup under fairness: `ImplementsPipe`, `MoverSeesTheEnd`, `BackupEnds` | hold |
| Media | a backup over three tapes and a recover: `LaidOut`, `ServedAsAsked`, `WindowIsTheTapes`, `ReadsEnd` | hold, 37 thousand states |
| Tape | every sequence of requests on a small tape: `GapChain`, `NumbersStayExact`, `WarnedBeforeTheEnd`, `BehavesAsTape` | hold, 53 thousand states |
| History | lines, image, death of the formatter, aborts: `HeapNeverOverlaps`, `TableOfOneType`, `InOrder`, `NothingSkipped`, `BackupEnds` | hold, 61 thousand states |
| Exchange | one connection from greeting to end, all pairs of versions, all kinds of authentication: `ReplyIsOurs`, `NoReplyAstray`, `VersionsAgree`, `CallsEnd` | hold, 157 thousand states |
| Monitor | backup and recover watched through copies and one-bit flags: `OkayMeansDone`, `NoticesCounted`, `RequestsFit`, `GivenUpOnlyWhenSlow`, `JobEnds` | hold, 1.1 million states |
| Translate | every message of versions 2, 3 and 4, ours and another program's: `RequestArrives`, `ReplyArrives`, `TruthfulOutcome`, `NobodyWaitsInVain` | hold, 64 thousand states |
| Library | any two jobs one after the other, two faults anywhere: `LostOnlyWhenCut`, `RightTape`, `Released`, `PositionIsTheTapes` | hold, 5.1 million states |
| HistoryLost | `HistoryComplete`: the messages of a successful backup have reached the CONTROL agent | violated: the end of the image closes the wrap channel |
| Renamed | `NamesArrive`: by NDMP3 a file is recovered under another name from the path it was backed up by | violated: both paths get the new name |

The two violated properties are findings about the code, not about the model: each states what a
comment of the source says, and `PROJECT.json` quotes it and tells the sequence of calls.  Every
property of a passing run has a mutant: a plausible bug in one definition under which TLC
finds the property violated.

### Also found while modelling
No run is spent on these.  The models take the code as it is, and where a property would
stumble over one it names the exception.

* The audit comment of the dispatcher on which operations need the stream idle does not hold after an
  `accept()` that failed, nor after a medium error that waited for the drain:
  `ndmta_mover_apply_pending` halts the mover without the `ndmis_tape_close` of `ndmta_mover_halt`
  (`ndma_tape.c:188`; `AgentsMatchStream` excepts it as `HaltedByDrain`).
* After an `accept()` that failed the mover lets go of its end, and the DATA end stays REMOTE and the remote
  side BOTCHED (`ndma_image_stream.c:343`, `:595`): the audits of listen and connect refuse every later job of
  the session.  `EndPointPairing` has these links among the lawful ones (`BotchedLink`), since the code makes them.
* A formatter's read that the local mover refuses halts the DATA agent, which empties the wrap channel under the
  loop that reads it; the loop then steps past the end of the buffer (`ndma_data.c:463`).  `DataOverruns` has the
  two outcomes a build can produce, a crash and a second halt; no property claims the crash away.
* `bytes_left_to_read` survives MOVER_STOP (`ndma_tape.c:256`): the next job moves data before
  anything asks for it, and its first MOVER_READ is refused as in progress.
* The tape may be closed while a mover listens; the connection then makes the mover ACTIVE
  on a closed drive (`ndma_comm_dispatch.c:1180`).
* The end of a backup's window is signalled as SEEK and not as EOW (`ndma_tape.c:421`); the monitor of a backup
  has no remedy for that and cancels it.
* The length a backup indexes for a tape is one record short: `record_num` is the number of the last
  record and is taken for their count (`ndma_ctrl_media.c:578-580`).  A recover that is given these lengths
  expects every later tape too early in the image, by one record for each tape before it, and reads the wrong
  place of it.  `LaidOut` does not depend on lengths and `WindowIsTheTapes` is about true ones, so no
  property says that a recover with the backup's own lengths gets what it asks for: it does so only before the
  last record of the first tape.
* The lock file of the tape simulator stays behind when an open fails after it was made, and when
  a session ends with the tape open; the drive is then busy for good (`OpenFails`, `Ends`).
* A backup or recover whose startup fails after the load ends with the tape loaded and open
  (`Works`), and the label operations do not look whether a tape could be put away (`UnloadFailed`).
* A record longer than `TAPE_SIM_LOGICAL_EOM` may meet the physical end of a simulated tape with no warning
  before (`ndma_tape_simulator.c:578-588`); `WarnedBeforeTheEnd` is about shorter ones.
* A move that is cut off before the inventory is saved, or an inventory that could not be saved, leaves
  an element that holds a tape listed as empty; the next move to it unlinks the tape's file
  (`ndma_robot_simulator.c:695`; `MoveTorn`, `Looks`).  `LostOnlyWhenCut` excuses just these and says that nothing
  else loses a tape.
* The conformance tests, which are written for other servers, expect a different tape.  They want EOM_ERR for an
  NDMP4 READ at the end of data (`ndma_ctst_tape.c:499-505`, `:597`), where the simulator answers EOF_ERR
  (`ndma_tape_simulator.c:778-782`); and they want an NDMP2 or NDMP3 READ, FSR or BSR that meets a mark to end on its
  far side (`ndma_ctst_tape.c:755`, `:845-853`, `:871-878`), where the simulator stays before it in every version, with
  no adjustment in the dispatcher (`ndma_comm_dispatch.c:1329-1370`).  What they want of NDMP4 motions (`:749-753`,
  `:857-858`) is what the simulator does.  `TapeMedium` says what the simulator promises, so `BehavesAsTape` is
  not conformance with those tests.
* A SCSI command that sends data is decoded as one that takes data, in all three versions
  (for example `ndmp4_translate.c:1309`).
* The node of a file's history, and in NDMP3 and NDMP4 its `fh_info`, are sent as bare numbers, without the flag
  that says whether the number is known: an unknown one arrives as a known 0 (`ndmp3_translate.c:3258-3259`,
  `:3489-3490`, `ndmp4_translate.c:3200-3201`, `:3429-3430`, `ndmp2_translate.c:2627-2628`, `:2669`).
  `RequestArrives` states this and the direction above as what arrives (`Instead`); of the fields a version carries
  it leaves out only the name list of NDMP3, which `NamesArrive` is about.
* `ndmp_9to3_name` gives the whole destination as the new name, with an empty directory or a path that
  ends without a slash; NDMP3 and NDMP4 do not send the entry of a log message.

### Bounds
Session:
* `ChanSize = 3`, `RecordSize = 2`: the channel holds a record and a half, so a
  quantum moves no record, one, or one and part of another stays; the image can
  end inside a record and on its boundary, and padding fits or just fits.
* `ImageSize = 2`: the formatter's buffer is smaller than the stream's, so each of them
  can be the one that is full.
* `JobLimit` (4 and 3): units one job makes and asks for.  It is more than
  either buffer holds, and after it producer, stream and tape have all wrapped
  from full to empty.  The history counters are bounded by it; the theorems do
  not depend on it.
* `ReadMax = 2`: a read may be for less than, or as much as, a buffer holds.
* Faults per run are named in `MCSession`; every kind is in one of the passing runs.
  SessionLocal leaves out the network's faults, which need a TCP peer; SessionTcp leaves
  out those that only a LOCAL pair distinguishes.

MediaWindows:
* `Room = <<1, 3, 2>>`, `ImageRecords = 7`, `RecordSize = 2`: a tape of one record, one of
  several, and an image that ends with a tape, before its end, or does not fit the three.
* `ReadMax = 4`: a read inside a record, over the border of two, and over the one-record
  first tape into the second; any offset, so reads go back as well as on.
* A listed length is none or one record: a window shorter than a tape, or as long.

TapeSimulator: `Limit = 9`, `LogicalEOM = 4`, records of 1 and 2 units: a tape of two gaps
and up to seven more units, so that the warning comes before, at and after the place where
each size no longer fits, and two records lie before or behind a mark.  `CountMax = 2`: a
motion that ends in its count and one that does not.

FileHistory: a heap of 104 bytes takes two file entries with short names and none with a
long one; the wrap channel holds a line and a half, its pipe less; `MaxLines = 3` makes a
type change, a full heap and a cut line meet.  The theorems do not depend on any of it.

NdmConn: `CallLimit = 3`, `NoticeLimit = 3`: a notice before, between and after the messages of a
call, and in front of a second and a third reply.  All pairs of versions, a wanted version that the other end does
or does not have, each kind of authentication, with the password or without it.

ControlMonitor: `Tapes = 2`, `Pauses = 2`: in a recover the first pause finds a tape, the second the end of the last
one (`ClosesLast`).  `Reads = 1`; a second read only repeats the first, which is answered before.
A behaviour has at most one fault: what two do together is that the job fails.  `Slow`, the number
of waits that must have expired before a job without a fault is given up, is the ten turns of the loop less those
that pauses, reads and the halts take.

Translate: versions 2, 3 and 4.  A body differs from a zero-filled one in at most one field, since each
field is converted by itself; of numbers zero, an ordinary one and the largest.  Every value of every enumeration
is there, and one nobody knows.

Library: three slots and two tapes, so there is a slot without a tape, and a table of two of the slots;
one tape is write-protected.  Two jobs, because what a job leaves behind (a lock file, a full drive, a false
inventory) bites in the next one; two faults, one to leave the thing behind and one to meet it.
One branch needs a third job: the best effort at a drive whose tape has no known source (`MtioOnly`) is reached
after an export, an import and an unload.  The run does not get there; the theorems hold for any `JobLimit`.

Deadlock is checked in every run but Library, whose operator starts no more jobs after the
last.  A session that ended, or whose process died, a job that
is over and a halted backup stutter (`Ended`, `Done`).

### Fairness
* Session: weak fairness of the quanta, of the return of `poll()` and of the end
  of dispatching.  The loop of `ndma_server_session` calls `ndma_session_quantum` until the
  connection ends; each call distributes quanta until nothing was done, polls with
  a time limit and dispatches what is ready.  Nothing is assumed of the
  environment: the formatter, the network and the CONTROL agent may stop for ever, which
  is why `BackupEnds` starts when the formatter has ended its image and allows
  that the mover is not taking it.
* MediaWindows: weak fairness of the mover's steps, as above, and of the monitor's: its loop
  looks at the states again after at most 30 seconds (`ndmca_mon_wait_for_something`).
  Nothing is assumed of the DATA agent, which may never ask again.
* FileHistory: weak fairness of the DATA agent's round, of the mover taking the stream, and of a
  formatter that goes on with a line it began when the pipe has room, and exits when it has
  none.  It may always die instead.
* NdmConn: weak fairness of taking what has come, of seeing the end of the connection and of serving a
  request: both loops read while there is something to read.  Nothing is assumed of who calls or notifies.
* ControlMonitor: weak fairness of the CONTROL agent's steps and of its time (a wait is for
  at most 30 seconds), and of what the agents do of themselves: their notices go out in the next
  quantum, and Session's quanta serve, ask, accept and end.  Nothing is assumed of pauses and faults.
* TapeSimulator, Translate, Library: none, they have no liveness properties.

## 5. The proofs

Assumptions: those named in `ImageStream`, `Session`, `MediaWindows`, `TapeSimulator`, `FileHistory`,
`NdmConn`, `ControlMonitor` and `Library`, which TLC evaluates in the runs of the modules that extend them.
Sizes are positive, a record fits the stream's buffer, and a line fits the wrap channel, as `wraplib.c` sees
to with names of at most `WRAP_MAX_PATH`; a motion may be asked for once at least (`CountMax`), and the lengths
a media table lists are whole records.  The fault, address and operation sets, the lines and the sizes of entries,
the tapes and their room, the length of a tape and the sizes of its records, and the numbers of tapes, reads and
pauses are arbitrary.  One theorem has a hypothesis of its own, `WarnedInTime`.

Session:
* `SessionInvariant`: `SessionInv` = `TypeOK`, `EndPointPairing` and `AgentsMatchStream` together
  are an inductive invariant.  None is inductive alone: what `Close` does to the peer
  depends on the pair being legal, that the pair stays legal depends on an agent
  being engaged just when its end is, and both need the types.  The lemmas in
  `SessionProofs` say of each operator of the stream what it makes of each end
  and that it preserves `LegalStream`; there is a lemma per group of
  actions, and the step lemma combines them.
* `TypeCorrect`, `Paired`, `AgentsMatch`: the three parts.
* `NoticesKept`: `NoticeNotLost`, from the invariant and lemmas about which actions change an
  agent's state and its flag.

The image, in `ImageProofs`:
* `ImageInvariant`: `ImageInv` is `SessionInv` with `LinkInv` and `AccountInv`.  That nothing is lost in a step is
  clear of each quantum; that nothing is lost *between* jobs is not, because an agent that halts leaves the
  channel as it is and the next one finds it.  `LinkInv` says what carries over: a channel between two agents
  of one session is never polled (`LocalChan`), the agents' addresses are those of their end points
  (`AddrsMatch`), a mover that is engaged moves the image the way the DATA operation does (`ModesMatch`), and
  an agent that is yet to begin finds nothing of an earlier job (`StreamClean`).  `AccountInv` has the sums:
  `Balanced` is the conservation; `EndSeen` says that a mover at work sees the end of the image only behind all of
  it, `Emptied` that after a backup reported SUCCESSFUL nothing is left in the channel, and `PaddedAtTheEnd` that no
  padding is written before that end.  `BackupComplete` needs all four: what the mover does after
  the DATA agent has halted depends on what it will find.
* `ImageIsConserved`, `BackupIsComplete`, `ClosedIsWritten`: `ImageConserved`, `BackupComplete` and the action property
  `ClosedMeansWritten`.

The refinement, in `ImageProofs` too:
* `PipeImplemented`: where both agents are in the session and what they do is a backup (`LocalBackup`), `Spec`
  implies `ImplementsPipe`.  With a TCP peer a unit leaves when the network takes it, and a recover
  moves the other way: BackupPipe promises nothing of either.  `LocalInv` says that the pair stays local.  `MoverReads` is a
  `Keep` or a stutter, the formatter's poll a `Produce`, `MoverListen` begins a new job, the DATA agent's start is
  `Open`, its quantum `Complete` when it halts, an abort `Fail`, and its stop or the end of the session `Forget`; every other
  step is a stutter.

MediaWindows, for any number of tapes of any room:
* `MediaInvariant`: `MediaInv` = `TypeOK`, `Placed`, `Phases`, `Loaded`, `Capturable`, `Truly` and `ServedAsAsked`.
  `LaidOut` says what lies on the tapes; to write or read the next record one must know where it lies, so `Placed`
  has for each tape the number of its first record, the sum of those before it.  `Phases` and `Loaded` say which
  states drive, mover and CONTROL agent are in together, and that the window begins at the sum of the lengths of the
  tapes before.  `Capturable` is what makes the length a window is captured with whole records and never negative; `Truly`
  says of a recover with the true lengths that the table's sums are the tapes' sums.  With that, the one-record
  buffer of the mover may hold a block of any tape and a read is still served from the right one.
* `TypeCorrect`, `ImageLaidOut`, `ReadsServed`, `WindowsAreTrue`: `TypeOK`, `LaidOut`, `ServedAsAsked` and
  `WindowIsTheTapes`.

TapeSimulator, for a tape of any length, records of any sizes and any counts:
* `TapeInvariant`: `TapeInv`: the file is a sound chain (each gap has the size of the one before it, only DATA has data
  behind it, nothing is past the physical end), the offset and the saved offset are at a gap behind BOT, a
  closed drive has the numbers of a fresh one, and a drive that owes a mark (`weof_on_close`) is open for writing with its
  head at the end of the file: a motion that first writes the owed mark then adds it behind all there is.
* `TypeCorrect`, `ChainHolds`, `NumbersExact`: `TypeOK`, `GapChain` and the action property `NumbersStayExact`.
* `WarnedInTime`: the action property `WarnedBeforeTheEnd`, if every record and its gap fit between the logical and the
  physical end.  Those are `TAPE_SIM_LOGICAL_EOM`, 64 KB, apart (`ndma_tape_simulator.c:66`), and the usual records
  are shorter; the mover takes records up to `NDMOS_CONST_TAPE_REC_MAX`, 256 KB, and of a longer one than fits nothing is
  claimed: its write may be refused with no warning before.
* `TapeImplemented`: `Spec` implies `BehavesAsTape`, the specification of `TapeMedium` on the records and marks of the
  gaps.  Each request is the medium's request of the same name or a stutter.  The medium describes where a motion ends
  as the place with a property (`CHOOSE`); the simulator walks gap by gap.  So each of the four loops gets
  an invariant over its turns, and the place it stops at is shown to be the only one the medium can mean, with
  the same number of units left over and the same error.

FileHistory:
* `IInvHolds`: `IInv` = `PipesOK`, `HeapOK`, `Ordered` and `HaltedEmpty`.  `PipesOK` bounds what a poll
  can put into a channel; `HeapOK` says of the heap that the bytes of the table are the
  entries times their size and end before the items.  That alone is not inductive for the
  callers: they store through two pointers after one question, so the lemmas follow an
  entry and its item through `ndmfhh_prepare`, `ndmfhh_add_entry` and `ndmfhh_add_item`, where the
  rounding up of the item is bounded by `Align` and absorbed by the slop.
* `TypeCorrect`, `HeapSound`, `OneType`, `PostedInOrder`: `TypeOK`, `HeapNeverOverlaps`, `TableOfOneType`,
  `InOrder`.
* `NoLineSkipped`: `NothingSkipped`.  The invariant is `Unskipped`: `Conserved` has what was given, then what the channel holds,
  then what the pipe holds as one sequence, which is what was written, but for the line cut by the formatter's death,
  which comes last; `EofEmpty` says that the end of the pipe is met only when it is empty and its writer gone, so that nothing is
  written behind the cut line; `Within` bounds the items of the heap by its size, so that what a heap in use can hold an
  empty one can.  Lines and units become entries one by one, so what is left of two runs is what is left of the one, then of
  the other (`KeptInJoin`), and each step is a matter of moving the brackets of a concatenation.

NdmConn:
* `ConnInvHolds`: `ConnInv`, the order of the conversation, for any set of versions and any number of
  calls and notices.  `ReplyIsOurs` alone says nothing about what is still under way, so
  `OneRequest` and `OneReply` say that one request is under way or one reply, never
  both, and that the reply is to what the server served last; a notice in front of
  it moves it along and leaves the rest.  `GreetingFirst` and `OpeningNext` are the two moments
  before the ends agree: the server has changed its version when its reply is on
  its way, and the greeting and that reply, both of a kind that every version
  encodes alike, are all the client decodes before.  From then on `Agreed` has every message under way in the one version.
* `AnswersAreOurs`, `NothingAstray`, `OneVersion`: `ReplyIsOurs`, `NoReplyAstray`, `VersionsAgree`.

ControlMonitor, for any number of tapes, reads and pauses:
* `MonitorInvariant`: `MonitorInv` is `WatchInv` with `EarlyTurns`, `CopiesFresh` and `TurnsPaid`.  In `WatchInv`, `Unsaid` has of
  every kind at most one notice sent and not taken, wherever it is: still to be sent, on the way, or in its
  flag; `CopiesStand` says that a copy of HALTED is right until the agent is stopped; `Fits` says what holds of the agents
  while a request is on its way to them.
* Why the turns of a loop suffice is a matter of counting.  `TurnsPaid` bounds the count by what has been spent: a read passed
  on, a pause dealt with, the news of a halt, or a wait that expired.  A turn that finds nothing to do must have
  waited in vain, and for that a copy may not be older than the last notice (`CopiesFresh`); the turns of the startup, which
  the monitor's count begins after, are bounded by `EarlyTurns`.
* `OkayIsDone`, `NoticesAreCounted`, `RequestsAlwaysFit`, `GivesUpOnlyWhenSlow`: `OkayMeansDone`, `NoticesCounted`,
  `RequestsFit`, `GivenUpOnlyWhenSlow`.

Library:
* `LostOnlyThen`: `LostOnlyWhenCut`, for any tapes, slots, media table, jobs and faults.  A move
  unlinks its destination's file on the strength of the inventory, so the invariant that carries it is
  `InventoryKnows`: as long as no move has come apart from its inventory, an element that has a file is
  called full.  The reset of the inventory (`StartInventory`) preserves that only where it equals what was there,
  which is why a failed save counts as coming apart just when it changes something.
* `LibraryInvariant`: the inductive invariant `LibraryInv`.  A job is in one of a few parts (loading, using, unloading and
  its best effort, undoing a failed open, a move, putting away with or without its move), and what is left of it is an end of one list of calls
  (`Remains`).  For each part the invariant says what the drive and the inventory are before each call (`Loading`, `Using`,
  `Unloading`, `Undoing`, `Roboting`, `PuttingAway`): for a job without a fault that the tape is in the drive and its slot
  free (`Carries`), and whether the drive is open; for any job where the tape came from, and that the label was read.  The parts
  need each other through the drive: that an open drive has the tape it was opened with (`Held`) holds because no job asks
  for a move out of a drive before it has closed it, and none into a drive that the inventory calls full (`MovedClosed`), so
  `InventoryKnows` is part of this argument too.
* `TapeIsRight`, `DriveReleased`, `PositionIsKnown`: `RightTape`, `Released`, `PositionIsTheTapes`, each a part of
  `LibraryInv` or a consequence of one.  TLC has found `LibraryInv` to hold on the instance of the run.

Where an operator is a recursive function (the sums over the tapes, the turns of a loop of the simulator, the
concatenation of a sequence of sequences) its proof needs induction over data.  The library's induction theorems
take an operator as a parameter, which the provers cannot instantiate; the modules use `NatSetInduction` instead, the
same for a set of numbers, proved from the order of the naturals being well-founded (`LeastOf`), and show with it that the
function exists and what holds of each of its values.

Only model-checked:
* Translate.  Its state space is finite whatever the constant is: `Versions` is a part of {2, 3, 4}, bodies and tables are
  written out, and a connection keeps its version.  The run with all three versions goes through all of it, and a
  proof would be the same enumeration by hand.
* Liveness (`BackupEnds`, `MoverSeesTheEnd`, `ReadsEnd`, `CallsEnd`, `JobEnds`), which is beyond the prover, as is `ENABLED`.

## 6. What is left out, and why

* The bytes: in Session an image is counted in units, not represented; order is that of a
  queue because the code only appends at `end_ix` and removes at `beg_ix`.  In MediaWindows the
  units have their place in the image.
* In Session what stops a mover (the end of the window, of the tape, of the file) may come before
  any record; MediaWindows has windows and tapes, and leaves out the drain and the channel.  A
  tape block is a record there, and the drive is not the simulator of TapeSimulator: both ways,
  the modules meet at the reply of one read or write.
* `DATA_LISTEN`: not compiled (`#ifdef notyet`), so no end of the DATA agent is in
  LISTEN and no mover connects to a LOCAL one.
* A line longer than the wrap channel.  The branch for it (`ndma_data.c:479-486`, "that's one
  huge message") is never taken: a channel that is full is not polled, so its end is never seen,
  and the formatter waits on the pipe.  `wraplib.c` writes no such line.
* Of authentication what a digest is; configuration and log messages but for their translation: no part
  of the state machines depends on them.
* In Translation the elements of a list (an environment, a name list, the files of a history) beyond one
  representative; the XDR routines, which are generated and carry a body as it is.
* In Library a second drive and a second door, volume tags, the decoding of a SCSI element status, and an operator who
  removes a stale lock file.  The checks of a job description (`ndma_comm_job.c`) before it starts.
* The formatter's reader of a recover, which is another process: the environment in Session and in
  FileHistory.  The index search is a pure search of a sorted file that nothing else here depends on.
* Of the simulator, the disk errors other than that of a write's data, the write-protected
  drive and the blank tape whose first gaps cannot be written.
* Time: `poll()` returns whenever it likes.  Memory contents, process identities and
  signals are below the level of the model.
* The components marked `not_modelled` in `PROJECT.json`, each with its reason; the plan
  above takes up those with logic of their own.
