------------------------------ MODULE Library ------------------------------
(***************************************************************************)
(* The tape library: the robot and its one drive, both simulated, and the   *)
(* jobs of the CONTROL agent that load, use and put away the tapes of a     *)
(* media table, or move tapes about (ndma_robot_simulator.c, opening and    *)
(* closing in ndma_tape_simulator.c, ndma_ctrl_robot.c, ndma_cops_robot.c,  *)
(* ndma_cops_labels.c, the loading half of ndma_ctrl_media.c).              *)
(*                                                                          *)
(* The robot keeps two things on disk: the tapes, as one file per element,  *)
(* and an inventory of the elements, which is written apart from them.      *)
(* A job is the list of the calls it still makes; each call is one step,    *)
(* and what a call that fails leads to depends on the part of the job.      *)
(* One job runs at a time, and any kind may follow any other.               *)
(***************************************************************************)
EXTENDS Naturals, Sequences

CONSTANTS
    Media,          \* the tapes there are
    SlotOrder,      \* the slots, in the order of their addresses
    Table,          \* the media table: the slot of each entry; its label is its number
    Protected,      \* the write-protected tapes
    UseEject,       \* the job ejects before the robot unloads
    Gone, Blank,    \* an element without a file, and a file of length 0
    JobLimit,       \* jobs in a behaviour
    FaultLimit,     \* faults in a behaviour
    Faults          \* of "arm", "save", "torn", "deck", "io", "died"

Slots == {SlotOrder[i] : i \in 1 .. Len(SlotOrder)}

ASSUME LibraryAssumption ==
    /\ Protected \subseteq Media
    /\ \A i \in 1 .. Len(Table) : Table[i] \in Slots
    /\ Gone \notin Media /\ Blank \notin Media /\ Gone # Blank
    /\ UseEject \in BOOLEAN /\ JobLimit \in Nat /\ FaultLimit \in Nat
    /\ Faults \subseteq {"arm", "save", "torn", "deck", "io", "died"}

VARIABLES
    files,      \* what the file of each element is: a tape, Blank or Gone
    inv,        \* the robot's state file: which elements are full, and from where
    position,   \* the tape whose position drive.pos has, or Gone
    tape,       \* the TAPE agent: is the drive open, on which tape; the lock file
    label,      \* the label each tape bears; 0 is none
    job,        \* the CONTROL agent: kind, part, calls to be made, cur_media_ix
    jobs, faults,
    past        \* history: a move was cut off from its inventory; the drive's tape came from

vars == <<files, inv, position, tape, label, job, jobs, faults, past>>

Drive == "drive"
Door == "door"      \* the import/export element; its address is 0
Elements == Slots \cup {Drive, Door}

(***************************************************************************)
(* The robot                                                                *)
(***************************************************************************)

\* What a robot without a state file believes: every slot is full.  Address 0
\* stands for no source, and so nothing can be seen to come from the door.
StartInventory == [e \in Elements |-> [full |-> e \in Slots, source |-> Door]]

\* Mutant: the destination is not looked at
MayMoveOnto(src, dst) == {src, dst} \subseteq Elements /\ inv[src].full

MayMove(src, dst) == {src, dst} \subseteq Elements /\ inv[src].full /\ ~inv[dst].full

\* The element status an agent is given: a source, if it is seen, or the door
SeenSource(e) == inv[e].source

\* A robot that is there executes what it is asked for
Answers(j) == ~j.armless

\* The destination's file goes, the source's takes its place or one is made
Carried(src, dst) ==
    [files EXCEPT ![dst] = IF files[src] = Gone THEN Blank ELSE files[src], ![src] = Gone]

Recorded(src, dst) ==
    [inv EXCEPT ![dst] = [inv[src] EXCEPT !.source = src], ![src].full = FALSE]

\* Mutant: a position stays when its tape goes
PositionStays(src, dst) == position

PositionAfter(src, dst) == IF Drive \in {src, dst} THEN Gone ELSE position

OriginAfter(src, dst) == IF dst = Drive THEN src ELSE past.origin

(***************************************************************************)
(* The drive.  A tape that is open keeps its lock file; so does an opening  *)
(* that fails late, and a session that ends with the tape open.             *)
(***************************************************************************)

Closed == [open |-> FALSE, holds |-> Gone, locked |-> FALSE]

Writes(j) == j.op \in {"init_labels", "backup"}

\* One session does not have the robot and the drive open at once
RobotOpen(j) == j.resident

Refused(j) ==
    \/ RobotOpen(j) \/ tape.open \/ tape.locked
    \/ files[Drive] = Gone
    \/ Writes(j) /\ files[Drive] \in Protected

Opened == [open |-> TRUE, holds |-> files[Drive], locked |-> TRUE]

Label(m) == IF m \in Media THEN label[m] ELSE 0

(***************************************************************************)
(* The jobs                                                                 *)
(***************************************************************************)

MediaOps == {"init_labels", "list_labels", "backup", "recover", "test_tape"}
RobotOps == {"move", "load", "unload", "remedy", "query"}

Move(src, dst) == <<"move", src, dst>>
Call(name) == <<name, Gone, Gone>>

NoJob ==
    [op |-> "none", part |-> "idle", todo |-> <<>>, ix |-> 0, loaded |-> FALSE,
     next |-> 0, checks |-> FALSE, resident |-> FALSE, armless |-> FALSE,
     faulty |-> FALSE, table |-> <<>>, from |-> Door, to |-> Door]

Enter(j, part, todo) == [j EXCEPT !.part = part, !.todo = todo]

Over(j) == Enter(j, "over", <<>>)

SlotOf(j) == j.table[j.ix]

\* ndmca_media_load_current
LoadCalls(j) ==
    <<Move(SlotOf(j), Drive), Call("open"), Call("rewind")>>
    \o (IF j.checks THEN <<Call("check_label"), Call("rewind_again"), Call("space")>>
        ELSE <<>>)

Ejection == IF UseEject THEN <<Call("eject")>> ELSE <<>>

\* Mutant: the best effort forgets to close
UnloadUnclosed(j) == <<Call("rewind")>> \o Ejection \o <<Move(Drive, SlotOf(j))>>

\* ndmca_media_unload_current, and _best_effort as well
UnloadCalls(j) ==
    <<Call("rewind")>> \o Ejection \o <<Call("close"), Move(Drive, SlotOf(j))>>

\* What is done with a tape once it is loaded
UseCalls(j) ==
    CASE j.op = "init_labels" -> <<Call("write_label")>>
      [] j.op = "list_labels" -> <<Call("read_label")>>
      [] j.op = "test_tape"   -> <<Call("close"), Call("open")>>
      [] OTHER                -> <<Call("work")>>

Loads(j, ix) ==
    LET k == [j EXCEPT !.ix = ix] IN Enter(k, "load", LoadCalls(k))

\* Entry n of the table, or there is none: the table is done, or out of tapes
Entry(j, n) == IF n \in 1 .. Len(j.table) THEN Loads(j, n) ELSE Over(j)

\* The tape is put away, and entry `next` is wanted then
Unloads(j, next) ==
    IF j.loaded THEN Enter([j EXCEPT !.next = next], "unload", UnloadCalls(j)) ELSE Over(j)

LabelOps == {"init_labels", "list_labels"}

\* A tape that cannot be loaded: the label operations go on with the next
LoadFailed(j) == IF j.op \in LabelOps THEN Entry(j, j.ix + 1) ELSE Over(j)

\* A tape that cannot be put away: the label operations go on as if it were; a
\* change of tapes fails the job, and its shutdown tries once more if it is open
UnloadFailed(j) ==
    CASE j.op \in LabelOps -> Entry(j, j.next)
      [] j.op \in {"backup", "recover"} /\ j.next > 0 /\ tape.open -> Unloads(j, 0)
      [] OTHER -> Over(j)

Completed(j) ==
    CASE j.part = "load"   -> Enter(j, "use", UseCalls(j))
      [] j.part = "use"    -> Unloads(j, IF j.op \in LabelOps THEN j.ix + 1 ELSE 0)
      [] j.part = "unload" -> Entry([j EXCEPT !.loaded = FALSE], j.next)
      [] j.part = "best"   -> LoadFailed([j EXCEPT !.loaded = FALSE])
      [] j.part = "undo"   -> LoadFailed(j)
      [] OTHER             -> Over(j)

Goes(j) == IF Len(j.todo) > 1 THEN [j EXCEPT !.todo = Tail(@)] ELSE Completed(j)

\* Mutant: what the robot says to a load is not looked at
FailsLater(j) ==
    LET call == Head(j.todo)[1] IN
    CASE j.part = "load" /\ call \in {"move", "rewind_again"} -> Goes(j)
      [] j.part = "load" /\ call = "open" -> Enter(j, "undo", <<Move(Drive, SlotOf(j))>>)
      [] j.part = "load" /\ call \notin {"move", "open", "rewind_again"} ->
            Enter(j, "best", UnloadCalls(j))
      [] j.part = "unload" -> UnloadFailed(j)
      [] OTHER -> Goes(j)

\* The first call of `todo` has failed.  In the other parts that is ignored; a
\* tape the operator wants unloaded is unloaded though the drive does not answer.
Fails(j) ==
    LET call == Head(j.todo)[1] IN
    CASE j.part = "load" /\ call = "move" -> LoadFailed(j)
      [] j.part = "load" /\ call = "open" -> Enter(j, "undo", <<Move(Drive, SlotOf(j))>>)
      [] j.part = "load" /\ call \notin {"move", "open", "rewind_again"} ->
            Enter(j, "best", UnloadCalls(j))
      [] j.part = "unload" -> UnloadFailed(j)
      [] j.part = "mtio" /\ call = "open" -> [j EXCEPT !.todo = <<j.todo[Len(j.todo)]>>]
      [] j.part = "mtio_only" /\ call = "open" -> Over(j)
      [] OTHER -> Goes(j)

(***************************************************************************)
(* Steps                                                                    *)
(***************************************************************************)

Init ==
    /\ files \in {f \in [Elements -> Media \cup {Gone}] :
                    /\ f[Drive] = Gone /\ f[Door] = Gone
                    /\ \A m \in Media : \E e \in Elements : f[e] = m
                    /\ \A e, g \in Elements : f[e] = f[g] /\ f[e] # Gone => e = g}
    /\ inv = StartInventory
    /\ position = Gone
    /\ tape = Closed
    /\ label \in [Media -> 0 .. Len(Table)]
    /\ job = NoJob /\ jobs = 0 /\ faults = 0
    /\ past = [cut |-> FALSE, origin |-> Door]

\* A fault is spent, and this job has had one
MayFail(f) == f \in Faults /\ faults < FaultLimit
Faulty(j) == [j EXCEPT !.faulty = TRUE]

\* An operator starts a job; `resident` has the TAPE and ROBOT agents in one session
Begins ==
    /\ job.part = "idle" /\ jobs < JobLimit
    /\ \E op \in MediaOps, resident \in BOOLEAN, checks \in BOOLEAN :
          /\ op \notin {"backup", "recover"} => ~checks
          /\ \E table \in {Table} \cup (IF op = "list_labels" THEN {<<>>} ELSE {}) :
                job' = [NoJob EXCEPT !.op = op, !.part = "start", !.resident = resident,
                                     !.checks = checks, !.table = table]
    /\ jobs' = jobs + 1
    /\ UNCHANGED <<files, inv, position, tape, label, faults, past>>

\* One that only moves tapes.  A load has the drive for `to`, an import the door
\* for `from`, an export for `to`; an unload whose `to` is the drive was given none.
BeginsMoving ==
    /\ job.part = "idle" /\ jobs < JobLimit
    /\ \E op \in RobotOps, from, to \in Elements, resident \in BOOLEAN :
          /\ resident => op = "unload"
          /\ op \in {"remedy", "query"} => from = Drive /\ to = Drive
          /\ op = "load" => to = Drive
          /\ op = "unload" => from = Drive
          /\ job' = [NoJob EXCEPT !.op = op, !.part = "start", !.from = from, !.to = to,
                                  !.resident = resident]
    /\ jobs' = jobs + 1
    /\ UNCHANGED <<files, inv, position, tape, label, faults, past>>

\* A source that is seen, is a slot, and is empty
Returns(j) ==
    LET source == SeenSource(Drive) IN
    IF ~inv[Drive].full \/ source \notin Slots \/ inv[source].full THEN Over(j)
    ELSE Enter(j, "robot", <<Move(Drive, source)>>)

\* The best effort at a drive whose tape has no source: nothing is moved after it
MtioOnly == <<Call("open"), Call("rewind")>> \o Ejection \o <<Call("close")>>

\* ndmca_op_unload_tape; address 0, which is the door, when it knows no better
PutsAway(j) ==
    LET source == SeenSource(Drive)
        to == IF j.to # Drive THEN j.to ELSE IF inv[Drive].full THEN source ELSE Door
    IN IF j.to = Drive /\ inv[Drive].full /\ source = Door
       THEN Enter(j, "mtio_only", MtioOnly)
       ELSE Enter(j, "mtio", <<Call("open"), Call("rewind")>> \o Ejection
                             \o <<Call("close"), Move(Drive, to)>>)

\* ndmca_robot_synthesize_media
FullSlots == SelectSeq(SlotOrder, LAMBDA s : inv[s].full)

Tabled(j) == IF j.table = <<>> THEN [j EXCEPT !.table = FullSlots] ELSE j

Looked(j) ==
    IF j.part = "look_again" THEN Returns(j)
    ELSE CASE j.op \in MediaOps -> IF inv[Drive].full THEN Over(j) ELSE Entry(Tabled(j), 1)
           [] j.op = "remedy" -> IF inv[Drive].full THEN Enter(j, "look_again", <<>>) ELSE Over(j)
           [] j.op = "unload" -> PutsAway(j)
           [] j.op \in {"move", "load"} -> Enter(j, "robot", <<Move(j.from, j.to)>>)
           [] OTHER -> Over(j)

\* Inquiry, element addresses and element status; the robot saves its inventory
\* again, and does not look whether it could
Looks ==
    /\ job.part \in {"start", "look_again"}
    /\ \/ job' = Looked(job) /\ UNCHANGED <<inv, faults, past>>
       \/ /\ MayFail("save")
          /\ job' = Looked(Faulty(job)) /\ inv' = StartInventory
          /\ past' = [past EXCEPT !.cut = @ \/ inv # StartInventory]
          /\ faults' = faults + 1
       \/ /\ MayFail("arm")
          /\ job' = Over(Faulty(job)) /\ faults' = faults + 1
          /\ UNCHANGED <<inv, past>>
    /\ UNCHANGED <<files, position, tape, label, jobs>>

NextIs(name) == job.todo # <<>> /\ Head(job.todo)[1] = name
Source == Head(job.todo)[2]
Target == Head(job.todo)[3]

\* Tape, position and inventory, in this order
Moves ==
    /\ NextIs("move") /\ Answers(job) /\ MayMove(Source, Target)
    /\ files' = Carried(Source, Target)
    /\ position' = PositionAfter(Source, Target)
    /\ \/ /\ inv' = Recorded(Source, Target) /\ job' = Goes(job)
          /\ past' = [past EXCEPT !.origin = OriginAfter(Source, Target)]
          /\ UNCHANGED faults
       \/ /\ MayFail("save")
          /\ inv' = StartInventory /\ job' = Goes(Faulty(job))
          /\ past' = [cut |-> TRUE, origin |-> OriginAfter(Source, Target)]
          /\ faults' = faults + 1
    /\ UNCHANGED <<tape, label, jobs>>

MoveRefused ==
    /\ NextIs("move")
    /\ Answers(job) => ~MayMove(Source, Target)
    /\ job' = Fails(job)
    /\ UNCHANGED <<files, inv, position, tape, label, jobs, faults, past>>

MoveFails ==
    /\ NextIs("move") /\ MayFail("arm")
    /\ job' = Fails(Faulty(job)) /\ faults' = faults + 1
    /\ UNCHANGED <<files, inv, position, tape, label, jobs, past>>

\* The ROBOT agent dies after it has renamed the file
MoveTorn ==
    /\ NextIs("move") /\ MayFail("torn") /\ Answers(job) /\ MayMove(Source, Target)
    /\ files' = Carried(Source, Target)
    /\ position' \in {position, PositionAfter(Source, Target)}
    /\ inv' \in {inv, StartInventory}
    /\ past' = [cut |-> TRUE, origin |-> OriginAfter(Source, Target)]
    /\ job' = Fails([Faulty(job) EXCEPT !.armless = TRUE]) /\ faults' = faults + 1
    /\ UNCHANGED <<tape, label, jobs>>

\* A position that was saved is used up
Opens ==
    /\ NextIs("open") /\ ~Refused(job)
    /\ tape' = Opened /\ position' = Gone
    /\ job' = Goes([job EXCEPT !.loaded = @ \/ job.part = "load"])
    /\ UNCHANGED <<files, inv, label, jobs, faults, past>>

OpenRefused ==
    /\ NextIs("open") /\ Refused(job)
    /\ job' = Fails(job)
    /\ UNCHANGED <<files, inv, position, tape, label, jobs, faults, past>>

\* Past the lock file: it stays, and refuses every opening from now on
OpenFails ==
    /\ NextIs("open") /\ ~Refused(job) /\ MayFail("io")
    /\ tape' = [tape EXCEPT !.locked = TRUE]
    /\ job' = Fails(Faulty(job)) /\ faults' = faults + 1
    /\ UNCHANGED <<files, inv, position, label, jobs, past>>

DeckCalls == {"rewind", "rewind_again", "space", "eject", "check_label", "read_label"}

\* The label is the one of the entry; the other calls ask nothing of the tape
Satisfied(name) == tape.open /\ (name = "check_label" => Label(tape.holds) = job.ix)

Deck ==
    /\ \E name \in DeckCalls :
        /\ NextIs(name)
        /\ job' = IF Satisfied(name) THEN Goes(job) ELSE Fails(job)
    /\ UNCHANGED <<files, inv, position, tape, label, jobs, faults, past>>

\* Any call that has the drive do something; what it was to write is not there
DeckFails ==
    /\ \E name \in DeckCalls \cup {"write_label"} : NextIs(name)
    /\ MayFail("deck")
    /\ job' = Fails(Faulty(job)) /\ faults' = faults + 1
    /\ UNCHANGED <<files, inv, position, tape, label, jobs, past>>

Bears(m, l) == label' = IF m \in Media THEN [label EXCEPT ![m] = l] ELSE label

WritesLabel ==
    /\ NextIs("write_label")
    /\ Bears(tape.holds, job.ix)
    /\ job' = Goes(job)
    /\ UNCHANGED <<files, inv, position, tape, jobs, faults, past>>

\* The backup or the recover itself, up to where it is over or wants another
\* tape.  One that does not look at labels writes over them.  One that fails
\* before its agents have started leaves the tape as it is.
Works ==
    /\ NextIs("work")
    /\ \/ /\ \E next \in {0} \cup (IF job.op = "backup" THEN {job.ix + 1}
                                                         ELSE 1 .. Len(job.table)) :
                job' = Unloads(job, next)
          /\ IF job.op = "backup" /\ ~job.checks THEN Bears(tape.holds, 0) ELSE UNCHANGED label
          /\ UNCHANGED faults
       \/ /\ MayFail("deck")
          /\ job' = Over(Faulty(job)) /\ faults' = faults + 1
          /\ UNCHANGED label
    /\ UNCHANGED <<files, inv, position, tape, jobs, past>>

\* The position is saved under the name of the drive; the CONTROL agent does not
\* look at the reply
Closes ==
    /\ NextIs("close")
    /\ tape' = IF tape.open THEN Closed ELSE tape
    /\ position' = IF tape.open THEN tape.holds ELSE position
    /\ job' = Goes(job)
    /\ UNCHANGED <<files, inv, label, jobs, faults, past>>

\* The sessions end.  Nobody closes a tape that is open: its lock file stays.
EndsSessions ==
    /\ tape' = [Closed EXCEPT !.locked = tape.locked]
    /\ job' = NoJob

Ends ==
    /\ job.part = "over"
    /\ EndsSessions
    /\ UNCHANGED <<files, inv, position, label, jobs, faults, past>>

Dies ==
    /\ job.part \notin {"idle", "over"} /\ MayFail("died")
    /\ EndsSessions
    /\ faults' = faults + 1
    /\ UNCHANGED <<files, inv, position, label, jobs, past>>

Next ==
    \/ Begins \/ BeginsMoving \/ Looks
    \/ Moves \/ MoveRefused \/ MoveFails \/ MoveTorn
    \/ Opens \/ OpenRefused \/ OpenFails \/ Deck \/ DeckFails
    \/ WritesLabel \/ Works \/ Closes \/ Ends \/ Dies

Spec == Init /\ [][Next]_vars

(***************************************************************************)
(* Properties                                                               *)
(***************************************************************************)

\* A tape's file is destroyed only after a move and its inventory have come
\* apart, by a state file that could not be written or a robot that died between
\* the two: the unlink of the destination (ndma_robot_simulator.c) hits no tape
\* of a robot whose inventory was kept, in whatever order jobs move tapes.
LostOnlyWhenCut ==
    \A m \in Media : past.cut \/ \E e \in Elements : files[e] = m

\* What a job writes, reads or labels is the tape it means: while a tape is used
\* it is the one in the drive, it came from the slot of the current entry, and
\* bears its label if labels are checked.  This holds after tapes that could not
\* be put away, and whatever the robot's inventory has become.
RightTape ==
    job.part = "use" /\ tape.open =>
        /\ tape.holds = files[Drive]
        /\ past.origin = SlotOf(job)
        /\ job.checks => Label(tape.holds) = job.ix

\* A media job without a fault of its own leaves the drive closed and, if the
\* drive was fit to begin with, empty, however its tapes failed it: no such tape,
\* a wrong label, write-protected, locked by an earlier job, out of tapes.
Released ==
    job.part = "over" /\ job.op \in MediaOps /\ ~job.faulty =>
        ~tape.open /\ (job.ix > 0 => ~inv[Drive].full)

\* A position that is saved is one on the tape that is in the drive, unless a
\* move was cut off
PositionIsTheTapes ==
    position # Gone => position = files[Drive] \/ past.cut
=============================================================================
