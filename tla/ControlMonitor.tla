--------------------------- MODULE ControlMonitor ---------------------------
(***************************************************************************)
(* The CONTROL agent watching a backup or a recover of two remote agents    *)
(* (ndma_cops_backreco.c, with the calls of ndma_ctrl_calls.c and the       *)
(* notices of ndma_comm_dispatch.c): it waits for notices with a timeout,   *)
(* asks both agents for their states, one after the other, and decides by   *)
(* those copies, by flags of one bit and by a count of its turns.           *)
(*                                                                          *)
(* A call is one step: while it lasts the CONTROL agent reads that one      *)
(* connection only, dispatching the notices that come before the reply.     *)
(* The agents are their states and their pending notices; what moves the    *)
(* image between them is Session, what a remedy does to the tapes is        *)
(* MediaWindows.                                                            *)
(***************************************************************************)
EXTENDS Naturals, Sequences, FiniteSets

CONSTANTS
    Kinds,          \* of "backup", "recover"
    Tapes,          \* entries of the media table
    Reads,          \* parts of the image a recover's formatter asks for
    Pauses,         \* times the mover needs another tape
    Faults          \* of "data", "media", "remedy", "late", "gone"

ASSUME MonitorAssumption ==
    /\ Kinds \subseteq {"backup", "recover"}
    /\ Tapes \in Nat \ {0} /\ Reads \in Nat /\ Pauses \in Nat
    /\ Faults \subseteq {"data", "media", "remedy", "late", "gone"}

VARIABLES
    kind,       \* the operation
    data,       \* the DATA agent: state, halt reason, notice pending, bytes it asked for
    mover,      \* the mover: state, reason, notice pending, a read to serve
    wire,       \* the notices on the way on each connection
    ca,         \* the CONTROL agent
    past        \* history: how each agent last halted, waits that expired, ...

vars == <<kind, data, mover, wire, ca, past>>

Agents == {"data", "mover"}

Notices == {"data_halted", "data_read", "mover_paused", "mover_halted"}

\* for (count = 0; count < 10; count++)
Turns == 10

\* Waits that expire (counted up to this) before a turn is the last one
Slow == Turns - 2 - Pauses - Reads

Unknown == [state |-> "UNKNOWN", reason |-> "NA"]

(***************************************************************************)
(* Notices.  pending_notify_xxx is a bit-field of one bit that the handler  *)
(* increments.                                                              *)
(***************************************************************************)

Noticed(pend, notices) ==
    [n \in Notices |->
        (pend[n] + Cardinality({i \in DOMAIN notices : notices[i] = n})) % 2]

\* What the bits cannot tell: a second notice before the first was taken
Wraps(pend, notices) ==
    \E n \in Notices :
        pend[n] + Cardinality({i \in DOMAIN notices : notices[i] = n}) > 1

(***************************************************************************)
(* The loops of the CONTROL agent, as functions of its record               *)
(***************************************************************************)

\* Where a turn of each loop begins
First(loop) ==
    CASE loop = "monitor" -> (IF kind = "recover" THEN "top" ELSE "wait")
      [] loop = "shutdown" -> "wait"
      [] OTHER -> "data"

Enter(c, loop) ==
    [c EXCEPT !.loop = loop, !.stage = First(loop), !.count = 0,
              !.failed = FALSE, !.turned = FALSE]

GivesUp(c) == Enter([c EXCEPT !.rc = "failed"], "shutdown")

\* Mutant: the DATA agent alone tells how it went
EndingByData(c) ==
    IF c.ds.state # "HALTED" \/ c.ms.state # "HALTED" THEN "failure"
    ELSE IF c.ds.reason = "SUCCESSFUL" THEN "okay" ELSE "questionable"

\* ndmca_monitor_shutdown: how the operation ended, by the copies
Ending(c) ==
    IF c.ds.state # "HALTED" \/ c.ms.state # "HALTED" THEN "failure"
    ELSE IF c.ds.reason = "SUCCESSFUL" /\ c.ms.reason = "CONNECT_CLOSED" THEN "okay"
    ELSE "questionable"

Stops(c) == [c EXCEPT !.finish = Ending(c), !.stage = "stop_data"]

Exhausted(c) ==
    CASE c.loop \in {"startup", "monitor"} -> GivesUp(c)
      [] c.loop = "shutdown" -> Stops(c)
      [] OTHER -> [c EXCEPT !.loop = "ended", !.finish = "failure"]

\* Mutant: the shutdown waits until both agents have halted
AgainForever(c) ==
    IF c.loop = "shutdown" THEN [c EXCEPT !.stage = First(c.loop), !.failed = FALSE, !.turned = FALSE]
    ELSE IF c.count + 1 < Turns
    THEN [c EXCEPT !.count = @ + 1, !.stage = First(c.loop),
                   !.failed = FALSE, !.turned = FALSE]
    ELSE Exhausted(c)

\* The next turn, or none is left
Again(c) ==
    IF c.count + 1 < Turns
    THEN [c EXCEPT !.count = @ + 1, !.stage = First(c.loop),
                   !.failed = FALSE, !.turned = FALSE]
    ELSE Exhausted(c)

\* count = 0; continue
Afresh(c) == Again([c EXCEPT !.count = 0])

\* A loop whose states cannot be had breaks off
BrokenOff(c) ==
    CASE c.loop = "shutdown" -> Stops(c)
      [] c.loop = "stopping" -> [c EXCEPT !.loop = "ended"]
      [] OTHER -> GivesUp(c)

(***************************************************************************)
(* A call: notices that came before its reply are dispatched, and the       *)
(* caller sees the reply, calls it late, or loses the connection            *)
(***************************************************************************)

\* A behaviour has at most one fault
MayFail(f) == f \in Faults /\ ~past.faulty

\* A connection that is gone stays gone
Outcomes(a) ==
    IF a \in ca.lost THEN {"gone"}
    ELSE {"ok"} \cup {f \in {"late", "gone"} : MayFail(f)}

Reaches(a) == a \notin ca.lost

\* The CONTROL agent has read the connection `a` up to the reply
Listens(c, a) == [c EXCEPT !.pend = Noticed(@, wire[a])]

Hears(a) ==
    /\ wire' = [wire EXCEPT ![a] = <<>>]
    /\ past' = [past EXCEPT !.wrapped = @ \/ Wraps(ca.pend, wire[a])]

HearsWith(a, outcome) ==
    /\ wire' = [wire EXCEPT ![a] = <<>>]
    /\ past' = [past EXCEPT !.wrapped = @ \/ Wraps(ca.pend, wire[a]),
                            !.faulty = @ \/ outcome # "ok"]

Losing(c, a, outcome) == [c EXCEPT !.lost = IF outcome = "gone" THEN @ \cup {a} ELSE @]

(***************************************************************************)
(* ndmca_monitor_get_states                                                 *)
(***************************************************************************)

\* A connection made to a mover in LISTEN is accepted before its next request
Accepted(m) == IF m.state = "LISTEN" THEN [m EXCEPT !.state = "ACTIVE"] ELSE m

Copy(agent, outcome) ==
    IF outcome = "ok" THEN [state |-> agent.state, reason |-> agent.reason] ELSE Unknown

GetsData ==
    /\ ca.stage = "data" /\ ca.loop # "ended"
    /\ \E outcome \in Outcomes("data") :
        /\ ca' = [Losing(Listens(ca, "data"), "data", outcome) EXCEPT
                    !.ds = Copy(data, outcome), !.failed = outcome = "gone", !.stage = "mover"]
        /\ HearsWith("data", outcome)
    /\ UNCHANGED <<kind, data, mover>>

GetsMover ==
    /\ ca.stage = "mover" /\ ca.loop # "ended"
    /\ \E outcome \in Outcomes("mover") :
        /\ LET c == [Losing(Listens(ca, "mover"), "mover", outcome) EXCEPT !.ms = Copy(mover, outcome)]
           IN ca' = IF c.failed \/ outcome = "gone" THEN BrokenOff(c)
                    ELSE [c EXCEPT !.stage = "decide"]
        /\ HearsWith("mover", outcome)
    /\ mover' = Accepted(mover)
    /\ UNCHANGED <<kind, data>>

(***************************************************************************)
(* ndmca_mon_wait_for_something: a turn of its loop dispatches at most one  *)
(* message of each connection, and is the last when a notice was pending    *)
(***************************************************************************)

Pending == \E n \in Notices : ca.pend[n] = 1

Woken(pend) == [n \in Notices |-> IF n \in {"data_halted", "mover_halted"} THEN 0 ELSE pend[n]]

AfterWait(c) == IF c.loop = "startup" THEN Again(c) ELSE [c EXCEPT !.stage = "data"]

WaitTurns ==
    /\ ca.stage = "wait"
    /\ \E ready \in SUBSET {a \in Agents : wire[a] # <<>>} :
        LET heads == [i \in 1 .. Cardinality(ready) |->
                        Head(wire[IF i = 1 /\ "data" \in ready THEN "data" ELSE "mover"])]
            c == [ca EXCEPT !.pend = Noticed(Woken(@), heads), !.turned = TRUE]
        IN /\ Pending \/ ready # {}
           /\ ca' = IF Pending THEN AfterWait(c) ELSE c
           /\ wire' = [a \in Agents |-> IF a \in ready THEN Tail(wire[a]) ELSE wire[a]]
           /\ past' = [past EXCEPT !.wrapped = @ \/ Wraps(Woken(ca.pend), heads)]
    /\ UNCHANGED <<kind, data, mover>>

\* The time is up; the first turn is always taken
WaitExpires ==
    /\ ca.stage = "wait"
    /\ ca.turned \/ ~Pending
    /\ ca' = AfterWait(ca)
    /\ past' = [past EXCEPT !.expired =
                  IF ca.rc = "none" /\ @ < Slow THEN @ + 1 ELSE @]
    /\ UNCHANGED <<kind, data, mover, wire>>

(***************************************************************************)
(* ndmca_monitor_startup                                                    *)
(***************************************************************************)

Started(c) ==
    \/ c.ds.state = "ACTIVE" /\ c.ms.state = "ACTIVE"
    \/ c.ds.state = "HALTED" /\ c.ms.state = "HALTED"
    \/ c.ds.state # "IDLE" /\ c.ms.state \notin {"IDLE", "LISTEN"}

StartupDecides ==
    /\ ca.loop = "startup" /\ ca.stage = "decide"
    /\ ca' = IF Started(ca) THEN Enter(ca, "monitor")
             ELSE [ca EXCEPT !.stage = "wait"]
    /\ UNCHANGED <<kind, data, mover, wire, past>>

(***************************************************************************)
(* ndmca_monitor_backup and ndmca_monitor_recover                           *)
(***************************************************************************)

Deciding == ca.loop = "monitor" /\ ca.stage = "decide"

BothActive == ca.ds.state = "ACTIVE" /\ ca.ms.state = "ACTIVE"

\* Mutant: what has been passed on is passed on again
KeepsRead(c) == c

TakesRead(c) == [c EXCEPT !.pend["data_read"] = 0]

\* A recover passes the DATA agent's request on first (MOVER_READ)
PassesRead ==
    /\ ca.stage = "top"
    /\ ca.pend["data_read"] = 1
    /\ \E outcome \in Outcomes("mover") :
        LET fits == mover.state = "ACTIVE" /\ ~mover.reading
            c == [Losing(Listens(TakesRead(ca), "mover"), "mover", outcome)
                    EXCEPT !.stage = "wait"]
        IN /\ mover' = IF fits /\ outcome # "gone" THEN [mover EXCEPT !.reading = TRUE] ELSE mover
           /\ ca' = IF ~fits \/ outcome # "ok" THEN GivesUp(c)
                    ELSE IF c.count < 5 THEN Again(c)
                    ELSE c
           /\ wire' = [wire EXCEPT !["mover"] = <<>>]
           /\ past' = [past EXCEPT !.refused = @ \/ ~fits,
                                   !.wrapped = @ \/ Wraps(ca.pend, wire["mover"]),
                                   !.faulty = @ \/ outcome # "ok"]
    /\ UNCHANGED <<kind, data>>

NoRead ==
    /\ ca.stage = "top"
    /\ ca.pend["data_read"] = 0
    /\ ca' = [ca EXCEPT !.stage = "wait"]
    /\ UNCHANGED <<kind, data, mover, wire, past>>

GoesOn ==
    /\ Deciding /\ BothActive
    /\ ca' = Afresh(ca)
    /\ UNCHANGED <<kind, data, mover, wire, past>>

AwaitsPauseNotice ==
    /\ Deciding /\ ca.ms.state = "PAUSED"
    /\ ca.pend["mover_paused"] = 0
    /\ ca' = Again(ca)
    /\ UNCHANGED <<kind, data, mover, wire, past>>

\* The pause has been noticed and is dealt with now
Remedying == Deciding /\ ca.ms.state = "PAUSED" /\ ca.pend["mover_paused"] = 1

\* Mutant: the notice is left pending
LeftPending(c) == Listens(c, "mover")

TakenUp(c) == [Listens(c, "mover") EXCEPT !.pend["mover_paused"] = 0]

\* The end of the last tape in a recover ends the image (MOVER_CLOSE)
AtLastTape == kind = "recover" /\ ca.ms.reason \in {"EOF", "SEEK"} /\ ca.tape = Tapes

Halt(agent, reason) == [agent EXCEPT !.state = "HALTED", !.reason = reason, !.notify = TRUE]

\* MOVER_CLOSE is taken in any state but IDLE, and does nothing to a HALTED mover
Closed(m) == IF m.state \in {"IDLE", "HALTED"} THEN m ELSE Halt(m, "CONNECT_CLOSED")

Aborted(m) == IF m.state \in {"LISTEN", "ACTIVE", "PAUSED"} THEN Halt(m, "ABORTED") ELSE m

ClosesLast ==
    /\ Remedying /\ AtLastTape
    /\ mover' = Closed(mover)
    /\ ca' = Again(TakenUp(ca))
    /\ Hears("mover")
    /\ UNCHANGED <<kind, data>>

\* Which remedies there are: the next tape, or the one that has a position
NextTape ==
    IF kind = "backup" THEN ca.ms.reason = "EOM" ELSE ca.ms.reason \in {"EOM", "EOF"}
OtherTape == kind = "recover" /\ ca.ms.reason = "SEEK"

Loadable(t) ==
    \/ NextTape /\ ca.tape < Tapes /\ t = ca.tape + 1
    \/ OtherTape /\ t \in 1 .. Tapes

\* ndmca_monitor_load_next and _seek_tape, as far as MOVER_CONTINUE
Remedies ==
    /\ Remedying /\ ~AtLastTape
    /\ \E t \in 1 .. Tapes :
        /\ Loadable(t)
        /\ ca' = Again([TakenUp(ca) EXCEPT !.tape = t])
    /\ mover' = IF mover.state = "PAUSED"
                THEN [mover EXCEPT !.state = "ACTIVE", !.reason = "NA"] ELSE mover
    /\ wire' = [wire EXCEPT !["mover"] = <<>>]
    /\ past' = [past EXCEPT !.refused = @ \/ mover.state # "PAUSED",
                            !.wrapped = @ \/ Wraps(ca.pend, wire["mover"])]
    /\ UNCHANGED <<kind, data>>

\* No remedy, or one that failed: MOVER_ABORT
Cancels ==
    /\ Remedying /\ ~AtLastTape
    /\ MayFail("remedy") \/ ~\E t \in 1 .. Tapes : Loadable(t)
    /\ mover' = Aborted(mover)
    /\ ca' = GivesUp(TakenUp(ca))
    /\ wire' = [wire EXCEPT !["mover"] = <<>>]
    /\ past' = [past EXCEPT !.faulty = TRUE,
                            !.wrapped = @ \/ Wraps(ca.pend, wire["mover"])]
    /\ UNCHANGED <<kind, data>>

Resting == Deciding /\ ~BothActive /\ ca.ms.state # "PAUSED"

\* Both have halted: the environment is fetched, whatever comes of it
Done ==
    /\ Resting /\ ca.ds.state = "HALTED" /\ ca.ms.state = "HALTED"
    /\ ca' = Enter([Listens(ca, "data") EXCEPT !.rc = "ok"], "shutdown")
    /\ Hears("data")
    /\ UNCHANGED <<kind, data, mover>>

\* DATA has halted and the mover has not: a recover closes it after a turn
AwaitsMover ==
    /\ Resting /\ ca.ds.state = "HALTED" /\ ca.ms.state # "HALTED"
    /\ IF kind = "recover" /\ ca.count > 0
       THEN mover' = Closed(mover) /\ ca' = Again(Listens(ca, "mover")) /\ Hears("mover")
       ELSE ca' = Again(ca) /\ UNCHANGED <<mover, wire, past>>
    /\ UNCHANGED <<kind, data>>

\* Mutant: a mover that has halted first is always wrong
UnreasonableHalt == ca.count = 0 /\ ca.ms.state # "ACTIVE"

\* A state the first turn must not find, else one more turn
Unreasonable ==
    /\ ca.count = 0 /\ ca.ms.state # "ACTIVE"
    /\ ~(kind = "backup" /\ ca.ms.state = "HALTED" /\ ca.ds.state = "ACTIVE")

AwaitsData ==
    /\ Resting /\ ca.ds.state # "HALTED"
    /\ ca' = IF Unreasonable THEN GivesUp(ca) ELSE Again(ca)
    /\ UNCHANGED <<kind, data, mover, wire, past>>

(***************************************************************************)
(* ndmca_monitor_shutdown                                                   *)
(***************************************************************************)

\* Both have halted, or nothing is done about it yet, or they are aborted
ShutdownDecides ==
    /\ ca.loop = "shutdown" /\ ca.stage = "decide"
    /\ ca' = IF ca.ds.state = "HALTED" /\ ca.ms.state = "HALTED" THEN Stops(ca)
             ELSE IF ca.count > 2 THEN [ca EXCEPT !.stage = "abort_data"]
             ELSE Again(ca)
    /\ UNCHANGED <<kind, data, mover, wire, past>>

\* DATA_ABORT is for an ACTIVE agent only
AbortsData ==
    /\ ca.stage = "abort_data"
    /\ IF ca.ds.state # "HALTED"
       THEN /\ data' = IF Reaches("data") /\ data.state = "ACTIVE"
                        THEN Halt(data, "ABORTED") ELSE data
            /\ ca' = [Listens(ca, "data") EXCEPT !.stage = "abort_mover"]
            /\ Hears("data")
       ELSE ca' = [ca EXCEPT !.stage = "abort_mover"] /\ UNCHANGED <<data, wire, past>>
    /\ UNCHANGED <<kind, mover>>

AbortsMover ==
    /\ ca.stage = "abort_mover"
    /\ IF ca.ms.state # "HALTED"
       THEN /\ mover' = IF Reaches("mover") THEN Aborted(mover) ELSE mover
            /\ ca' = Again(Listens(ca, "mover"))
            /\ Hears("mover")
       ELSE ca' = Again(ca) /\ UNCHANGED <<mover, wire, past>>
    /\ UNCHANGED <<kind, data>>

\* DATA_STOP and MOVER_STOP are for a HALTED agent
Stopped(agent) ==
    IF agent.state = "HALTED" THEN [agent EXCEPT !.state = "IDLE", !.reason = "NA"] ELSE agent

StopsData ==
    /\ ca.stage = "stop_data"
    /\ data' = IF Reaches("data") THEN Stopped(data) ELSE data
    /\ ca' = [Listens(ca, "data") EXCEPT !.stage = "stop_mover"]
    /\ wire' = [wire EXCEPT !["data"] = <<>>]
    /\ past' = [past EXCEPT !.data = IF data.state = "HALTED" THEN data.reason ELSE @,
                            !.wrapped = @ \/ Wraps(ca.pend, wire["data"])]
    /\ UNCHANGED <<kind, mover>>

StopsMover ==
    /\ ca.stage = "stop_mover"
    /\ mover' = IF Reaches("mover") THEN Stopped(mover) ELSE mover
    /\ ca' = Enter(Listens(ca, "mover"), "stopping")
    /\ wire' = [wire EXCEPT !["mover"] = <<>>]
    /\ past' = [past EXCEPT !.mover = IF mover.state = "HALTED" THEN mover.reason ELSE @,
                            !.wrapped = @ \/ Wraps(ca.pend, wire["mover"])]
    /\ UNCHANGED <<kind, data>>

StoppingDecides ==
    /\ ca.loop = "stopping" /\ ca.stage = "decide"
    /\ ca' = IF ca.ds.state = "IDLE" /\ ca.ms.state = "IDLE"
             THEN [ca EXCEPT !.loop = "ended"] ELSE Again(ca)
    /\ UNCHANGED <<kind, data, mover, wire, past>>

(***************************************************************************)
(* The agents                                                               *)
(***************************************************************************)

DataNotifies ==
    /\ data.notify /\ data.state # "IDLE"
    /\ wire' = [wire EXCEPT !["data"] = Append(@, "data_halted")]
    /\ data' = [data EXCEPT !.notify = FALSE]
    /\ UNCHANGED <<kind, mover, ca, past>>

MoverNotifies ==
    /\ mover.notify /\ mover.state \in {"PAUSED", "HALTED"}
    /\ wire' = [wire EXCEPT !["mover"] =
                  Append(@, IF mover.state = "PAUSED" THEN "mover_paused" ELSE "mover_halted")]
    /\ mover' = [mover EXCEPT !.notify = FALSE]
    /\ UNCHANGED <<kind, data, ca, past>>

\* The formatter has done: all of the image, or all it wanted of it
DataEnds ==
    /\ data.state = "ACTIVE" /\ ~data.asking /\ data.reads = 0
    /\ data' = Halt(data, "SUCCESSFUL")
    /\ UNCHANGED <<kind, mover, wire, ca, past>>

\* A recover's formatter has found the end before all it asked for has come
DataEndsEarly ==
    /\ data.state = "ACTIVE" /\ data.asking /\ mover.reading
    /\ data' = [Halt(data, "SUCCESSFUL") EXCEPT !.asking = FALSE]
    /\ UNCHANGED <<kind, mover, wire, ca, past>>

DataFails ==
    /\ MayFail("data")
    /\ data.state = "ACTIVE"
    /\ data' = Halt(data, "INTERNAL_ERROR")
    /\ past' = [past EXCEPT !.faulty = TRUE]
    /\ UNCHANGED <<kind, mover, wire, ca>>

\* The formatter of a recover asks for a part of the image (NOTIFY_DATA_READ)
DataAsks ==
    /\ kind = "recover"
    /\ data.state = "ACTIVE" /\ ~data.asking /\ data.reads > 0
    /\ data' = [data EXCEPT !.asking = TRUE, !.reads = @ - 1]
    /\ wire' = [wire EXCEPT !["data"] = Append(@, "data_read")]
    /\ UNCHANGED <<kind, mover, ca, past>>

MoverAccepts ==
    /\ mover.state = "LISTEN"
    /\ mover' = Accepted(mover)
    /\ UNCHANGED <<kind, data, wire, ca, past>>

\* The tape is full, ends, or is the wrong one
MoverPauses ==
    /\ mover.state = "ACTIVE" /\ mover.pauses > 0
    /\ kind = "recover" => mover.reading
    /\ \E reason \in (IF kind = "backup" THEN {"EOM"} ELSE {"EOF", "SEEK"}) :
         mover' = [mover EXCEPT !.state = "PAUSED", !.reason = reason, !.notify = TRUE,
                                !.pauses = @ - 1]
    /\ UNCHANGED <<kind, data, wire, ca, past>>

MediaFails ==
    /\ MayFail("media")
    /\ mover.state = "ACTIVE"
    /\ mover' = [mover EXCEPT !.state = "PAUSED", !.reason = "MEDIA_ERROR", !.notify = TRUE]
    /\ past' = [past EXCEPT !.faulty = TRUE]
    /\ UNCHANGED <<kind, data, wire, ca>>

\* What the formatter asked for has reached it
MoverServes ==
    /\ mover.state = "ACTIVE" /\ mover.reading
    /\ mover' = [mover EXCEPT !.reading = FALSE]
    /\ data' = [data EXCEPT !.asking = FALSE]
    /\ UNCHANGED <<kind, wire, ca, past>>

\* The stream's end has come through, or its other end is gone
MoverSeesEnd ==
    /\ mover.state = "ACTIVE" /\ data.state = "HALTED"
    /\ kind = "recover" => mover.reading
    /\ mover' = Halt(mover, "CONNECT_CLOSED")
    /\ UNCHANGED <<kind, data, wire, ca, past>>

\* The mover closed the stream of a recover, and the formatter ends with it
DataSeesEnd ==
    /\ kind = "recover" /\ mover.state = "HALTED"
    /\ data.state = "ACTIVE"
    /\ data' = Halt(data, "SUCCESSFUL")
    /\ UNCHANGED <<kind, mover, wire, ca, past>>

(***************************************************************************)
(* DATA_START_xxx has been answered                                         *)
(***************************************************************************)
Init ==
    /\ kind \in Kinds
    /\ data = [state |-> "ACTIVE", reason |-> "NA", notify |-> FALSE, asking |-> FALSE,
               reads |-> IF kind = "recover" THEN Reads ELSE 0]
    /\ mover = [state |-> "LISTEN", reason |-> "NA", notify |-> FALSE, reading |-> FALSE,
                pauses |-> Pauses]
    /\ wire = [a \in Agents |-> <<>>]
    /\ ca = [loop |-> "startup", stage |-> "data", count |-> 0, turned |-> FALSE,
             ds |-> Unknown, ms |-> Unknown, failed |-> FALSE,
             pend |-> [n \in Notices |-> 0], tape |-> 1, lost |-> {}, rc |-> "none", finish |-> "none"]
    /\ past = [data |-> "NA", mover |-> "NA", expired |-> 0, faulty |-> FALSE,
               wrapped |-> FALSE, refused |-> FALSE]

Control ==
    \/ GetsData \/ GetsMover \/ StartupDecides \/ PassesRead \/ NoRead \/ GoesOn
    \/ AwaitsPauseNotice \/ ClosesLast \/ Remedies \/ Cancels \/ Done \/ AwaitsMover
    \/ AwaitsData \/ ShutdownDecides \/ AbortsData \/ AbortsMover \/ StopsData
    \/ StopsMover \/ StoppingDecides

AgentsRun ==
    \/ DataNotifies \/ MoverNotifies \/ DataEnds \/ DataAsks \/ MoverAccepts
    \/ MoverServes \/ MoverSeesEnd

Ended == ca.loop = "ended" /\ UNCHANGED vars

Next ==
    \/ Control \/ WaitTurns \/ WaitExpires \/ AgentsRun
    \/ DataEndsEarly \/ DataFails \/ MediaFails \/ MoverPauses \/ DataSeesEnd \/ Ended

\* The CONTROL agent runs and its time passes, what is sent arrives, and the
\* agents do their work
Fairness ==
    /\ WF_vars(Control) /\ WF_vars(WaitTurns) /\ WF_vars(WaitExpires)
    /\ WF_vars(DataNotifies) /\ WF_vars(MoverNotifies) /\ WF_vars(DataEnds)
    /\ WF_vars(DataAsks) /\ WF_vars(MoverAccepts) /\ WF_vars(MoverServes)
    /\ WF_vars(MoverSeesEnd)

Spec == Init /\ [][Next]_vars /\ Fairness

(***************************************************************************)
(* Properties                                                               *)
(***************************************************************************)

\* An operation that "ended OKAY" is one whose agents really halted so: the copies
\* the CONTROL agent decides by are out of date in no way that matters, and nothing
\* it did itself to either agent counts as success (ndmca_monitor_shutdown)
OkayMeansDone ==
    ca.finish = "okay" /\ ca.loop \in {"stopping", "ended"} =>
        past.data = "SUCCESSFUL" /\ past.mover = "CONNECT_CLOSED"

\* No notice arrives while one of its kind is still pending: the second would
\* turn the one-bit flag back to 0 and both would be lost (ndmagents.h:264-279)
NoticesCounted == ~past.wrapped

\* What the CONTROL agent asks for on the strength of a notice and of its copies
\* is still possible when the request arrives, as long as nothing has failed and no
\* reply was called late: no MOVER_CONTINUE finds the mover not paused, no
\* MOVER_READ finds it paused or with a read to serve
RequestsFit == past.refused => past.faulty

\* Without any fault an operation is given up only after waits that expired: a count
\* that grows with tapes, reads and halts alone does not reach its end, and copies
\* taken while both agents are halting do not look unreasonable
GivenUpOnlyWhenSlow ==
    ca.rc = "failed" /\ ~past.faulty => past.expired >= Slow

\* The operation comes to an end, whatever the agents and the connections do
JobEnds == <>(ca.loop = "ended")
=============================================================================
