------------------------- MODULE SessionProperties -------------------------
(***************************************************************************)
(* What is claimed of a session: how its three state machines fit together, *)
(* that the image is neither lost nor duplicated on its way, that a state   *)
(* the CONTROL agent waits for is told, and that a backup comes to an end.  *)
(***************************************************************************)
EXTENDS Session

\* The variables hold what their C counterparts can: the enumerations, a
\* channel that never holds more than its buffer, counts that stay in range.
TypeOK ==
    /\ is \in Stream /\ mover \in Mover /\ tape \in {"CLOSED", "RO", "RW"}
    /\ data \in Data /\ fmt \in Formatter /\ acct \in Account
    /\ told \in [mover : {"none", "PAUSED", "HALTED"}, data : {"none", "HALTED"}]
    /\ pc \in {"is", "ta", "da", "poll", "dispatch", "ended", "crashed"}
    /\ goal \in {"poll", "dispatch"} /\ did \in BOOLEAN

-----------------------------------------------------------------------------
(* The two end points and the remote side.                                  *)

\* The two end points and the remote side are only ever in the combinations
\* the table of ndma_image_stream.c and its commented assertions name, and an end
\* in use is LOCAL just when no TCP peer is let in, however connects, closes,
\* aborts and failures are ordered.
EndPointPairing ==
    IF pc = "ended"
    THEN Link(is) \in {<<"IDLE", "IDLE", "IDLE">>, <<"IDLE", "IDLE", "BOTCHED">>}
    ELSE LegalStream(is)

\* A mover change applied after the drain (ndmta_mover_apply_pending) halts the
\* mover without closing its end of the stream
HaltedByDrain == mover.halt = "MEDIA_ERROR" /\ mover.mode = "WRITE"

\* Each agent's state agrees with the state of its end point: an agent that is
\* engaged has an end that is, and one that is not has let go of it, but for a
\* mover halted after the drain.
AgentsMatchStream ==
    /\ data.state \in {"CONNECTED", "ACTIVE"} =>
           is.ep["data"].cs \in {"CONNECTED", "DISCONNECTED"}
    /\ data.state = "IDLE" => is.ep["data"].cs \in {"IDLE", "REMOTE"}
    /\ data.state = "HALTED" => is.ep["data"].cs = "IDLE"
    /\ mover.state = "LISTEN" =>
           /\ is.ep["tape"].cs \in {"LISTEN", "ACCEPTED", "BOTCHED"}
           /\ data.state = "IDLE"
    /\ mover.state \in {"ACTIVE", "PAUSED"} =>
           is.ep["tape"].cs \in {"ACCEPTED", "CONNECTED", "DISCONNECTED"}
    /\ mover.state \in {"IDLE", "HALTED"} /\ ~HaltedByDrain =>
           is.ep["tape"].cs \in {"IDLE", "REMOTE"}

\* The three together are preserved by every step of the session
SessionInv == TypeOK /\ EndPointPairing /\ AgentsMatchStream

-----------------------------------------------------------------------------
(* The image.                                                               *)

InFlight == is.chan.n + fmt.img

\* While the DATA agent is at work, or a mover with a TCP peer is, every unit
\* that entered the session is in one of the two buffers or has left it, and
\* nothing else has but the zeroes that fill the last record.
ImageConserved ==
    /\ data.state = "ACTIVE" => acct.made + acct.pad = acct.out + InFlight
    /\ mover.addr = "TCP" /\ mover.state \in {"ACTIVE", "PAUSED"} =>
           acct.made + acct.pad = acct.out + is.chan.n

\* A backup the DATA agent reports SUCCESSFUL is wholly on the tape, or with
\* the TCP peer, however the mover paused, halted or was aborted meanwhile.
BackupComplete ==
    data.state = "HALTED" /\ data.op = "BACKUP" /\ data.halt = "SUCCESSFUL" =>
        acct.made + acct.pad = acct.out

\* The mover calls the connection closed only when all that entered the
\* session is on the tape, unless the DATA agent was aborted under it.
ClosedMeansWritten ==
    [][mover.state = "ACTIVE" /\ mover'.state = "HALTED"
           /\ mover'.halt = "CONNECT_CLOSED" /\ pc = "ta"
           /\ (data.state = "ACTIVE" \/ mover.addr = "TCP")
       => acct'.out = acct'.made + acct'.pad]_vars

-----------------------------------------------------------------------------
(* Notices and progress.                                                    *)

MoverNotice ==
    mover.state \in {"PAUSED", "HALTED"} =>
        mover.notify \/ told.mover = mover.state

DataNotice == data.state = "HALTED" => data.notify \/ told.data = "HALTED"

\* A state the CONTROL agent waits for is told or is about to be, whatever was
\* pending when the agent came to it.
NoticeNotLost == MoverNotice /\ DataNotice

\* Once the DATA agent has halted, a local mover writing its image to tape does
\* not stay ACTIVE: it drains the stream, and pauses or halts.
MoverSeesTheEnd ==
    (/\ data.state = "HALTED"
     /\ mover.state = "ACTIVE" /\ mover.mode = "READ" /\ mover.addr = "LOCAL")
        ~> mover.state # "ACTIVE"

\* Once the formatter has ended, a local backup does not stay as it is: the
\* DATA agent halts, or the mover has stopped taking the image.
BackupEnds ==
    (/\ data.state = "ACTIVE" /\ data.op = "BACKUP" /\ data.addr = "LOCAL"
     /\ fmt.imgEof)
        ~> (data.state # "ACTIVE" \/ mover.state # "ACTIVE")

-----------------------------------------------------------------------------
(* What a session that backs up between its own agents implements.          *)

Verdict ==
    CASE data.state = "ACTIVE" -> "open"
      [] data.state = "HALTED" /\ data.halt = "SUCCESSFUL" -> "complete"
      [] data.state = "HALTED" /\ data.halt # "SUCCESSFUL" -> "failed"
      [] OTHER -> "none"

Pipe == INSTANCE BackupPipe WITH
            made <- acct.made,
            kept <- Least(acct.out, acct.made),
            verdict <- Verdict

\* A LOCAL backup session implements BackupPipe.
ImplementsPipe == Pipe!Spec

=============================================================================
