---------------------------- MODULE ImageStream ----------------------------
(***************************************************************************)
(* The image stream of an NDMP session: two end points, DATA and TAPE, the  *)
(* "remote" side that stands for a TCP peer, and the one channel the image  *)
(* flows through (ndma_image_stream.c, ndml_chan.c).  The C functions take  *)
(* a "mine" and a "peer" end point; here a side and its Peer.  Every        *)
(* operator maps the stream before the call to the stream after it, so that *)
(* the agents' handlers can chain the calls the way the C handlers do.      *)
(***************************************************************************)
EXTENDS Naturals

CONSTANT ChanSize       \* bytes the channel's buffer holds, in units

ASSUME ChanSizeAssumption == ChanSize \in Nat \ {0}

Side == {"data", "tape"}

Peer(side) == IF side = "data" THEN "tape" ELSE "data"

\* ndmis_connect_status; CLOSED is declared and never assigned
ConnectStatus == {"IDLE", "LISTEN", "ACCEPTED", "CONNECTED", "DISCONNECTED",
                  "BOTCHED", "REMOTE", "EXCLUDE"}

AddrType == {"LOCAL", "TCP"}

TransferMode == {"IDLE", "READ", "WRITE"}

EndPoint == [cs : ConnectStatus, addr : AddrType, mode : TransferMode]

ChanMode == {"IDLE", "RESIDENT", "PENDING", "READ", "WRITE"}

\* n is end_ix - beg_ix: what has been put in the buffer and not taken out
Chan == [mode : ChanMode, n : 0 .. ChanSize, eof : BOOLEAN, error : BOOLEAN,
         errno : BOOLEAN]

\* ready is listen_chan.ready: poll() has seen a peer connecting
Stream == [ep : [Side -> EndPoint], remote : ConnectStatus, ready : BOOLEAN,
           chan : Chan]

\* What NDMOS_MACRO_ZEROFILL leaves: every enumeration at its first value
ZeroEndPoint == [cs |-> "IDLE", addr |-> "LOCAL", mode |-> "IDLE"]

ZeroChan == [mode |-> "IDLE", n |-> 0, eof |-> FALSE, error |-> FALSE,
             errno |-> FALSE]

InitStream == [ep |-> [side \in Side |-> ZeroEndPoint], remote |-> "IDLE",
               ready |-> FALSE, chan |-> ZeroChan]

\* Mutation: what is in the buffer is not counted
WholeBuffer(stream) == ChanSize

\* ndmchan_n_avail(): what still fits, once the buffer is compressed
Room(stream) == ChanSize - stream.chan.n

(***************************************************************************)
(* Audits: what the dispatcher asks before it lets an agent go on.          *)
(***************************************************************************)
CanListen(is, side) ==
    /\ is.ep[side].cs = "IDLE"
    /\ is.ep[Peer(side)].cs = "IDLE"

CanConnect(is, side, addr) ==
    /\ is.ep[side].cs = "IDLE"
    /\ addr = "LOCAL" => /\ is.ep[Peer(side)].cs = "LISTEN"
                         /\ is.ep[Peer(side)].addr = "LOCAL"
    /\ addr = "TCP" => is.ep[Peer(side)].cs = "IDLE"

(***************************************************************************)
(* Listening, connecting and starting.                                      *)
(***************************************************************************)
Ends(side, mine, peer) == [s \in Side |-> IF s = side THEN mine ELSE peer]

Listen(is, side, addr) ==
    LET mine == [is.ep[side] EXCEPT !.cs = "LISTEN", !.addr = addr]
        peer == is.ep[Peer(side)]
    IN  IF addr = "LOCAL"
        THEN [is EXCEPT !.ep = Ends(side, mine, peer), !.remote = "EXCLUDE"]
        ELSE [is EXCEPT !.ep = Ends(side, mine, [peer EXCEPT !.cs = "REMOTE"]),
                        !.remote = "LISTEN"]

Connect(is, side, addr) ==
    LET mine == [is.ep[side] EXCEPT !.cs = "CONNECTED", !.addr = addr]
        peer == is.ep[Peer(side)]
    IN  IF addr = "LOCAL"
        THEN [is EXCEPT !.ep = Ends(side, mine, [peer EXCEPT !.cs = "ACCEPTED"]),
                        !.remote = "EXCLUDE"]
        ELSE [is EXCEPT !.ep = Ends(side, mine, [peer EXCEPT !.cs = "REMOTE"]),
                        !.remote = "CONNECTED",
                        !.chan = [@ EXCEPT !.mode = "PENDING"]]

\* No caller looks at the error returns: a refused start changes nothing
Start(is, side, mode) ==
    LET mine == is.ep[side]
        peer == is.ep[Peer(side)]
        to   == IF mode = "WRITE" THEN "READ" ELSE "WRITE"
    IN  IF mine.cs \notin {"CONNECTED", "ACCEPTED"} \/ mine.mode # "IDLE"
        THEN is
        ELSE IF mine.addr = "LOCAL"
        THEN [is EXCEPT !.ep = Ends(side, [mine EXCEPT !.mode = mode],
                                          [peer EXCEPT !.mode = to]),
                        !.chan = [@ EXCEPT !.mode = "RESIDENT"]]
        ELSE [is EXCEPT !.ep = Ends(side, [mine EXCEPT !.mode = mode], peer),
                        !.chan = [@ EXCEPT !.mode = mode]]

\* tcp_accept(): the side that listens gets the connection, or the blame
Accept(is, side, ok) ==
    LET status == IF ok THEN "ACCEPTED" ELSE "BOTCHED"
        mine   == [is.ep[side] EXCEPT !.cs = status]
    IN  [is EXCEPT !.ep = Ends(side, mine, is.ep[Peer(side)]),
                   !.remote = status,
                   !.chan = IF ok THEN [@ EXCEPT !.mode = "PENDING"] ELSE @]

(***************************************************************************)
(* Closing one end.                                                         *)
(***************************************************************************)
\* Also ndmis_tcp_close(), which cleans up the channels it then initializes
ReinitRemote(is) ==
    [is EXCEPT !.remote = "IDLE", !.ready = FALSE, !.chan = ZeroChan]

\* Mutation: the case of one status copied to the other
SameStatus(mine, peer) ==
    mine.addr = "LOCAL" /\ mine.cs = peer.cs /\ mine.cs \in {"ACCEPTED", "CONNECTED"}

\* The two ends of a LOCAL connection; the C switch has one case for each
LocalPair(mine, peer) ==
    mine.addr = "LOCAL" /\ {mine.cs, peer.cs} = {"ACCEPTED", "CONNECTED"}

\* Mutation: what the peer has not read is gone with "mine"
HungUpEmptied(chan, mine) ==
    [chan EXCEPT !.eof = TRUE, !.error = @ \/ mine.mode = "READ", !.n = 0]

\* Mutation: only the peer that writes is told
HungUpOnWriter(chan, mine) == [chan EXCEPT !.error = @ \/ mine.mode = "READ"]

\* What the peer of a LOCAL connection reads and writes once "mine" is gone
HungUp(chan, mine) ==
    [chan EXCEPT !.eof = TRUE, !.error = @ \/ mine.mode = "READ"]

\* The peer's end after "mine" closes: a TCP peer is released with the remote
\* side, a LOCAL one is DISCONNECTED.  What the code calls messy leaves it alone.
PeerAfter(mine, peer) ==
    IF /\ mine.addr = "TCP" /\ mine.cs \in {"LISTEN", "ACCEPTED", "CONNECTED"}
       /\ peer.cs = "REMOTE"
    THEN [peer EXCEPT !.cs = "IDLE"]
    ELSE IF LocalPair(mine, peer)
    THEN [peer EXCEPT !.cs = "DISCONNECTED"]
    ELSE peer

\* The remote side and the channel are reinitialized by every close but that of
\* the first end of a LOCAL connection and the messy ones
Reinits(mine) ==
    \/ mine.cs \in {"LISTEN", "DISCONNECTED"}
    \/ mine.cs \in {"ACCEPTED", "CONNECTED"} /\ mine.addr = "TCP"

Close(is, side) ==
    LET mine == is.ep[side]
        peer == is.ep[Peer(side)]
        ends == Ends(side, ZeroEndPoint, PeerAfter(mine, peer))
    IN  IF mine.cs = "IDLE"
        THEN is
        ELSE IF Reinits(mine)
        THEN [ReinitRemote(is) EXCEPT !.ep = ends]
        ELSE IF LocalPair(mine, peer)
        THEN [is EXCEPT !.ep = ends, !.chan = HungUp(@, mine)]
        ELSE [is EXCEPT !.ep = ends]

(***************************************************************************)
(* What the two ends and the remote side may be together.                   *)
(***************************************************************************)
\* <<DATA, TAPE, remote>>
Link(is) == <<is.ep["data"].cs, is.ep["tape"].cs, is.remote>>

LocalLink == {<<"IDLE", "LISTEN", "EXCLUDE">>,
              <<"CONNECTED", "ACCEPTED", "EXCLUDE">>,
              <<"IDLE", "DISCONNECTED", "EXCLUDE">>,
              <<"DISCONNECTED", "IDLE", "EXCLUDE">>}

RemoteLink == {<<"REMOTE", "LISTEN", "LISTEN">>,
               <<"REMOTE", "ACCEPTED", "ACCEPTED">>,
               <<"REMOTE", "CONNECTED", "CONNECTED">>,
               <<"CONNECTED", "REMOTE", "CONNECTED">>}

\* An accept() that failed, before and after the mover lets go of its end
BotchedLink == {<<"REMOTE", "BOTCHED", "BOTCHED">>,
                <<"REMOTE", "IDLE", "BOTCHED">>}

LegalLink == {<<"IDLE", "IDLE", "IDLE">>} \cup LocalLink \cup RemoteLink
                                          \cup BotchedLink

\* An end in use is LOCAL if and only if no TCP peer is let in
AddrsAgree(is) ==
    \A side \in Side :
        is.ep[side].cs \in {"LISTEN", "ACCEPTED", "CONNECTED"} =>
            (is.ep[side].addr = "LOCAL" <=> is.remote = "EXCLUDE")

LegalStream(is) == Link(is) \in LegalLink /\ AddrsAgree(is)

=============================================================================
