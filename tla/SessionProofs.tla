--------------------------- MODULE SessionProofs ---------------------------
(***************************************************************************)
(* SessionInv is an invariant of the session, for every size of record,     *)
(* buffer and job, every set of addresses, operations and faults.  First    *)
(* the lemmas about the image stream's operators, then one lemma for each   *)
(* action of the session, or for the actions that change the same things.   *)
(***************************************************************************)
EXTENDS SessionProperties, TLAPS

-----------------------------------------------------------------------------
(* What each operator of the stream makes of each end.                      *)

LEMMA ZeroType == ZeroEndPoint \in EndPoint /\ ZeroChan \in Chan
BY ChanSizeAssumption DEF ZeroEndPoint, EndPoint, ZeroChan, Chan, ConnectStatus,
   AddrType, TransferMode, ChanMode

LEMMA InitStreamType == InitStream \in Stream
BY ZeroType DEF InitStream, Stream, ConnectStatus

LEMMA ReinitType ==
    ASSUME NEW s \in Stream PROVE ReinitRemote(s) \in Stream
BY ZeroType DEF ReinitRemote, Stream, ConnectStatus

LEMMA EndsType ==
    ASSUME NEW side \in Side, NEW mine \in EndPoint, NEW peer \in EndPoint
    PROVE  /\ Ends(side, mine, peer) \in [Side -> EndPoint]
           /\ Ends(side, mine, peer)[side] = mine
           /\ Ends(side, mine, peer)[Peer(side)] = peer
BY DEF Ends, Side, Peer

LEMMA EndTypes ==
    ASSUME NEW s \in Stream, NEW side \in Side
    PROVE  /\ s.ep[side] \in EndPoint /\ s.ep[Peer(side)] \in EndPoint
           /\ s.chan \in Chan
BY DEF Stream, Side, Peer

LEMMA EndSetType ==
    ASSUME NEW e \in EndPoint, NEW cs \in ConnectStatus, NEW addr \in AddrType,
           NEW mode \in TransferMode
    PROVE  /\ [e EXCEPT !.cs = cs] \in EndPoint
           /\ [e EXCEPT !.cs = cs, !.addr = addr] \in EndPoint
           /\ [e EXCEPT !.mode = mode] \in EndPoint
BY DEF EndPoint

LEMMA ListenType ==
    ASSUME NEW s \in Stream, NEW side \in Side, NEW addr \in AddrType
    PROVE  Listen(s, side, addr) \in Stream
<1> DEFINE mine == [s.ep[side] EXCEPT !.cs = "LISTEN", !.addr = addr]
           peer == s.ep[Peer(side)]
<1>1. mine \in EndPoint /\ peer \in EndPoint
      /\ [peer EXCEPT !.cs = "REMOTE"] \in EndPoint
  BY EndTypes, EndSetType DEF ConnectStatus, AddrType, TransferMode
<1>2. /\ Ends(side, mine, peer) \in [Side -> EndPoint]
      /\ Ends(side, mine, [peer EXCEPT !.cs = "REMOTE"]) \in [Side -> EndPoint]
  BY <1>1, EndsType
<1> QED BY <1>2 DEF Listen, Stream, ConnectStatus

LEMMA ConnectType ==
    ASSUME NEW s \in Stream, NEW side \in Side, NEW addr \in AddrType
    PROVE  Connect(s, side, addr) \in Stream
<1> DEFINE mine == [s.ep[side] EXCEPT !.cs = "CONNECTED", !.addr = addr]
           acc  == [s.ep[Peer(side)] EXCEPT !.cs = "ACCEPTED"]
           rem  == [s.ep[Peer(side)] EXCEPT !.cs = "REMOTE"]
<1>1. mine \in EndPoint /\ acc \in EndPoint /\ rem \in EndPoint
  BY EndTypes, EndSetType DEF ConnectStatus, AddrType, TransferMode
<1>2. /\ Ends(side, mine, acc) \in [Side -> EndPoint]
      /\ Ends(side, mine, rem) \in [Side -> EndPoint]
  BY <1>1, EndsType
<1>3. [s.chan EXCEPT !.mode = "PENDING"] \in Chan
  BY EndTypes DEF Chan, ChanMode
<1> QED BY <1>2, <1>3 DEF Connect, Stream, ConnectStatus

LEMMA StartType ==
    ASSUME NEW s \in Stream, NEW side \in Side, NEW mode \in {"READ", "WRITE"}
    PROVE  Start(s, side, mode) \in Stream
<1> DEFINE to   == IF mode = "WRITE" THEN "READ" ELSE "WRITE"
           mine == [s.ep[side] EXCEPT !.mode = mode]
           peer == s.ep[Peer(side)]
           met  == [peer EXCEPT !.mode = to]
<1>1. mine \in EndPoint /\ peer \in EndPoint /\ met \in EndPoint
  BY EndTypes, EndSetType DEF ConnectStatus, AddrType, TransferMode
<1>2. /\ Ends(side, mine, peer) \in [Side -> EndPoint]
      /\ Ends(side, mine, met) \in [Side -> EndPoint]
  BY <1>1, EndsType
<1>3. /\ [s.chan EXCEPT !.mode = "RESIDENT"] \in Chan
      /\ [s.chan EXCEPT !.mode = mode] \in Chan
  BY EndTypes DEF Chan, ChanMode
<1> QED BY <1>2, <1>3 DEF Start, Stream

LEMMA AcceptType ==
    ASSUME NEW s \in Stream, NEW side \in Side, NEW ok \in BOOLEAN
    PROVE  Accept(s, side, ok) \in Stream
<1> DEFINE status == IF ok THEN "ACCEPTED" ELSE "BOTCHED"
           mine   == [s.ep[side] EXCEPT !.cs = status]
           peer   == s.ep[Peer(side)]
<1>1. mine \in EndPoint /\ peer \in EndPoint
  BY EndTypes, EndSetType DEF ConnectStatus, AddrType, TransferMode
<1>2. Ends(side, mine, peer) \in [Side -> EndPoint]
  BY <1>1, EndsType
<1>3. [s.chan EXCEPT !.mode = "PENDING"] \in Chan
  BY EndTypes DEF Chan, ChanMode
<1> QED BY <1>2, <1>3 DEF Accept, Stream, ConnectStatus

LEMMA HungUpType ==
    ASSUME NEW c \in Chan, NEW mine \in EndPoint PROVE HungUp(c, mine) \in Chan
BY DEF HungUp, Chan

LEMMA CloseType ==
    ASSUME NEW s \in Stream, NEW side \in Side
    PROVE  Close(s, side) \in Stream
<1> DEFINE mine == s.ep[side]
           peer == s.ep[Peer(side)]
           ends == Ends(side, ZeroEndPoint, PeerAfter(mine, peer))
<1>1. PeerAfter(mine, peer) \in EndPoint
  BY EndTypes, EndSetType DEF PeerAfter, ConnectStatus, AddrType, TransferMode
<1>2. ends \in [Side -> EndPoint]
  BY <1>1, EndsType, ZeroType
<1>3. HungUp(s.chan, mine) \in Chan
  BY EndTypes, HungUpType
<1>4. ReinitRemote(s) \in Stream
  BY ReinitType
<1> QED BY <1>2, <1>3, <1>4 DEF Close, Stream

-----------------------------------------------------------------------------
(* What each operator does to the two ends and the remote side.             *)

LEMMA StartKeeps ==
    ASSUME NEW s \in Stream, NEW side \in Side, NEW mode \in {"READ", "WRITE"}
    PROVE  LET t == Start(s, side, mode)
           IN  /\ t.remote = s.remote
               /\ \A e \in Side : /\ t.ep[e].cs = s.ep[e].cs
                                  /\ t.ep[e].addr = s.ep[e].addr
BY DEF Start, Ends, Stream, EndPoint, Side, Peer

\* What a close leaves: mine zeroed, the peer's status, the remote side
LEMMA CloseEnds ==
    ASSUME NEW s \in Stream, NEW side \in Side, s.ep[side].cs # "IDLE"
    PROVE  LET t    == Close(s, side)
               mine == s.ep[side]
               peer == s.ep[Peer(side)]
           IN  /\ t.ep[side] = ZeroEndPoint
               /\ t.ep[Peer(side)] = PeerAfter(mine, peer)
               /\ t.remote = IF Reinits(mine) THEN "IDLE" ELSE s.remote
<1> DEFINE t    == Close(s, side)
           mine == s.ep[side]
           peer == s.ep[Peer(side)]
           ends == Ends(side, ZeroEndPoint, PeerAfter(mine, peer))
<1>1. t.ep = ends
  BY DEF Close, ReinitRemote, Stream
<1>2. t.remote = IF Reinits(mine) THEN "IDLE" ELSE s.remote
  BY DEF Close, ReinitRemote, Stream
<1>3. ends[side] = ZeroEndPoint /\ ends[Peer(side)] = PeerAfter(mine, peer)
  BY DEF Ends, Side, Peer
<1> QED BY <1>1, <1>2, <1>3

LEMMA CloseIdle ==
    ASSUME NEW s \in Stream, NEW side \in Side, s.ep[side].cs = "IDLE"
    PROVE  Close(s, side) = s
BY DEF Close

LEMMA PeerAfterStatus ==
    ASSUME NEW mine \in EndPoint, NEW peer \in EndPoint
    PROVE  LET p == PeerAfter(mine, peer)
           IN  /\ p.addr = peer.addr
               /\ p.cs = IF /\ mine.addr = "TCP" /\ peer.cs = "REMOTE"
                            /\ mine.cs \in {"LISTEN", "ACCEPTED", "CONNECTED"}
                         THEN "IDLE"
                         ELSE IF LocalPair(mine, peer) THEN "DISCONNECTED"
                         ELSE peer.cs
BY DEF PeerAfter, EndPoint

LEMMA LegalStatus ==
    ASSUME NEW s, LegalStream(s)
    PROVE  LET d == s.ep["data"].cs
               t == s.ep["tape"].cs
               r == s.remote
           IN  \/ d = "IDLE" /\ t = "IDLE" /\ r = "IDLE"
               \/ d = "IDLE" /\ t = "LISTEN" /\ r = "EXCLUDE"
               \/ d = "CONNECTED" /\ t = "ACCEPTED" /\ r = "EXCLUDE"
               \/ d = "IDLE" /\ t = "DISCONNECTED" /\ r = "EXCLUDE"
               \/ d = "DISCONNECTED" /\ t = "IDLE" /\ r = "EXCLUDE"
               \/ d = "REMOTE" /\ t = "LISTEN" /\ r = "LISTEN"
               \/ d = "REMOTE" /\ t = "ACCEPTED" /\ r = "ACCEPTED"
               \/ d = "REMOTE" /\ t = "CONNECTED" /\ r = "CONNECTED"
               \/ d = "CONNECTED" /\ t = "REMOTE" /\ r = "CONNECTED"
               \/ d = "REMOTE" /\ t = "BOTCHED" /\ r = "BOTCHED"
               \/ d = "REMOTE" /\ t = "IDLE" /\ r = "BOTCHED"
BY DEF LegalStream, Link, LegalLink, LocalLink, RemoteLink, BotchedLink

LEMMA CloseTape ==
    ASSUME NEW s \in Stream, LegalStream(s), s.ep["tape"].cs # "REMOTE"
    PROVE  LET t == Close(s, "tape")
           IN  /\ LegalStream(t)
               /\ t.ep["tape"].cs = "IDLE"
               /\ s.ep["data"].cs = "IDLE" => t.ep["data"].cs = "IDLE"
               /\ s.ep["data"].cs \in {"IDLE", "REMOTE"} =>
                      t.ep["data"].cs \in {"IDLE", "REMOTE"}
               /\ s.ep["data"].cs \in {"CONNECTED", "DISCONNECTED"} =>
                      t.ep["data"].cs = "DISCONNECTED"
<1> DEFINE t    == Close(s, "tape")
           mine == s.ep["tape"]
           peer == s.ep["data"]
<1>1. CASE mine.cs = "IDLE"
  BY <1>1, CloseIdle, LegalStatus DEF Side
<1>2. CASE mine.cs # "IDLE"
  <2>1. /\ t.ep["tape"] = ZeroEndPoint /\ t.ep["data"] = PeerAfter(mine, peer)
        /\ t.remote = IF Reinits(mine) THEN "IDLE" ELSE s.remote
    BY <1>2, CloseEnds DEF Side, Peer
  <2>2. mine \in EndPoint /\ peer \in EndPoint
    BY DEF Stream, Side
  <2>3. /\ t.ep["data"].cs = IF /\ mine.addr = "TCP" /\ peer.cs = "REMOTE"
                                /\ mine.cs \in {"LISTEN", "ACCEPTED", "CONNECTED"}
                             THEN "IDLE"
                             ELSE IF LocalPair(mine, peer) THEN "DISCONNECTED"
                             ELSE peer.cs
        /\ t.ep["tape"].cs = "IDLE"
    BY <2>1, <2>2, PeerAfterStatus DEF ZeroEndPoint
  <2>4. mine.cs \in {"LISTEN", "ACCEPTED", "CONNECTED"} =>
            (mine.addr = "TCP" <=> s.remote # "EXCLUDE")
    BY <2>2 DEF LegalStream, AddrsAgree, Side, EndPoint, AddrType
  <2>5. /\ \/ t.ep["data"].cs = "IDLE" /\ t.remote = "IDLE"
           \/ t.ep["data"].cs = "DISCONNECTED" /\ t.remote = "EXCLUDE"
           \/ t.ep["data"].cs = "REMOTE" /\ t.remote = "BOTCHED"
        /\ peer.cs = "IDLE" => t.ep["data"].cs = "IDLE"
        /\ peer.cs \in {"IDLE", "REMOTE"} => t.ep["data"].cs \in {"IDLE", "REMOTE"}
        /\ peer.cs \in {"CONNECTED", "DISCONNECTED"} =>
               t.ep["data"].cs = "DISCONNECTED"
    BY <1>2, <2>1, <2>3, <2>4, LegalStatus, <2>2
       DEF Reinits, LocalPair, EndPoint, AddrType
  <2>6. LegalStream(t)
    BY <2>3, <2>5 DEF LegalStream, AddrsAgree, Link, LegalLink, LocalLink,
                      RemoteLink, BotchedLink, Side
  <2> QED BY <2>3, <2>5, <2>6
<1> QED BY <1>1, <1>2

LEMMA CloseData ==
    ASSUME NEW s \in Stream, LegalStream(s),
           s.ep["data"].cs \in {"IDLE", "CONNECTED", "DISCONNECTED"}
    PROVE  LET t == Close(s, "data")
           IN  /\ LegalStream(t)
               /\ t.ep["data"].cs = "IDLE"
               /\ s.ep["tape"].cs \in {"IDLE", "REMOTE"} => t.ep["tape"].cs = "IDLE"
               /\ s.ep["tape"].cs = "LISTEN" => t.ep["tape"].cs = "LISTEN"
               /\ s.ep["tape"].cs \in {"ACCEPTED", "CONNECTED", "DISCONNECTED"} =>
                      t.ep["tape"].cs = "DISCONNECTED"
<1> DEFINE t    == Close(s, "data")
           mine == s.ep["data"]
           peer == s.ep["tape"]
<1>1. CASE mine.cs = "IDLE"
  BY <1>1, CloseIdle, LegalStatus DEF Side
<1>2. CASE mine.cs # "IDLE"
  <2>1. /\ t.ep["data"] = ZeroEndPoint /\ t.ep["tape"] = PeerAfter(mine, peer)
        /\ t.remote = IF Reinits(mine) THEN "IDLE" ELSE s.remote
    BY <1>2, CloseEnds DEF Side, Peer
  <2>2. mine \in EndPoint /\ peer \in EndPoint
    BY DEF Stream, Side
  <2>3. /\ t.ep["tape"].cs = IF /\ mine.addr = "TCP" /\ peer.cs = "REMOTE"
                                /\ mine.cs \in {"LISTEN", "ACCEPTED", "CONNECTED"}
                             THEN "IDLE"
                             ELSE IF LocalPair(mine, peer) THEN "DISCONNECTED"
                             ELSE peer.cs
        /\ t.ep["data"].cs = "IDLE"
    BY <2>1, <2>2, PeerAfterStatus DEF ZeroEndPoint
  <2>4. mine.cs \in {"LISTEN", "ACCEPTED", "CONNECTED"} =>
            (mine.addr = "TCP" <=> s.remote # "EXCLUDE")
    BY <2>2 DEF LegalStream, AddrsAgree, Side, EndPoint, AddrType
  <2>5. /\ \/ t.ep["tape"].cs = "IDLE" /\ t.remote = "IDLE"
           \/ t.ep["tape"].cs = "DISCONNECTED" /\ t.remote = "EXCLUDE"
        /\ peer.cs \in {"IDLE", "REMOTE"} => t.ep["tape"].cs = "IDLE"
        /\ peer.cs # "LISTEN"
        /\ peer.cs \in {"ACCEPTED", "CONNECTED", "DISCONNECTED"} =>
               t.ep["tape"].cs = "DISCONNECTED"
    BY <1>2, <2>1, <2>3, <2>4, LegalStatus, <2>2
       DEF Reinits, LocalPair, EndPoint, AddrType
  <2>6. LegalStream(t)
    BY <2>3, <2>5 DEF LegalStream, AddrsAgree, Link, LegalLink, LocalLink,
                      RemoteLink, BotchedLink, Side
  <2> QED BY <2>3, <2>5, <2>6
<1> QED BY <1>1, <1>2

\* The end of a session closes both ends, whatever state the stream is in
LEMMA CloseBoth ==
    ASSUME NEW s \in Stream, LegalStream(s)
    PROVE  Link(Close(Close(s, "data"), "tape"))
               \in {<<"IDLE", "IDLE", "IDLE">>, <<"IDLE", "IDLE", "BOTCHED">>}
<1> DEFINE t    == Close(s, "data")
           u    == Close(t, "tape")
           mine == s.ep["data"]
           peer == s.ep["tape"]
<1>1. CASE mine.cs # "REMOTE"
  <2>1. mine.cs \in {"IDLE", "CONNECTED", "DISCONNECTED"}
    BY <1>1, LegalStatus
  <2>2. /\ LegalStream(t) /\ t.ep["data"].cs = "IDLE" /\ t \in Stream
        /\ t.ep["tape"].cs # "REMOTE"
    BY <2>1, CloseData, CloseType, LegalStatus DEF Side
  <2>3. LegalStream(u) /\ u.ep["tape"].cs = "IDLE" /\ u.ep["data"].cs = "IDLE"
    BY <2>2, CloseTape
  <2> QED BY <2>3, LegalStatus DEF Link
<1>2. CASE mine.cs = "REMOTE"
  <2>1. /\ t.ep["data"] = ZeroEndPoint /\ t.ep["tape"] = PeerAfter(mine, peer)
        /\ t.remote = IF Reinits(mine) THEN "IDLE" ELSE s.remote
    BY <1>2, CloseEnds DEF Side, Peer
  <2>2. mine \in EndPoint /\ peer \in EndPoint
    BY DEF Stream, Side
  <2>3. /\ t.ep["tape"] = peer /\ t.remote = s.remote
        /\ t.ep["data"].cs = "IDLE" /\ t \in Stream
    BY <1>2, <2>1, <2>2, CloseType
       DEF PeerAfter, LocalPair, Reinits, ZeroEndPoint, Side
  <2>4. /\ peer.cs \in {"LISTEN", "ACCEPTED", "CONNECTED"} => peer.addr = "TCP"
        /\ peer.cs \notin {"LISTEN", "ACCEPTED", "CONNECTED"} =>
               peer.cs \in {"BOTCHED", "IDLE"} /\ s.remote = "BOTCHED"
    BY <1>2, <2>2, LegalStatus
       DEF LegalStream, AddrsAgree, Side, EndPoint, AddrType
  <2>5. CASE peer.cs = "IDLE"
    <3>1. u = t
      BY <2>3, <2>5, CloseIdle DEF Side
    <3> QED BY <3>1, <2>3, <2>4, <2>5 DEF Link
  <2>6. CASE peer.cs # "IDLE"
    <3>1. /\ u.ep["tape"] = ZeroEndPoint
          /\ u.ep["data"] = PeerAfter(peer, t.ep["data"])
          /\ u.remote = IF Reinits(peer) THEN "IDLE" ELSE s.remote
      BY <2>3, <2>6, CloseEnds DEF Side, Peer
    <3>2. u.ep["data"].cs = "IDLE" /\ u.ep["tape"].cs = "IDLE"
      BY <2>3, <3>1 DEF PeerAfter, LocalPair, ZeroEndPoint
    <3>3. u.remote \in {"IDLE", "BOTCHED"}
      BY <2>4, <2>6, <3>1 DEF Reinits
    <3> QED BY <3>2, <3>3 DEF Link
  <2> QED BY <2>5, <2>6
<1> QED BY <1>1, <1>2

LEMMA ListenTape ==
    ASSUME NEW s \in Stream, NEW addr \in AddrType, LegalStream(s),
           CanListen(s, "tape")
    PROVE  LET t == Listen(s, "tape", addr)
           IN  /\ LegalStream(t) /\ t.ep["tape"].cs = "LISTEN"
               /\ t.ep["data"].cs \in {"IDLE", "REMOTE"}
<1> DEFINE t    == Listen(s, "tape", addr)
           mine == [s.ep["tape"] EXCEPT !.cs = "LISTEN", !.addr = addr]
           peer == s.ep["data"]
           rem  == [peer EXCEPT !.cs = "REMOTE"]
<1>1. /\ t.ep["tape"] = mine
      /\ t.ep["data"] = IF addr = "LOCAL" THEN peer ELSE rem
      /\ t.remote = IF addr = "LOCAL" THEN "EXCLUDE" ELSE "LISTEN"
  BY DEF Listen, Ends, Side, Peer, Stream
<1>2. peer.cs = "IDLE" /\ mine.cs = "LISTEN" /\ mine.addr = addr
      /\ rem.cs = "REMOTE"
  BY DEF CanListen, Peer, Stream, Side, EndPoint
<1> QED BY <1>1, <1>2 DEF LegalStream, AddrsAgree, Link, LegalLink, LocalLink,
                          RemoteLink, BotchedLink, Side, AddrType

LEMMA ConnectSide ==
    ASSUME NEW s \in Stream, NEW side \in Side, NEW addr \in AddrType,
           LegalStream(s), CanConnect(s, side, addr),
           side = "tape" => addr = "TCP"
    PROVE  LET t == Connect(s, side, addr)
           IN  /\ LegalStream(t) /\ t.ep[side].cs = "CONNECTED"
               /\ t.ep[Peer(side)].cs = IF addr = "LOCAL" THEN "ACCEPTED" ELSE "REMOTE"
<1> DEFINE t    == Connect(s, side, addr)
           mine == [s.ep[side] EXCEPT !.cs = "CONNECTED", !.addr = addr]
           peer == s.ep[Peer(side)]
           acc  == [peer EXCEPT !.cs = "ACCEPTED"]
           rem  == [peer EXCEPT !.cs = "REMOTE"]
<1>1. /\ t.ep[side] = mine
      /\ t.ep[Peer(side)] = IF addr = "LOCAL" THEN acc ELSE rem
      /\ t.remote = IF addr = "LOCAL" THEN "EXCLUDE" ELSE "CONNECTED"
  BY DEF Connect, Ends, Side, Peer, Stream
<1>2. /\ mine.cs = "CONNECTED" /\ mine.addr = addr
      /\ rem.cs = "REMOTE" /\ acc.cs = "ACCEPTED" /\ acc.addr = peer.addr
  BY DEF Peer, Stream, Side, EndPoint
<1>3. addr = "LOCAL" => peer.addr = "LOCAL"
  BY DEF CanConnect
<1>4. /\ side = "data" => t.ep["data"].cs = "CONNECTED" /\ t.ep["data"].addr = addr
      /\ side = "tape" => t.ep["tape"].cs = "CONNECTED" /\ t.ep["tape"].addr = addr
  BY <1>1, <1>2
<1>5. LET cs == IF addr = "LOCAL" THEN "ACCEPTED" ELSE "REMOTE"
      IN  /\ side = "data" => t.ep["tape"].cs = cs
          /\ side = "tape" => t.ep["data"].cs = cs
  BY <1>1, <1>2 DEF Peer
<1>6. side = "data" /\ addr = "LOCAL" => t.ep["tape"].addr = "LOCAL"
  BY <1>1, <1>2, <1>3 DEF Peer
<1>7. t.remote = IF addr = "LOCAL" THEN "EXCLUDE" ELSE "CONNECTED"
  BY <1>1
<1> HIDE DEF t
<1>8. AddrsAgree(t)
  BY <1>4, <1>5, <1>6, <1>7 DEF AddrsAgree, Side, AddrType
<1>9. Link(t) \in LegalLink
  BY <1>4, <1>5, <1>7 DEF Link, LegalLink, LocalLink, RemoteLink, Side, AddrType
<1> QED BY <1>4, <1>5, <1>8, <1>9 DEF LegalStream, t, Peer, Side

LEMMA AcceptTape ==
    ASSUME NEW s \in Stream, NEW ok \in BOOLEAN, LegalStream(s),
           s.ep["tape"].cs = "LISTEN", s.remote = "LISTEN"
    PROVE  LET t == Accept(s, "tape", ok)
           IN  /\ LegalStream(t) /\ t.ep["data"] = s.ep["data"]
               /\ t.ep["tape"].cs \in {"ACCEPTED", "BOTCHED"}
<1> DEFINE t      == Accept(s, "tape", ok)
           status == IF ok THEN "ACCEPTED" ELSE "BOTCHED"
           mine   == [s.ep["tape"] EXCEPT !.cs = status]
<1>1. t.ep["tape"] = mine /\ t.ep["data"] = s.ep["data"] /\ t.remote = status
  BY DEF Accept, Ends, Side, Peer, Stream
<1>2. mine.cs = status /\ mine.addr = s.ep["tape"].addr
  BY DEF Stream, Side, EndPoint
<1>3. s.ep["data"].cs = "REMOTE" /\ s.ep["tape"].addr # "LOCAL"
  BY LegalStatus DEF LegalStream, AddrsAgree, Side
<1>4. AddrsAgree(t)
  <2>1. t.ep["data"].cs = "REMOTE" /\ t.ep["tape"].addr # "LOCAL"
    BY <1>1, <1>2, <1>3
  <2>2. t.remote # "EXCLUDE"
    BY <1>1
  <2> HIDE DEF t
  <2> QED BY <2>1, <2>2 DEF AddrsAgree, Side
<1>5. Link(t) = <<"REMOTE", status, status>>
  BY <1>1, <1>2, <1>3 DEF Link
<1> QED BY <1>1, <1>2, <1>4, <1>5
        DEF LegalStream, LegalLink, RemoteLink, BotchedLink

LEMMA StartLegal ==
    ASSUME NEW s \in Stream, NEW side \in Side, NEW mode \in {"READ", "WRITE"},
           LegalStream(s)
    PROVE  LegalStream(Start(s, side, mode))
BY StartKeeps DEF LegalStream, AddrsAgree, Link, Side

-----------------------------------------------------------------------------
(* The types of what the state changes make.                                *)

LEMMA InitTypes ==
    InitMover \in Mover /\ InitData \in Data /\ NoFormatter \in Formatter
        /\ FormatterCleaned \in Formatter /\ NewAccount \in Account
<1>1. InitMover \in Mover
  BY SizesAssumption DEF InitMover, Mover, MoverState, MoverMode, HaltReason,
     PauseReason, AddrType
<1>2. InitData \in Data
  BY DEF InitData, Data, HaltReason, AddrType
<1>3. NoFormatter \in Formatter
  BY SizesAssumption DEF NoFormatter, Formatter
<1>4. FormatterCleaned \in Formatter
  BY <1>3 DEF FormatterCleaned, Formatter
<1>5. NewAccount \in Account
  BY DEF NewAccount, Account
<1> QED BY <1>1, <1>2, <1>3, <1>4, <1>5

LEMMA MoverHaltedType ==
    ASSUME NEW m \in Mover, NEW reason \in HaltReason
    PROVE  LET h == MoverHalted(m, reason)
           IN  h \in Mover /\ h.state = "HALTED" /\ h.halt = reason
                   /\ h.mode = m.mode /\ NoticeSent(h) \in Mover
                   /\ NoticeSent(h).state = "HALTED" /\ NoticeSent(h).halt = reason
                   /\ NoticeSent(h).mode = m.mode
BY DEF MoverHalted, NoticeSent, Mover, MoverState, PauseReason

LEMMA MoverPausedType ==
    ASSUME NEW m \in Mover, NEW reason \in PauseReason
    PROVE  LET p == MoverPaused(m, reason)
           IN  p \in Mover /\ p.state = "PAUSED" /\ NoticeSent(p) \in Mover
                   /\ NoticeSent(p).state = "PAUSED"
BY DEF MoverPaused, NoticeSent, Mover, MoverState, HaltReason

LEMMA MoverActiveType ==
    ASSUME NEW m \in Mover
    PROVE  LET a == MoverActive(m)
           IN  a \in Mover /\ a.state = "ACTIVE" /\ NoticeSent(a) \in Mover
                   /\ NoticeSent(a).state = "ACTIVE"
BY DEF MoverActive, NoticeSent, Mover, MoverState, HaltReason, PauseReason

LEMMA NoticeSentType ==
    ASSUME NEW m \in Mover
    PROVE  LET s == NoticeSent(m)
           IN  s \in Mover /\ s.state = m.state /\ s.halt = m.halt /\ s.mode = m.mode
BY DEF NoticeSent, Mover

LEMMA MoverAppliedType ==
    ASSUME NEW m \in Mover, m.pend # "none"
    PROVE  LET a == MoverApplied(m)
           IN  /\ a \in Mover /\ NoticeSent(a) \in Mover
               /\ \/ a.state = "PAUSED" /\ NoticeSent(a).state = "PAUSED"
                  \/ /\ a.state = "HALTED" /\ NoticeSent(a).state = "HALTED"
                     /\ NoticeSent(a).halt = "MEDIA_ERROR"
                     /\ NoticeSent(a).mode = m.mode
<1>1. CASE m.pend = "MEDIA_ERROR"
  BY <1>1, MoverHaltedType DEF MoverApplied, HaltReason
<1>2. CASE m.pend # "MEDIA_ERROR"
  <2>1. m.pend \in PauseReason
    BY <1>2 DEF Mover, PauseReason
  <2> QED BY <1>2, <2>1, MoverPausedType DEF MoverApplied
<1> QED BY <1>1, <1>2

LEMMA DataTypes ==
    ASSUME NEW d \in Data
    PROVE  /\ \A reason \in HaltReason :
                 /\ DataHalted(d, reason) \in Data
                 /\ DataHalted(d, reason).state = "HALTED"
                 /\ NoticeSent(DataHalted(d, reason)) \in Data
                 /\ NoticeSent(DataHalted(d, reason)).state = "HALTED"
           /\ DataIdled(d) \in Data /\ DataIdled(d).state = "IDLE"
           /\ NoticeSent(d) \in Data /\ NoticeSent(d).state = d.state
           /\ \A op \in DataOp : DataActive(d, op) \in Data
                                 /\ DataActive(d, op).state = "ACTIVE"
BY DEF DataHalted, DataIdled, NoticeSent, DataActive, Data, HaltReason

LEMMA ToldType ==
    ASSUME TypeOK, NEW m \in Mover, NEW d \in Data
    PROVE  /\ MoverTold(m) \in {"none", "PAUSED", "HALTED"}
           /\ DataTold(d) \in {"none", "HALTED"}
BY DEF TypeOK, MoverTold, DataTold

-----------------------------------------------------------------------------
(* Steps that leave both ends of the stream and both agents' states alone.  *)

LEMMA StreamKept ==
    ASSUME SessionInv, pc # "ended", pc' # "ended",
           is'.ep = is.ep, is'.remote = is.remote,
           data'.state = data.state, mover'.state = mover.state,
           mover'.halt = mover.halt, mover'.mode = mover.mode
    PROVE  EndPointPairing' /\ AgentsMatchStream'
<1>1. Link(is') = Link(is) /\ (AddrsAgree(is') <=> AddrsAgree(is))
  BY DEF Link, AddrsAgree
<1>2. LegalStream(is')
  BY <1>1 DEF SessionInv, EndPointPairing, LegalStream
<1>3. EndPointPairing'
  BY <1>2 DEF EndPointPairing
<1>4. AgentsMatchStream'
  BY DEF SessionInv, AgentsMatchStream, HaltedByDrain
<1> QED BY <1>3, <1>4

\* The same when the mover goes from ACTIVE to PAUSED or back
LEMMA StreamKeptPaused ==
    ASSUME SessionInv, pc # "ended", pc' # "ended",
           is'.ep = is.ep, is'.remote = is.remote,
           data'.state = data.state,
           mover.state \in {"ACTIVE", "PAUSED"},
           mover'.state \in {"ACTIVE", "PAUSED"}
    PROVE  EndPointPairing' /\ AgentsMatchStream'
<1>1. Link(is') = Link(is) /\ (AddrsAgree(is') <=> AddrsAgree(is))
  BY DEF Link, AddrsAgree
<1>2. LegalStream(is')
  BY <1>1 DEF SessionInv, EndPointPairing, LegalStream
<1>3. EndPointPairing'
  BY <1>2 DEF EndPointPairing
<1>4. AgentsMatchStream'
  BY DEF SessionInv, AgentsMatchStream, HaltedByDrain
<1> QED BY <1>3, <1>4

\* The same when the mover halts after a drain, its end left as it was
LEMMA StreamKeptDrained ==
    ASSUME SessionInv, pc # "ended", pc' # "ended",
           is'.ep = is.ep, is'.remote = is.remote,
           data'.state = data.state,
           mover'.state = "HALTED", mover'.halt = "MEDIA_ERROR",
           mover'.mode = "WRITE"
    PROVE  EndPointPairing' /\ AgentsMatchStream'
<1>1. Link(is') = Link(is) /\ (AddrsAgree(is') <=> AddrsAgree(is))
  BY DEF Link, AddrsAgree
<1>2. LegalStream(is')
  BY <1>1 DEF SessionInv, EndPointPairing, LegalStream
<1>3. EndPointPairing'
  BY <1>2 DEF EndPointPairing
<1>4. AgentsMatchStream'
  BY DEF SessionInv, AgentsMatchStream, HaltedByDrain
<1> QED BY <1>3, <1>4

\* The mover halts, or stops waiting, and closes its end
LEMMA TapeClosed ==
    ASSUME SessionInv, pc # "ended", pc' # "ended", NEW s \in Stream,
           s.ep = is.ep, s.remote = is.remote, is' = Close(s, "tape"),
           data'.state = data.state,
           mover.state \in {"LISTEN", "ACTIVE", "PAUSED"},
           mover'.state = "HALTED"
    PROVE  is' \in Stream /\ EndPointPairing' /\ AgentsMatchStream'
<1>1. Link(s) = Link(is) /\ (AddrsAgree(s) <=> AddrsAgree(is))
  BY DEF Link, AddrsAgree
<1>2. LegalStream(s)
  BY <1>1 DEF SessionInv, EndPointPairing, LegalStream
<1>3. s.ep["tape"].cs # "REMOTE"
  BY DEF SessionInv, AgentsMatchStream
<1>4. /\ LegalStream(is') /\ is'.ep["tape"].cs = "IDLE"
      /\ is.ep["data"].cs = "IDLE" => is'.ep["data"].cs = "IDLE"
      /\ is.ep["data"].cs \in {"IDLE", "REMOTE"} =>
             is'.ep["data"].cs \in {"IDLE", "REMOTE"}
      /\ is.ep["data"].cs \in {"CONNECTED", "DISCONNECTED"} =>
             is'.ep["data"].cs = "DISCONNECTED"
  BY <1>2, <1>3, CloseTape
<1>5. is' \in Stream
  BY CloseType DEF Side
<1>6. EndPointPairing'
  BY <1>4 DEF EndPointPairing
<1>7. AgentsMatchStream'
  BY <1>4 DEF SessionInv, AgentsMatchStream, HaltedByDrain
<1> QED BY <1>5, <1>6, <1>7

\* The DATA agent halts, or gives up, and closes its end
LEMMA DataClosed ==
    ASSUME SessionInv, pc # "ended", pc' # "ended", NEW s \in Stream,
           s.ep = is.ep, s.remote = is.remote, is'.ep = Close(s, "data").ep,
           is'.remote = Close(s, "data").remote,
           data.state \in {"CONNECTED", "ACTIVE", "HALTED"},
           data'.state \in {"HALTED", "IDLE"},
           mover'.state = mover.state, mover'.halt = mover.halt,
           mover'.mode = mover.mode
    PROVE  EndPointPairing' /\ AgentsMatchStream'
<1> DEFINE t == Close(s, "data")
<1>1. Link(s) = Link(is) /\ (AddrsAgree(s) <=> AddrsAgree(is))
  BY DEF Link, AddrsAgree
<1>2. LegalStream(s)
  BY <1>1 DEF SessionInv, EndPointPairing, LegalStream
<1>3. s.ep["data"].cs \in {"IDLE", "CONNECTED", "DISCONNECTED"}
  BY DEF SessionInv, AgentsMatchStream
<1>4. /\ LegalStream(t) /\ t.ep["data"].cs = "IDLE"
      /\ is.ep["tape"].cs \in {"IDLE", "REMOTE"} => t.ep["tape"].cs = "IDLE"
      /\ is.ep["tape"].cs \in {"ACCEPTED", "CONNECTED", "DISCONNECTED"} =>
             t.ep["tape"].cs = "DISCONNECTED"
  BY <1>2, <1>3, CloseData
<1> HIDE DEF t
<1>5. is'.ep = t.ep /\ is'.remote = t.remote
  BY DEF t
<1>6. LegalStream(is')
  BY <1>4, <1>5 DEF LegalStream, Link, AddrsAgree
<1>7. EndPointPairing'
  BY <1>6 DEF EndPointPairing
<1>8. AgentsMatchStream'
  BY <1>4, <1>5 DEF SessionInv, AgentsMatchStream, HaltedByDrain
<1> QED BY <1>7, <1>8

-----------------------------------------------------------------------------
(* The channel's counts stay in range.                                      *)

LEMMA ChanSet ==
    ASSUME NEW s \in Stream, NEW n \in 0 .. ChanSize, NEW eof \in BOOLEAN
    PROVE  LET t == [s EXCEPT !.chan.n = n]
               u == [s EXCEPT !.chan.n = n, !.chan.eof = eof]
           IN  /\ t \in Stream /\ t.ep = s.ep /\ t.remote = s.remote
               /\ u \in Stream /\ u.ep = s.ep /\ u.remote = s.remote
BY DEF Stream, Chan

LEMMA AccountTypes ==
    ASSUME NEW a \in Account, NEW x \in Nat, NEW y \in Nat
    PROVE  /\ [a EXCEPT !.made = @ + x] \in Account
           /\ [a EXCEPT !.asked = @ + x] \in Account
           /\ [a EXCEPT !.out = @ + x] \in Account
           /\ [a EXCEPT !.out = @ + x, !.pad = @ + y] \in Account
<1>1. /\ a.made + x \in Nat /\ a.asked + x \in Nat /\ a.out + x \in Nat
      /\ a.pad + y \in Nat
  BY DEF Account
<1>2. [a EXCEPT !.made = @ + x] \in Account
  BY <1>1 DEF Account
<1>3. [a EXCEPT !.asked = @ + x] \in Account
  BY <1>1 DEF Account
<1>4. [a EXCEPT !.out = @ + x] \in Account
  BY <1>1 DEF Account
<1>5. [a EXCEPT !.out = @ + x, !.pad = @ + y] \in Account
  <2> DEFINE b == [a EXCEPT !.out = @ + x]
  <2>1. [b EXCEPT !.pad = @ + y] \in Account
    BY <1>1, <1>4 DEF Account
  <2>2. [a EXCEPT !.out = @ + x, !.pad = @ + y] = [b EXCEPT !.pad = @ + y]
    BY DEF Account
  <2> QED BY <2>1, <2>2
<1> QED BY <1>2, <1>3, <1>4, <1>5

LEMMA Products ==
    ASSUME NEW R \in Nat \ {0}, NEW a \in Nat, NEW b \in Nat, a <= b
    PROVE  a * R \in Nat /\ b * R \in Nat /\ a * R <= b * R
<1>1. PICK d \in Nat : b = a + d
  <2>1. b - a \in Nat /\ b = a + (b - a)
    OBVIOUS
  <2> QED BY <2>1
<1>2. b * R = a * R + d * R /\ d * R \in Nat /\ a * R \in Nat
  BY <1>1
<1> QED BY <1>2

\* However many whole records leave the channel, what stays fits
LEMMA Records ==
    ASSUME NEW n \in 0 .. ChanSize, NEW p \in BOOLEAN, NEW w \in Nat,
           p => n % RecordSize > 0,
           w <= (IF p THEN n \div RecordSize + 1 ELSE n \div RecordSize)
    PROVE  LET pad == IF p /\ w >= n \div RecordSize
                      THEN RecordSize - (n % RecordSize) ELSE 0
           IN  /\ n + pad - w * RecordSize \in 0 .. ChanSize
               /\ pad \in Nat /\ w * RecordSize \in Nat
<1> DEFINE R    == RecordSize
           full == n \div R
           rest == n % R
           pad  == IF p /\ w >= full THEN R - rest ELSE 0
<1>1. R \in Nat \ {0} /\ R <= ChanSize /\ ChanSize \in Nat \ {0}
  BY SizesAssumption, ChanSizeAssumption
<1>2. /\ full \in Nat /\ rest \in Nat /\ rest < R /\ n = full * R + rest
      /\ full * R \in Nat /\ w * R \in Nat
  BY <1>1
<1>3. pad \in Nat
  BY <1>1, <1>2
<1>4. CASE w <= full /\ pad = 0
  <2>1. w * R <= full * R
    BY <1>1, <1>2, <1>4, Products
  <2> QED BY <1>1, <1>2, <1>3, <1>4, <2>1
<1>5. CASE w = full /\ pad = R - rest
  <2>1. n + pad - w * R = R
    BY <1>1, <1>2, <1>5
  <2> QED BY <1>1, <1>2, <1>3, <2>1
<1>6. CASE w = full + 1 /\ pad = R - rest
  <2>1. w * R = full * R + R
    BY <1>1, <1>2, <1>6
  <2>2. n + pad - w * R = 0
    BY <1>1, <1>2, <1>6, <2>1
  <2> QED BY <1>1, <1>2, <1>3, <2>2
<1>7. \/ w <= full /\ pad = 0
      \/ w = full /\ pad = R - rest
      \/ w = full + 1 /\ pad = R - rest
  BY <1>1, <1>2
<1> QED BY <1>4, <1>5, <1>6, <1>7

-----------------------------------------------------------------------------
(* The quanta.                                                              *)

LEMMA StreamQuantumInv ==
    ASSUME SessionInv, StreamAccepts \/ StreamIdles
    PROVE  SessionInv'
<1>1. CASE StreamAccepts
  <2>1. PICK side \in Side, ok \in BOOLEAN :
            is.ep[side].cs = "LISTEN" /\ is' = Accept(is, side, ok)
    BY <1>1 DEF StreamAccepts
  <2>2. is \in Stream /\ LegalStream(is) /\ is.remote = "LISTEN"
    BY <1>1 DEF StreamAccepts, SessionInv, TypeOK, EndPointPairing
  <2>3. side = "tape"
    BY <2>1, <2>2, LegalStatus DEF Side
  <2>4. /\ is' \in Stream /\ LegalStream(is')
        /\ is'.ep["data"] = is.ep["data"]
        /\ is'.ep["tape"].cs \in {"ACCEPTED", "BOTCHED"}
    BY <2>1, <2>2, <2>3, AcceptType, AcceptTape
  <2>5. TypeOK'
    BY <1>1, <2>4 DEF StreamAccepts, Then, SessionInv, TypeOK
  <2>6. EndPointPairing'
    BY <1>1, <2>4 DEF StreamAccepts, Then, EndPointPairing
  <2>7. mover.state = "LISTEN" \/ (mover.state \in {"IDLE", "HALTED"} /\ HaltedByDrain)
    BY <2>1, <2>3 DEF SessionInv, TypeOK, Mover, MoverState, AgentsMatchStream
  <2>8. AgentsMatchStream'
    BY <1>1, <2>4, <2>7
       DEF StreamAccepts, SessionInv, AgentsMatchStream, HaltedByDrain
  <2> QED BY <2>5, <2>6, <2>8 DEF SessionInv
<1>2. CASE StreamIdles
  <2>1. TypeOK'
    BY <1>2 DEF StreamIdles, Then, SessionInv, TypeOK
  <2>2. EndPointPairing' /\ AgentsMatchStream'
    BY <1>2, StreamKept DEF StreamIdles, Then
  <2> QED BY <2>1, <2>2 DEF SessionInv
<1> QED BY <1>1, <1>2

LEMMA MoverBecomesType ==
    ASSUME TypeOK, NEW m \in Mover, MoverBecomes(m)
    PROVE  /\ mover' = NoticeSent(m) /\ mover' \in Mover
           /\ told' \in [mover : {"none", "PAUSED", "HALTED"},
                         data : {"none", "HALTED"}]
<1>1. MoverTold(m) \in {"none", "PAUSED", "HALTED"}
  BY ToldType DEF TypeOK
<1> QED BY <1>1, NoticeSentType DEF MoverBecomes, TypeOK

LEMMA MoverRestsInv ==
    ASSUME SessionInv, MoverIdles \/ MoverRests
    PROVE  SessionInv'
<1>1. CASE MoverIdles
  <2>1. TypeOK'
    BY <1>1 DEF MoverIdles, Then, SessionInv, TypeOK
  <2>2. EndPointPairing' /\ AgentsMatchStream'
    BY <1>1, StreamKept DEF MoverIdles, Then
  <2> QED BY <2>1, <2>2 DEF SessionInv
<1>2. CASE MoverRests
  <2>1. mover \in Mover /\ TypeOK
    BY DEF SessionInv, TypeOK
  <2>2. TypeOK'
    BY <1>2, <2>1, MoverBecomesType DEF MoverRests, Then, TypeOK
  <2>3. /\ mover'.state = mover.state /\ mover'.halt = mover.halt
        /\ mover'.mode = mover.mode
    BY <1>2, <2>1, NoticeSentType DEF MoverRests, MoverBecomes
  <2>4. EndPointPairing' /\ AgentsMatchStream'
    BY <1>2, <2>3, StreamKept DEF MoverRests, Then
  <2> QED BY <2>2, <2>4 DEF SessionInv
<1> QED BY <1>1, <1>2

LEMMA MoverAwaitsInv ==
    ASSUME SessionInv, MoverAwaits
    PROVE  SessionInv'
<1> DEFINE status == is.ep["tape"].cs
<1>1. /\ mover \in Mover /\ TypeOK /\ is \in Stream /\ LegalStream(is)
      /\ mover.mode \in {"READ", "WRITE"} /\ pc = "ta" /\ mover.state = "LISTEN"
      /\ UNCHANGED <<tape, data, fmt, acct>>
  BY DEF MoverAwaits, SessionInv, TypeOK, Mover, MoverMode, EndPointPairing
<1>2. CASE status = "LISTEN"
  <2>1. MoverBecomes(mover) /\ Then("da", FALSE) /\ is' = is
    BY <1>2 DEF MoverAwaits
  <2>2. TypeOK'
    BY <1>1, <2>1, MoverBecomesType DEF Then, TypeOK
  <2>3. /\ mover'.state = mover.state /\ mover'.halt = mover.halt
        /\ mover'.mode = mover.mode
    BY <1>1, <2>1, NoticeSentType DEF MoverBecomes
  <2>4. EndPointPairing' /\ AgentsMatchStream'
    BY <1>1, <2>1, <2>3, StreamKept DEF Then
  <2> QED BY <2>2, <2>4 DEF SessionInv
<1>3. CASE status = "ACCEPTED"
  <2>1. /\ MoverBecomes(MoverActive(mover)) /\ Then("da", TRUE)
        /\ is' = Start(is, "tape", mover.mode)
    BY <1>3 DEF MoverAwaits
  <2>2. MoverActive(mover) \in Mover /\ NoticeSent(MoverActive(mover)).state = "ACTIVE"
    BY <1>1, MoverActiveType
  <2>3. /\ is' \in Stream /\ LegalStream(is')
        /\ \A e \in Side : is'.ep[e].cs = is.ep[e].cs
    BY <1>1, <2>1, StartType, StartLegal, StartKeeps DEF Side
  <2>4. TypeOK'
    BY <1>1, <2>1, <2>2, <2>3, MoverBecomesType DEF Then, TypeOK
  <2>5. EndPointPairing'
    BY <2>1, <2>3 DEF EndPointPairing, Then
  <2>6. mover'.state = "ACTIVE"
    BY <2>1, <2>2 DEF MoverBecomes
  <2>7. AgentsMatchStream'
    BY <1>1, <1>3, <2>3, <2>6 DEF SessionInv, AgentsMatchStream, Side
  <2> QED BY <2>4, <2>5, <2>7 DEF SessionInv
<1>4. CASE status \notin {"LISTEN", "ACCEPTED"}
  <2>1. /\ MoverBecomes(MoverHalted(mover, "CONNECT_ERROR")) /\ Then("da", FALSE)
        /\ is' = Close(is, "tape")
    BY <1>4 DEF MoverAwaits
  <2>2. /\ MoverHalted(mover, "CONNECT_ERROR") \in Mover
        /\ NoticeSent(MoverHalted(mover, "CONNECT_ERROR")).state = "HALTED"
    BY <1>1, MoverHaltedType DEF HaltReason
  <2>3. mover'.state = "HALTED"
    BY <2>1, <2>2 DEF MoverBecomes
  <2>4. pc # "ended" /\ pc' # "ended" /\ data'.state = data.state
    BY <1>1, <2>1 DEF Then
  <2>5. is' \in Stream /\ EndPointPairing' /\ AgentsMatchStream'
    BY <1>1, <2>1, <2>3, <2>4, TapeClosed
  <2>6. TypeOK'
    BY <1>1, <2>1, <2>2, <2>5, MoverBecomesType DEF Then, TypeOK
  <2> QED BY <2>5, <2>6 DEF SessionInv
<1> QED BY <1>2, <1>3, <1>4

\* What the mover's two transfers may come to, whatever the stop
LEMMA MoverStepInv ==
    ASSUME SessionInv, pc = "ta", mover.state = "ACTIVE",
           NEW s \in Stream, s.ep = is.ep, s.remote = is.remote,
           NEW m \in Mover, MoverBecomes(m),
           acct' \in Account, UNCHANGED <<tape, data, fmt, goal>>,
           pc' = "da", did' \in BOOLEAN,
           \/ is' = s /\ NoticeSent(m).state \in {"ACTIVE", "PAUSED"}
           \/ is' = Close(s, "tape") /\ NoticeSent(m).state = "HALTED"
           \/ /\ is' = s /\ NoticeSent(m).state = "HALTED"
              /\ NoticeSent(m).halt = "MEDIA_ERROR"
              /\ NoticeSent(m).mode = "WRITE"
    PROVE  SessionInv'
<1>1. /\ TypeOK /\ mover' = NoticeSent(m) /\ mover' \in Mover
      /\ told' \in [mover : {"none", "PAUSED", "HALTED"}, data : {"none", "HALTED"}]
      /\ data'.state = data.state /\ pc # "ended" /\ pc' # "ended"
  BY MoverBecomesType DEF SessionInv
<1>2. is' \in Stream /\ EndPointPairing' /\ AgentsMatchStream'
  <2>1. CASE is' = s /\ mover'.state \in {"ACTIVE", "PAUSED"}
    BY <1>1, <2>1, StreamKeptPaused
  <2>2. CASE is' = Close(s, "tape") /\ mover'.state = "HALTED"
    BY <1>1, <2>2, TapeClosed
  <2>3. CASE /\ is' = s /\ mover'.state = "HALTED"
             /\ mover'.halt = "MEDIA_ERROR" /\ mover'.mode = "WRITE"
    BY <1>1, <2>3, StreamKeptDrained
  <2> QED BY <1>1, <2>1, <2>2, <2>3
<1>3. TypeOK'
  BY <1>1, <1>2 DEF TypeOK
<1> QED BY <1>2, <1>3 DEF SessionInv

LEMMA MoverReadsInv ==
    ASSUME SessionInv, MoverReads
    PROVE  SessionInv'
<1> DEFINE n    == is.chan.n
           full == n \div RecordSize
           most == IF Pads(is) THEN full + 1 ELSE full
           pad(w) == IF Pads(is) /\ w >= full
                     THEN RecordSize - (n % RecordSize) ELSE 0
           is1(w) == [is EXCEPT !.chan.n = n + pad(w) - w * RecordSize]
<1>1. /\ mover \in Mover /\ TypeOK /\ is \in Stream /\ acct \in Account
      /\ n \in 0 .. ChanSize /\ pc = "ta" /\ mover.state = "ACTIVE"
      /\ UNCHANGED <<tape, data, fmt>> /\ did \in BOOLEAN
  BY DEF MoverReads, SessionInv, TypeOK, Stream, Chan
<1>2. PICK w \in 0 .. ChanSize :
         /\ w <= most
         /\ acct' = [acct EXCEPT !.out = @ + w * RecordSize, !.pad = @ + pad(w)]
         /\ \/ /\ MoverBecomes(mover) /\ is' = is1(w)
               /\ Then("da", w > 0)
            \/ /\ MoverBecomes(MoverHalted(mover,
                       IF is.chan.errno THEN "CONNECT_ERROR" ELSE "CONNECT_CLOSED"))
               /\ is' = Close(is1(w), "tape")
               /\ Then("da", TRUE)
            \/ /\ \E stop \in WriteStops :
                      IF stop = "MEDIA_ERROR"
                      THEN /\ MoverBecomes(MoverHalted(mover, stop))
                           /\ is' = Close(is1(w), "tape")
                      ELSE /\ MoverBecomes(MoverPaused(mover, stop))
                           /\ is' = is1(w)
               /\ Then("da", TRUE)
  BY DEF MoverReads
<1>3. /\ n + pad(w) - w * RecordSize \in 0 .. ChanSize
      /\ pad(w) \in Nat /\ w * RecordSize \in Nat
  <2>1. Pads(is) \in BOOLEAN /\ (Pads(is) => n % RecordSize > 0)
    BY DEF Pads
  <2>2. w \in Nat
    BY ChanSizeAssumption
  <2>3. PICK p \in BOOLEAN : p = Pads(is)
    BY <2>1
  <2>4. w <= (IF p THEN n \div RecordSize + 1 ELSE n \div RecordSize)
    BY <1>2, <2>3
  <2> DEFINE q == IF p /\ w >= n \div RecordSize
                  THEN RecordSize - (n % RecordSize) ELSE 0
  <2>5. /\ n + q - w * RecordSize \in 0 .. ChanSize
        /\ q \in Nat /\ w * RecordSize \in Nat
    BY <1>1, <2>1, <2>2, <2>3, <2>4, Records
  <2>6. pad(w) = q
    BY <2>3
  <2> HIDE DEF pad, q
  <2> QED BY <2>5, <2>6
<1>4. acct' \in Account
  <2>1. PICK x \in Nat, y \in Nat : x = w * RecordSize /\ y = pad(w)
    BY <1>3
  <2>2. acct' = [acct EXCEPT !.out = @ + x, !.pad = @ + y]
    BY <1>2, <2>1
  <2>3. acct \in Account
    BY <1>1
  <2> QED BY <2>2, <2>3, AccountTypes
<1>5. is1(w) \in Stream /\ is1(w).ep = is.ep /\ is1(w).remote = is.remote
  BY <1>1, <1>3, ChanSet
<1>6. ASSUME NEW reason \in {"CONNECT_ERROR", "CONNECT_CLOSED", "MEDIA_ERROR"}
      PROVE  /\ MoverHalted(mover, reason) \in Mover
             /\ NoticeSent(MoverHalted(mover, reason)).state = "HALTED"
  BY <1>1, <1>6, MoverHaltedType DEF HaltReason
<1>7. CASE MoverBecomes(mover) /\ is' = is1(w) /\ Then("da", w > 0)
  <2>1. NoticeSent(mover).state = "ACTIVE"
    BY <1>1, NoticeSentType
  <2>2. pc' = "da" /\ did' \in BOOLEAN /\ UNCHANGED goal
    BY <1>1, <1>7 DEF Then
  <2> HIDE DEF is1
  <2> QED BY <1>1, <1>4, <1>5, <1>7, <2>1, <2>2, MoverStepInv
<1>8. CASE /\ \E reason \in {"CONNECT_ERROR", "CONNECT_CLOSED", "MEDIA_ERROR"} :
                   MoverBecomes(MoverHalted(mover, reason))
           /\ is' = Close(is1(w), "tape")
           /\ Then("da", TRUE)
  <2>1. PICK reason \in {"CONNECT_ERROR", "CONNECT_CLOSED", "MEDIA_ERROR"} :
            MoverBecomes(MoverHalted(mover, reason))
    BY <1>8
  <2>2. pc' = "da" /\ did' \in BOOLEAN /\ UNCHANGED goal
    BY <1>1, <1>8 DEF Then
  <2> HIDE DEF is1
  <2> QED BY <1>1, <1>4, <1>5, <1>6, <1>8, <2>1, <2>2, MoverStepInv
<1>9. CASE /\ \E stop \in PauseReason : MoverBecomes(MoverPaused(mover, stop))
           /\ is' = is1(w)
           /\ Then("da", TRUE)
  <2>1. PICK stop \in PauseReason : MoverBecomes(MoverPaused(mover, stop))
    BY <1>9
  <2>2. /\ MoverPaused(mover, stop) \in Mover
        /\ NoticeSent(MoverPaused(mover, stop)).state = "PAUSED"
    BY <1>1, MoverPausedType
  <2>3. pc' = "da" /\ did' \in BOOLEAN /\ UNCHANGED goal
    BY <1>1, <1>9 DEF Then
  <2> HIDE DEF is1
  <2> QED BY <1>1, <1>4, <1>5, <1>9, <2>1, <2>2, <2>3, MoverStepInv
<1>10. WriteStops \subseteq {"EOM", "SEEK", "MEDIA_ERROR"}
  BY DEF WriteStops
<1> HIDE DEF is1
<1> QED BY <1>2, <1>7, <1>8, <1>9, <1>10 DEF PauseReason

\* Applying a pending change to a mover that writes, as MoverStepInv wants it
LEMMA AppliedStep ==
    ASSUME SessionInv, pc = "ta", mover.state = "ACTIVE", mover.mode = "WRITE",
           NEW s \in Stream, s.ep = is.ep, s.remote = is.remote, is' = s,
           NEW m \in Mover, m.pend # "none", m.mode = "WRITE",
           MoverBecomes(MoverApplied(m)),
           acct' \in Account, UNCHANGED <<tape, data, fmt, goal>>,
           pc' = "da", did' \in BOOLEAN
    PROVE  SessionInv'
<1> DEFINE a == MoverApplied(m)
<1>1. /\ a \in Mover
      /\ \/ NoticeSent(a).state = "PAUSED"
         \/ /\ NoticeSent(a).state = "HALTED" /\ NoticeSent(a).halt = "MEDIA_ERROR"
            /\ NoticeSent(a).mode = "WRITE"
  BY MoverAppliedType
<1> QED BY <1>1, MoverStepInv

\* The mover and the stream once k units have been read back, and what stops
\* the mover then is pending
Moved(k) == [mover EXCEPT !.left = @ - k]

Filled(k) == [is EXCEPT !.chan.n = @ + k]

Short(k, stop) == [Moved(k) EXCEPT !.pend = stop]

LEMMA WriteCases ==
    ASSUME MoverWrites
    PROVE  \E k \in 0 .. ChanSize :
         \/ /\ mover.pend # "none" /\ k = 0
            /\ Room(is) > 0 /\ MayApply(is)
            /\ MoverBecomes(MoverApplied(mover))
            /\ Then("da", TRUE)
            /\ UNCHANGED <<is, acct>>
         \/ /\ mover.pend # "none" /\ k = 0
            /\ Room(is) = 0 \/ ~MayApply(is)
            /\ MoverBecomes(mover)
            /\ Then("da", FALSE)
            /\ UNCHANGED <<is, acct>>
         \/ /\ k = Least(Room(is), mover.left)
            /\ MoverBecomes(Moved(k))
            /\ is' = Filled(k)
            /\ acct' = [acct EXCEPT !.made = @ + k]
            /\ Then("da", k > 0)
         \/ /\ k < Least(Room(is), mover.left)
            /\ \E stop \in ReadStops, tried \in BOOLEAN :
                  /\ MoverBecomes(IF MayApply(Filled(k))
                                  THEN MoverApplied(Short(k, stop))
                                  ELSE Short(k, stop))
                  /\ Then("da", tried \/ k > 0 \/ MayApply(Filled(k)))
            /\ is' = Filled(k)
            /\ acct' = [acct EXCEPT !.made = @ + k]
BY DEF MoverWrites, Moved, Filled, Short

LEMMA MoverWritesInv ==
    ASSUME SessionInv, MoverWrites
    PROVE  SessionInv'
<1> DEFINE most == Least(Room(is), mover.left)
<1>1. /\ mover \in Mover /\ TypeOK /\ is \in Stream /\ acct \in Account
      /\ pc = "ta" /\ mover.state = "ACTIVE" /\ mover.mode = "WRITE"
      /\ UNCHANGED <<tape, data, fmt>> /\ did \in BOOLEAN
      /\ is.chan.n \in 0 .. ChanSize /\ mover.left \in 0 .. ReadMax
  BY DEF MoverWrites, SessionInv, TypeOK, Stream, Chan, Mover
<1>2. ASSUME NEW k \in 0 .. ChanSize, k <= most
      PROVE  /\ Filled(k) \in Stream /\ Filled(k).ep = is.ep /\ Filled(k).remote = is.remote
             /\ Moved(k) \in Mover /\ Moved(k).state = "ACTIVE" /\ Moved(k).mode = "WRITE"
             /\ [acct EXCEPT !.made = @ + k] \in Account
  <2>1. /\ is.chan.n + k \in 0 .. ChanSize /\ mover.left - k \in 0 .. ReadMax
        /\ k \in Nat
    BY <1>1, <1>2, SizesAssumption, ChanSizeAssumption DEF Least, Room
  <2>2. Filled(k) \in Stream /\ Filled(k).ep = is.ep /\ Filled(k).remote = is.remote
    BY <1>1, <2>1, ChanSet DEF Filled
  <2>3. Moved(k) \in Mover /\ Moved(k).state = "ACTIVE" /\ Moved(k).mode = "WRITE"
    BY <1>1, <2>1 DEF Moved, Mover
  <2> QED BY <1>1, <2>1, <2>2, <2>3, AccountTypes
<1>3. most \in Nat
  BY <1>1, SizesAssumption, ChanSizeAssumption DEF Least, Room
<1>4. CASE /\ mover.pend # "none" /\ is' = is /\ UNCHANGED acct
           /\ Then("da", TRUE) /\ MoverBecomes(MoverApplied(mover))
  BY <1>1, <1>4, AppliedStep DEF Then
<1>5. CASE /\ MoverBecomes(mover) /\ is' = is /\ UNCHANGED acct
           /\ Then("da", FALSE)
  <2>1. NoticeSent(mover).state = "ACTIVE"
    BY <1>1, NoticeSentType
  <2> QED BY <1>1, <1>5, <2>1, MoverStepInv DEF Then
<1>6. ASSUME NEW k \in 0 .. ChanSize, k = most, MoverBecomes(Moved(k)),
             is' = Filled(k), acct' = [acct EXCEPT !.made = @ + k],
             Then("da", k > 0)
      PROVE  SessionInv'
  <2>1. /\ Filled(k) \in Stream /\ Filled(k).ep = is.ep /\ Filled(k).remote = is.remote
        /\ Moved(k) \in Mover /\ Moved(k).state = "ACTIVE" /\ acct' \in Account
    BY <1>2, <1>3, <1>6
  <2>2. NoticeSent(Moved(k)).state = "ACTIVE"
    BY <2>1, NoticeSentType
  <2>3. pc' = "da" /\ did' \in BOOLEAN /\ UNCHANGED goal
    BY <1>1, <1>6 DEF Then
  <2> QED BY <1>1, <1>6, <2>1, <2>2, <2>3, MoverStepInv
<1>7. ASSUME NEW k \in 0 .. ChanSize, k < most, NEW stop \in ReadStops,
             NEW tried \in BOOLEAN,
             MoverBecomes(IF MayApply(Filled(k))
                          THEN MoverApplied(Short(k, stop))
                          ELSE Short(k, stop)),
             is' = Filled(k), acct' = [acct EXCEPT !.made = @ + k],
             Then("da", tried \/ k > 0 \/ MayApply(Filled(k)))
      PROVE  SessionInv'
  <2> DEFINE m2 == Short(k, stop)
  <2>1. /\ Filled(k) \in Stream /\ Filled(k).ep = is.ep /\ Filled(k).remote = is.remote
        /\ Moved(k) \in Mover /\ Moved(k).state = "ACTIVE" /\ Moved(k).mode = "WRITE"
        /\ acct' \in Account
    <3>1. k <= most
      BY <1>3, <1>7
    <3> QED BY <1>2, <1>7, <3>1
  <2>2. pc' = "da" /\ did' \in BOOLEAN /\ UNCHANGED goal
    BY <1>1, <1>7 DEF Then, MayApply
  <2>3. stop \in {"EOF", "SEEK", "MEDIA_ERROR"}
    BY <1>7 DEF ReadStops
  <2>4. /\ m2 \in Mover /\ m2.state = "ACTIVE" /\ m2.pend # "none"
        /\ m2.mode = "WRITE"
    BY <2>1, <2>3 DEF Short, Mover
  <2>5. NoticeSent(m2).state = "ACTIVE"
    BY <2>4, NoticeSentType
  <2>6. MoverBecomes(MoverApplied(m2)) \/ MoverBecomes(m2)
    BY <1>7
  <2> HIDE DEF m2
  <2>7. CASE MoverBecomes(MoverApplied(m2))
    BY <1>1, <1>7, <2>1, <2>2, <2>4, <2>7, AppliedStep
  <2>8. CASE MoverBecomes(m2)
    BY <1>1, <1>7, <2>1, <2>2, <2>4, <2>5, <2>8, MoverStepInv
  <2> QED BY <2>6, <2>7, <2>8
<1> HIDE DEF most
<1> QED BY <1>4, <1>5, <1>6, <1>7, WriteCases DEF most

LEMMA DataBecomesType ==
    ASSUME TypeOK, NEW d \in Data, DataBecomes(d)
    PROVE  /\ data' = NoticeSent(d) /\ data' \in Data /\ data'.state = d.state
           /\ told' \in [mover : {"none", "PAUSED", "HALTED"},
                         data : {"none", "HALTED"}]
<1>1. DataTold(d) \in {"none", "HALTED"}
  BY ToldType DEF TypeOK
<1> QED BY <1>1, DataTypes DEF DataBecomes, TypeOK

LEMMA RoundEndsType ==
    ASSUME TypeOK, NEW something \in BOOLEAN, RoundEnds(something)
    PROVE  pc' \in {"is", "poll", "dispatch"} /\ did' \in BOOLEAN /\ goal' = goal
BY DEF RoundEnds, TypeOK

\* A quantum of the DATA agent that moves image and leaves it as it is
LEMMA DataMovesInv ==
    ASSUME SessionInv, pc = "da", NEW something \in BOOLEAN, RoundEnds(something),
           DataBecomes(data), is' \in Stream, is'.ep = is.ep,
           is'.remote = is.remote, mover' \in Mover,
           mover'.state = mover.state, mover'.halt = mover.halt,
           mover'.mode = mover.mode, fmt' \in Formatter, acct' \in Account,
           UNCHANGED tape
    PROVE  SessionInv'
<1>1. TypeOK /\ data \in Data
  BY DEF SessionInv, TypeOK
<1>2. /\ pc' \in {"is", "poll", "dispatch"} /\ did' \in BOOLEAN /\ goal' = goal
      /\ data' \in Data /\ data'.state = data.state
      /\ told' \in [mover : {"none", "PAUSED", "HALTED"}, data : {"none", "HALTED"}]
  BY <1>1, RoundEndsType, DataBecomesType
<1>3. TypeOK'
  BY <1>1, <1>2 DEF TypeOK
<1>4. EndPointPairing' /\ AgentsMatchStream'
  BY <1>2, StreamKept
<1> QED BY <1>3, <1>4 DEF SessionInv

\* A quantum of the DATA agent in which it halts
LEMMA DataEndsInv ==
    ASSUME SessionInv, pc = "da", data.state = "ACTIVE",
           NEW something \in BOOLEAN, RoundEnds(something),
           NEW reason \in HaltReason, DataBecomes(DataHalted(data, reason)),
           NEW s \in Stream, s.ep = is.ep, s.remote = is.remote,
           is' \in Stream, is'.ep = Close(s, "data").ep,
           is'.remote = Close(s, "data").remote, mover' \in Mover,
           mover'.state = mover.state, mover'.halt = mover.halt,
           mover'.mode = mover.mode, fmt' \in Formatter, acct' \in Account,
           UNCHANGED tape
    PROVE  SessionInv'
<1>1. TypeOK /\ data \in Data
  BY DEF SessionInv, TypeOK
<1>2. DataHalted(data, reason) \in Data /\ DataHalted(data, reason).state = "HALTED"
  BY <1>1, DataTypes
<1>3. /\ pc' \in {"is", "poll", "dispatch"} /\ did' \in BOOLEAN /\ goal' = goal
      /\ data' \in Data /\ data'.state = "HALTED"
      /\ told' \in [mover : {"none", "PAUSED", "HALTED"}, data : {"none", "HALTED"}]
  BY <1>1, <1>2, RoundEndsType, DataBecomesType
<1>4. TypeOK'
  BY <1>1, <1>3 DEF TypeOK
<1>5. EndPointPairing' /\ AgentsMatchStream'
  BY <1>3, DataClosed
<1> QED BY <1>4, <1>5 DEF SessionInv

LEMMA DataRestsInv ==
    ASSUME SessionInv, DataIdles \/ DataRests
    PROVE  SessionInv'
<1>1. TypeOK /\ mover \in Mover /\ fmt \in Formatter /\ acct \in Account
         /\ is \in Stream
  BY DEF SessionInv, TypeOK
<1>2. CASE DataIdles
  <2>1. pc' \in {"is", "poll", "dispatch"} /\ did' \in BOOLEAN /\ goal' = goal
    BY <1>1, <1>2, RoundEndsType DEF DataIdles
  <2>2. TypeOK'
    BY <1>1, <1>2, <2>1 DEF DataIdles, TypeOK
  <2>3. EndPointPairing' /\ AgentsMatchStream'
    BY <1>2, <2>1, StreamKept DEF DataIdles
  <2> QED BY <2>2, <2>3 DEF SessionInv
<1>3. CASE DataRests
  BY <1>1, <1>3, DataMovesInv DEF DataRests
<1> QED BY <1>2, <1>3

LEMMA DataBackupsInv ==
    ASSUME SessionInv, DataBackups
    PROVE  SessionInv'
<1> DEFINE k   == Least(fmt.img, Room(is))
           is1 == PassImage(is, k)
           f1  == [fmt EXCEPT !.img = @ - k, !.chat = FALSE]
<1>1. /\ TypeOK /\ mover \in Mover /\ fmt \in Formatter /\ acct \in Account
      /\ is \in Stream /\ pc = "da" /\ data.state = "ACTIVE"
      /\ fmt.img \in 0 .. ImageSize /\ fmt.chat \in BOOLEAN /\ fmt.imgEof \in BOOLEAN
      /\ is.chan.n \in 0 .. ChanSize /\ is.chan.eof \in BOOLEAN
      /\ UNCHANGED <<mover, tape, acct>> /\ RoundEnds(fmt.chat)
  BY DEF DataBackups, SessionInv, TypeOK, Formatter, Stream, Chan
<1>2. /\ is.chan.n + k \in 0 .. ChanSize /\ fmt.img - k \in 0 .. ImageSize
      /\ (is.chan.eof \/ ImageEnds(k)) \in BOOLEAN
  BY <1>1, SizesAssumption, ChanSizeAssumption DEF Least, Room, ImageEnds
<1>3. is1 \in Stream /\ is1.ep = is.ep /\ is1.remote = is.remote
  BY <1>1, <1>2, ChanSet DEF PassImage
<1>4. f1 \in Formatter
  BY <1>1, <1>2 DEF Formatter
<1>5. CASE Drained(is1, k)
  <2>1. /\ DataBecomes(DataHalted(data, "SUCCESSFUL"))
        /\ is' = Close(is1, "data") /\ fmt' = FormatterCleaned
    BY <1>5 DEF DataBackups
  <2>2. is' \in Stream
    BY <1>3, <2>1, CloseType DEF Side
  <2>3. fmt' \in Formatter /\ "SUCCESSFUL" \in HaltReason
    BY <2>1, InitTypes DEF HaltReason
  <2> HIDE DEF is1
  <2> QED BY <1>1, <1>3, <2>1, <2>2, <2>3, DataEndsInv
<1>6. CASE ~Drained(is1, k)
  <2>1. DataBecomes(data) /\ is' = is1 /\ fmt' = f1
    BY <1>6 DEF DataBackups
  <2> HIDE DEF is1, f1
  <2> QED BY <1>1, <1>3, <1>4, <2>1, DataMovesInv
<1> QED BY <1>5, <1>6

LEMMA HaltsRecoverInv ==
    ASSUME SessionInv, pc = "da", data.state = "ACTIVE",
           NEW m \in Mover, m.state = mover.state, m.halt = mover.halt,
           m.mode = mover.mode, DataHaltsRecover("SUCCESSFUL", m),
           NEW something \in BOOLEAN, RoundEnds(something),
           acct' \in Account, UNCHANGED tape
    PROVE  SessionInv'
<1> DEFINE is1 == Close(is, "data")
           k   == Least(is1.chan.n, ImageSize)
           is2 == [is1 EXCEPT !.chan.n = @ - k]
<1>1. is \in Stream /\ is1 \in Stream
  BY CloseType DEF SessionInv, TypeOK, Side
<1>2. is1.chan.n \in 0 .. ChanSize
  BY <1>1 DEF Stream, Chan
<1> HIDE DEF is1
<1>3. is1.chan.n - k \in 0 .. ChanSize /\ k \in 0 .. ImageSize
  BY <1>2, SizesAssumption, ChanSizeAssumption DEF Least
<1>4. is2 \in Stream /\ is2.ep = is1.ep /\ is2.remote = is1.remote
  BY <1>1, <1>3, ChanSet
<1>5. [FormatterCleaned EXCEPT !.img = k] \in Formatter
  BY <1>3, InitTypes DEF Formatter
<1>6. /\ DataBecomes(DataHalted(data, "SUCCESSFUL")) /\ is' = is2
      /\ fmt' = [FormatterCleaned EXCEPT !.img = k] /\ mover' = m
  BY DEF DataHaltsRecover, is1
<1>7. "SUCCESSFUL" \in HaltReason
  BY DEF HaltReason
<1>8. /\ is'.ep = Close(is, "data").ep /\ is'.remote = Close(is, "data").remote
      /\ is' \in Stream /\ fmt' \in Formatter
  BY <1>4, <1>5, <1>6 DEF is1
<1> QED BY <1>1, <1>6, <1>7, <1>8, DataEndsInv

LEMMA MoverLeftType ==
    ASSUME NEW m \in Mover, NEW left \in 0 .. ReadMax
    PROVE  LET a == [m EXCEPT !.left = left]
           IN  a \in Mover /\ a.state = m.state /\ a.halt = m.halt /\ a.mode = m.mode
BY DEF Mover

LEMMA FormatterServed ==
    ASSUME NEW f \in Formatter, NEW i \in 0 .. ImageSize, NEW e \in BOOLEAN
    PROVE  /\ [f EXCEPT !.img = i, !.imgEof = e, !.ask = 0, !.more = FALSE,
                        !.chat = FALSE] \in Formatter
           /\ [f EXCEPT !.imgEof = TRUE] \in Formatter
<1>1. 0 \in 0 .. ReadMax
  BY SizesAssumption
<1>2. [f EXCEPT !.imgEof = TRUE] \in Formatter
  BY DEF Formatter
<1>3. [f EXCEPT !.img = i, !.imgEof = e] \in Formatter
  BY DEF Formatter
<1> DEFINE g == [f EXCEPT !.img = i, !.imgEof = e]
           h == [f EXCEPT !.img = i, !.imgEof = e, !.ask = 0, !.more = FALSE,
                          !.chat = FALSE]
<1>4. h = [g EXCEPT !.ask = 0, !.more = FALSE, !.chat = FALSE]
  BY DEF Formatter
<1>5. [g EXCEPT !.ask = 0, !.more = FALSE, !.chat = FALSE] \in Formatter
  <2> HIDE DEF g
  <2> QED BY <1>1, <1>3 DEF Formatter, g
<1> QED BY <1>2, <1>4, <1>5

LEMMA DataRecoversInv ==
    ASSUME SessionInv, DataRecovers
    PROVE  SessionInv'
<1> DEFINE k  == Least(is.chan.n, ImageSize - fmt.img)
           m1 == IF data.addr = "LOCAL" /\ fmt.ask > 0
                 THEN [mover EXCEPT !.left = fmt.ask] ELSE mover
           is1 == [is EXCEPT !.chan.n = @ - k]
           eof == fmt.imgEof \/ (is.chan.n = k /\ is.chan.eof)
           f1 == [fmt EXCEPT !.img = @ + k,
                      !.imgEof = @ \/ (is.chan.n = k /\ is.chan.eof),
                      !.ask = 0, !.more = FALSE, !.chat = FALSE]
<1>1. /\ TypeOK /\ mover \in Mover /\ fmt \in Formatter /\ acct \in Account
      /\ is \in Stream /\ pc = "da" /\ data.state = "ACTIVE"
      /\ fmt.img \in 0 .. ImageSize /\ fmt.ask \in 0 .. ReadMax
      /\ fmt.chat \in BOOLEAN /\ fmt.imgEof \in BOOLEAN
      /\ is.chan.n \in 0 .. ChanSize /\ is.chan.eof \in BOOLEAN
      /\ UNCHANGED tape /\ RoundEnds(fmt.chat \/ fmt.ask > 0)
      /\ acct' = [acct EXCEPT !.asked = @ + fmt.ask]
  BY DEF DataRecovers, SessionInv, TypeOK, Formatter, Stream, Chan
<1>2. m1 \in Mover /\ m1.state = mover.state /\ m1.halt = mover.halt
        /\ m1.mode = mover.mode
  BY <1>1, MoverLeftType
<1>3. acct' \in Account
  <2>1. fmt.ask \in Nat
    BY <1>1, SizesAssumption
  <2> QED BY <1>1, <2>1, AccountTypes
<1>4. is.chan.n - k \in 0 .. ChanSize /\ fmt.img + k \in 0 .. ImageSize
        /\ eof \in BOOLEAN
  BY <1>1, SizesAssumption, ChanSizeAssumption DEF Least
<1>5. is1 \in Stream /\ is1.ep = is.ep /\ is1.remote = is.remote
  BY <1>1, <1>4, ChanSet
<1>6. f1 \in Formatter
  <2>1. PICK e \in BOOLEAN : e = eof
    BY <1>4
  <2>2. f1 = [fmt EXCEPT !.img = fmt.img + k, !.imgEof = e, !.ask = 0,
                         !.more = FALSE, !.chat = FALSE]
    BY <2>1
  <2> HIDE DEF f1, eof
  <2> QED BY <1>1, <1>4, <2>2, FormatterServed
<1>7. CASE fmt.wrapEof
  <2>1. DataHaltsRecover("SUCCESSFUL", m1)
    BY <1>7 DEF DataRecovers
  <2> HIDE DEF m1
  <2> QED BY <1>1, <1>2, <1>3, <2>1, HaltsRecoverInv
<1>8. CASE ~fmt.wrapEof
  <2>1. DataBecomes(data) /\ is' = is1 /\ fmt' = f1 /\ mover' = m1
    BY <1>8 DEF DataRecovers
  <2> HIDE DEF m1, is1, f1
  <2> QED BY <1>1, <1>2, <1>3, <1>5, <1>6, <2>1, DataMovesInv
<1> QED BY <1>7, <1>8

LEMMA DataOverrunsInv ==
    ASSUME SessionInv, DataOverruns
    PROVE  SessionInv'
<1> DEFINE m1 == IF Readable THEN [mover EXCEPT !.left = fmt.ask] ELSE mover
           a1 == IF Readable THEN fmt.ask ELSE 0
<1>1. /\ TypeOK /\ mover \in Mover /\ acct \in Account
      /\ pc = "da" /\ data.state = "ACTIVE" /\ fmt.ask \in 0 .. ReadMax
      /\ UNCHANGED tape /\ acct' = [acct EXCEPT !.asked = @ + a1]
  BY DEF DataOverruns, SessionInv, TypeOK, Formatter
<1>2. acct' \in Account
  <2>1. a1 \in Nat
    BY <1>1, SizesAssumption
  <2> QED BY <1>1, <2>1, AccountTypes
<1>3. m1 \in Mover /\ m1.state = mover.state /\ m1.halt = mover.halt
        /\ m1.mode = mover.mode
  BY <1>1, MoverLeftType
<1>4. CASE pc' = "crashed" /\ did' = FALSE
           /\ UNCHANGED <<is, mover, data, fmt, told, goal>>
  <2>1. TypeOK'
    BY <1>1, <1>2, <1>4 DEF TypeOK
  <2>2. EndPointPairing' /\ AgentsMatchStream'
    BY <1>1, <1>4, StreamKept
  <2> QED BY <2>1, <2>2 DEF SessionInv
<1>5. CASE DataHaltsRecover("SUCCESSFUL", m1) /\ RoundEnds(TRUE)
  <2> HIDE DEF m1, a1
  <2> QED BY <1>1, <1>2, <1>3, <1>5, HaltsRecoverInv
<1> QED BY <1>4, <1>5 DEF DataOverruns

-----------------------------------------------------------------------------
(* The poll.                                                                *)

\* Every step of the poll changes no more than the channels and the account
LEMMA PolledInv ==
    ASSUME SessionInv, Polled, is' \in Stream, is'.ep = is.ep,
           is'.remote = is.remote, fmt' \in Formatter, acct' \in Account
    PROVE  SessionInv'
<1>1. TypeOK'
  BY DEF Polled, SessionInv, TypeOK
<1>2. EndPointPairing' /\ AgentsMatchStream'
  BY StreamKept DEF Polled
<1> QED BY <1>1, <1>2 DEF SessionInv

LEMMA PollStreamInv ==
    ASSUME SessionInv, PollConnects \/ PollReceives \/ PollSends
    PROVE  SessionInv'
<1>1. /\ is \in Stream /\ fmt \in Formatter /\ acct \in Account
      /\ is.chan.n \in 0 .. ChanSize /\ Room(is) \in 0 .. ChanSize
  BY ChanSizeAssumption DEF SessionInv, TypeOK, Stream, Chan, Room
<1>2. Polled /\ UNCHANGED fmt
  BY DEF PollConnects, PollReceives, PollSends
<1>3. \/ is' = [is EXCEPT !.ready = TRUE] /\ UNCHANGED acct
      \/ \E k \in 1 .. Room(is) : /\ is' = [is EXCEPT !.chan.n = @ + k]
                                 /\ acct' = [acct EXCEPT !.made = @ + k]
      \/ \E k \in 1 .. is.chan.n : /\ is' = [is EXCEPT !.chan.n = @ - k]
                                  /\ acct' = [acct EXCEPT !.out = @ + k]
      \/ is' = [is EXCEPT !.chan.eof = TRUE] /\ UNCHANGED acct
      \/ \E errno \in BOOLEAN :
             /\ is' = [is EXCEPT !.chan.eof = TRUE, !.chan.error = TRUE,
                                 !.chan.errno = errno]
             /\ UNCHANGED acct
  BY DEF PollConnects, PollReceives, PollSends
<1>4. CASE is' = [is EXCEPT !.ready = TRUE] /\ UNCHANGED acct
  <2>1. is' \in Stream /\ is'.ep = is.ep /\ is'.remote = is.remote
    BY <1>1, <1>4 DEF Stream
  <2> QED BY <1>1, <1>2, <1>4, <2>1, PolledInv
<1>5. ASSUME NEW k \in 1 .. Room(is), is' = [is EXCEPT !.chan.n = @ + k],
             acct' = [acct EXCEPT !.made = @ + k]
      PROVE  SessionInv'
  <2>1. is.chan.n + k \in 0 .. ChanSize /\ k \in Nat
    BY <1>1, ChanSizeAssumption DEF Room
  <2>2. is' \in Stream /\ is'.ep = is.ep /\ is'.remote = is.remote
    BY <1>1, <1>5, <2>1, ChanSet
  <2> QED BY <1>1, <1>2, <1>5, <2>1, <2>2, AccountTypes, PolledInv
<1>6. ASSUME NEW k \in 1 .. is.chan.n, is' = [is EXCEPT !.chan.n = @ - k],
             acct' = [acct EXCEPT !.out = @ + k]
      PROVE  SessionInv'
  <2>1. is.chan.n - k \in 0 .. ChanSize /\ k \in Nat
    BY <1>1, ChanSizeAssumption
  <2>2. is' \in Stream /\ is'.ep = is.ep /\ is'.remote = is.remote
    BY <1>1, <1>6, <2>1, ChanSet
  <2> QED BY <1>1, <1>2, <1>6, <2>1, <2>2, AccountTypes, PolledInv
<1>7. CASE is' = [is EXCEPT !.chan.eof = TRUE] /\ UNCHANGED acct
  <2>1. is' \in Stream /\ is'.ep = is.ep /\ is'.remote = is.remote
    BY <1>1, <1>7 DEF Stream, Chan
  <2> QED BY <1>1, <1>2, <1>7, <2>1, PolledInv
<1>8. ASSUME NEW errno \in BOOLEAN,
             is' = [is EXCEPT !.chan.eof = TRUE, !.chan.error = TRUE,
                              !.chan.errno = errno],
             UNCHANGED acct
      PROVE  SessionInv'
  <2>1. is' \in Stream /\ is'.ep = is.ep /\ is'.remote = is.remote
    BY <1>1, <1>8 DEF Stream, Chan
  <2> QED BY <1>1, <1>2, <1>8, <2>1, PolledInv
<1> QED BY <1>3, <1>4, <1>5, <1>6, <1>7, <1>8

LEMMA PollFormatterInv ==
    ASSUME SessionInv, PollFormatterImage \/ PollFormatterFed \/ PollFormatterLines
    PROVE  SessionInv'
<1>1. /\ is \in Stream /\ fmt \in Formatter /\ acct \in Account
      /\ fmt.img \in 0 .. ImageSize
  BY DEF SessionInv, TypeOK, Formatter
<1>2. Polled /\ UNCHANGED is
  BY DEF PollFormatterImage, PollFormatterFed, PollFormatterLines
<1>3. CASE PollFormatterImage
  <2>1. ASSUME NEW k \in 1 .. ImageSize - fmt.img, fmt' = [fmt EXCEPT !.img = @ + k],
               acct' = [acct EXCEPT !.made = @ + k]
        PROVE  fmt' \in Formatter /\ acct' \in Account
    <3>1. fmt.img + k \in 0 .. ImageSize /\ k \in Nat
      BY <1>1, SizesAssumption
    <3> QED BY <1>1, <2>1, <3>1, AccountTypes DEF Formatter
  <2>2. ASSUME fmt' = [fmt EXCEPT !.imgEof = TRUE], UNCHANGED acct
        PROVE  fmt' \in Formatter /\ acct' \in Account
    <3>1. fmt' \in Formatter
      BY <1>1, <2>2, FormatterServed
    <3> QED BY <1>1, <2>2, <3>1
  <2>3. fmt' \in Formatter /\ acct' \in Account
    BY <1>1, <1>3, <2>1, <2>2 DEF PollFormatterImage, Formatter
  <2> QED BY <1>1, <1>2, <2>3, PolledInv
<1>4. CASE PollFormatterFed
  <2>1. ASSUME NEW k \in 1 .. fmt.img, fmt' = [fmt EXCEPT !.img = @ - k],
               acct' = [acct EXCEPT !.out = @ + k]
        PROVE  fmt' \in Formatter /\ acct' \in Account
    <3>1. fmt.img - k \in 0 .. ImageSize /\ k \in Nat
      BY <1>1, SizesAssumption
    <3> QED BY <1>1, <2>1, <3>1, AccountTypes DEF Formatter
  <2>2. fmt' \in Formatter /\ acct' \in Account
    BY <1>1, <1>4, <2>1 DEF PollFormatterFed, Formatter
  <2> QED BY <1>1, <1>2, <2>2, PolledInv
<1>5. CASE PollFormatterLines
  <2>1. ASSUME NEW ask \in 1 .. ReadMax, NEW more \in BOOLEAN,
               fmt' = [fmt EXCEPT !.ask = ask, !.more = more]
        PROVE  fmt' \in Formatter
    <3>1. ask \in 0 .. ReadMax
      BY SizesAssumption
    <3> QED BY <1>1, <2>1, <3>1 DEF Formatter
  <2>2. fmt' \in Formatter /\ UNCHANGED acct
    BY <1>1, <1>5, <2>1 DEF PollFormatterLines, Formatter
  <2> QED BY <1>1, <1>2, <2>2, PolledInv
<1> QED BY <1>3, <1>4, <1>5

LEMMA PollEndsInv ==
    ASSUME SessionInv, PollEnds \/ DispatchEnds
    PROVE  SessionInv'
<1>1. TypeOK'
  BY DEF PollEnds, DispatchEnds, SessionInv, TypeOK
<1>2. EndPointPairing' /\ AgentsMatchStream'
  BY StreamKept DEF PollEnds, DispatchEnds
<1> QED BY <1>1, <1>2 DEF SessionInv

-----------------------------------------------------------------------------
(* The requests.                                                            *)

LEMMA TapeInv ==
    ASSUME SessionInv, TapeOpen \/ TapeClose
    PROVE  SessionInv'
<1>1. TypeOK'
  BY DEF TapeOpen, TapeClose, Dispatched, SessionInv, TypeOK
<1>2. EndPointPairing' /\ AgentsMatchStream'
  BY StreamKept DEF TapeOpen, TapeClose, Dispatched
<1> QED BY <1>1, <1>2 DEF SessionInv

LEMMA ToldReset ==
    ASSUME TypeOK
    PROVE  /\ [told EXCEPT !.mover = "none"] \in
                   [mover : {"none", "PAUSED", "HALTED"}, data : {"none", "HALTED"}]
           /\ [told EXCEPT !.data = "none"] \in
                   [mover : {"none", "PAUSED", "HALTED"}, data : {"none", "HALTED"}]
BY DEF TypeOK

LEMMA MoverListenInv ==
    ASSUME SessionInv, NEW addr \in Addrs, NEW mode \in MoverMode,
           MoverListen(addr, mode)
    PROVE  SessionInv'
<1>1. /\ TypeOK /\ mover \in Mover /\ is \in Stream /\ LegalStream(is)
      /\ addr \in AddrType /\ pc = "dispatch" /\ mover.state = "IDLE"
      /\ data.state = "IDLE" /\ CanListen(is, "tape")
      /\ UNCHANGED <<tape, data, fmt, pc, goal, did>>
  BY KindsAssumption
     DEF MoverListen, Dispatched, SessionInv, TypeOK, EndPointPairing
<1>2. CASE /\ is' = Listen(is, "tape", addr)
           /\ mover' = MoverListening(mover, mode, addr)
           /\ told' = [told EXCEPT !.mover = "none"]
           /\ acct' = NewAccount
  <2>1. mover' \in Mover /\ mover'.state = "LISTEN"
    BY <1>1, <1>2 DEF MoverListening, Mover, MoverState, HaltReason, PauseReason
  <2>2. /\ is' \in Stream /\ LegalStream(is') /\ is'.ep["tape"].cs = "LISTEN"
        /\ is'.ep["data"].cs \in {"IDLE", "REMOTE"}
    BY <1>1, <1>2, ListenType, ListenTape DEF Side
  <2>3. TypeOK'
    BY <1>1, <1>2, <2>1, <2>2, InitTypes, ToldReset DEF TypeOK
  <2>4. EndPointPairing'
    BY <1>1, <2>2 DEF EndPointPairing
  <2>5. AgentsMatchStream'
    BY <1>1, <2>1, <2>2 DEF AgentsMatchStream
  <2> QED BY <2>3, <2>4, <2>5 DEF SessionInv
<1>3. CASE mover' = [mover EXCEPT !.addr = addr] /\ UNCHANGED <<is, told, acct>>
  <2>1. /\ mover' \in Mover /\ mover'.state = mover.state
        /\ mover'.halt = mover.halt /\ mover'.mode = mover.mode
    BY <1>1, <1>3 DEF Mover
  <2>2. TypeOK'
    BY <1>1, <1>3, <2>1 DEF TypeOK
  <2>3. EndPointPairing' /\ AgentsMatchStream'
    BY <1>1, <1>3, <2>1, StreamKept
  <2> QED BY <2>2, <2>3 DEF SessionInv
<1> QED BY <1>2, <1>3 DEF MoverListen

LEMMA MoverConnectInv ==
    ASSUME SessionInv, NEW mode \in MoverMode, MoverConnect(mode)
    PROVE  SessionInv'
<1> DEFINE s == Connect(is, "tape", "TCP")
           m == [mover EXCEPT !.mode = mode, !.addr = "TCP"]
<1>1. /\ TypeOK /\ mover \in Mover /\ is \in Stream /\ LegalStream(is)
      /\ pc = "dispatch" /\ data.state = "IDLE" /\ CanConnect(is, "tape", "TCP")
      /\ UNCHANGED <<tape, data, fmt, pc, goal, did>>
      /\ is' = Start(s, "tape", mode) /\ mover' = MoverActive(m)
      /\ told' = [told EXCEPT !.mover = "none"] /\ acct' = NewAccount
  BY DEF MoverConnect, Dispatched, SessionInv, TypeOK, EndPointPairing
<1>2. /\ s \in Stream /\ LegalStream(s) /\ s.ep["tape"].cs = "CONNECTED"
      /\ s.ep["data"].cs = "REMOTE"
  BY <1>1, ConnectType, ConnectSide DEF Side, AddrType, Peer
<1> HIDE DEF s
<1>3. /\ is' \in Stream /\ LegalStream(is') /\ is'.ep["tape"].cs = "CONNECTED"
      /\ is'.ep["data"].cs = "REMOTE"
  BY <1>1, <1>2, StartType, StartLegal, StartKeeps DEF Side, MoverMode
<1>4. mover' \in Mover /\ mover'.state = "ACTIVE"
  <2>1. m \in Mover
    BY <1>1 DEF Mover, AddrType
  <2> QED BY <1>1, <2>1, MoverActiveType
<1>5. TypeOK'
  BY <1>1, <1>3, <1>4, InitTypes, ToldReset DEF TypeOK
<1>6. EndPointPairing'
  BY <1>1, <1>3 DEF EndPointPairing
<1>7. AgentsMatchStream'
  BY <1>1, <1>3, <1>4 DEF AgentsMatchStream
<1> QED BY <1>5, <1>6, <1>7 DEF SessionInv

LEMMA MoverContinueInv ==
    ASSUME SessionInv, MoverContinue
    PROVE  SessionInv'
<1>1. /\ TypeOK /\ mover \in Mover /\ mover.state = "PAUSED"
      /\ pc = "dispatch" /\ UNCHANGED <<pc, goal, did, is, tape, data, fmt, acct>>
      /\ mover' = MoverActive(mover) /\ told' = [told EXCEPT !.mover = "none"]
  BY DEF MoverContinue, Dispatched, SessionInv, TypeOK
<1>2. mover' \in Mover /\ mover'.state = "ACTIVE"
  BY <1>1, MoverActiveType
<1>3. TypeOK'
  BY <1>1, <1>2, ToldReset DEF TypeOK
<1>4. EndPointPairing' /\ AgentsMatchStream'
  BY <1>1, <1>2, StreamKeptPaused
<1> QED BY <1>3, <1>4 DEF SessionInv

LEMMA MoverHaltsInv ==
    ASSUME SessionInv, MoverAbort \/ MoverClose
    PROVE  SessionInv'
<1>1. PICK reason \in {"ABORTED", "CONNECT_CLOSED"} : MoverHalts(reason)
  BY DEF MoverAbort, MoverClose
<1>2. /\ TypeOK /\ mover \in Mover /\ is \in Stream /\ pc = "dispatch"
      /\ mover.state \in {"LISTEN", "ACTIVE", "PAUSED"}
      /\ UNCHANGED <<pc, goal, did, tape, data, fmt, told, acct>>
      /\ mover' = MoverHalted(mover, reason) /\ is' = Close(is, "tape")
  BY <1>1 DEF MoverAbort, MoverClose, MoverHalts, Dispatched, SessionInv, TypeOK
<1>3. mover' \in Mover /\ mover'.state = "HALTED"
  BY <1>2, MoverHaltedType DEF HaltReason
<1>4. is' \in Stream /\ EndPointPairing' /\ AgentsMatchStream'
  BY <1>2, <1>3, TapeClosed
<1>5. TypeOK'
  BY <1>2, <1>3, <1>4 DEF TypeOK
<1> QED BY <1>4, <1>5 DEF SessionInv

LEMMA MoverStopInv ==
    ASSUME SessionInv, MoverStop
    PROVE  SessionInv'
<1>1. /\ mover \in Mover /\ pc = "dispatch" /\ mover.state = "HALTED"
      /\ UNCHANGED <<pc, goal, did, is, tape, data, fmt, told, acct>>
      /\ mover' = MoverStopped(mover)
  BY DEF MoverStop, Dispatched, SessionInv, TypeOK
<1>2. /\ mover' \in Mover /\ mover'.state = "IDLE"
      /\ mover'.halt = mover.halt /\ mover'.mode = mover.mode
  BY <1>1 DEF MoverStopped, Mover, MoverState
<1>3. TypeOK'
  BY <1>1, <1>2 DEF SessionInv, TypeOK
<1>4. EndPointPairing'
  BY <1>1 DEF SessionInv, EndPointPairing
<1>5. AgentsMatchStream'
  BY <1>1, <1>2 DEF SessionInv, AgentsMatchStream, HaltedByDrain
<1> QED BY <1>3, <1>4, <1>5 DEF SessionInv

LEMMA MoverReadInv ==
    ASSUME SessionInv, NEW length \in 1 .. ReadMax, MoverRead(length)
    PROVE  SessionInv'
<1>1. /\ mover \in Mover /\ acct \in Account /\ pc = "dispatch"
      /\ UNCHANGED <<pc, goal, did, is, tape, data, fmt, told>>
      /\ mover' = [mover EXCEPT !.left = length]
      /\ acct' = [acct EXCEPT !.asked = @ + length]
  BY DEF MoverRead, Dispatched, SessionInv, TypeOK
<1>2. length \in 0 .. ReadMax /\ length \in Nat
  BY SizesAssumption
<1>3. /\ mover' \in Mover /\ mover'.state = mover.state
      /\ mover'.halt = mover.halt /\ mover'.mode = mover.mode
      /\ acct' \in Account
  BY <1>1, <1>2, MoverLeftType, AccountTypes
<1>4. TypeOK'
  BY <1>1, <1>3 DEF SessionInv, TypeOK
<1>5. EndPointPairing' /\ AgentsMatchStream'
  BY <1>1, <1>3, StreamKept
<1> QED BY <1>4, <1>5 DEF SessionInv

\* What connecting the DATA agent makes of the stream and of the mover
LEMMA Connected ==
    ASSUME SessionInv, pc = "dispatch", NEW addr \in Addrs, DataCanConnect(addr),
           MoverMet(addr)
    PROVE  LET s == StreamConnected(addr)
           IN  /\ s \in Stream /\ LegalStream(s) /\ s.ep["data"].cs = "CONNECTED"
               /\ mover' \in Mover /\ acct' \in Account
               /\ \/ mover'.state = "ACTIVE" /\ s.ep["tape"].cs = "ACCEPTED"
                  \/ mover'.state = "IDLE" /\ s.ep["tape"].cs = "REMOTE"
<1> DEFINE s == StreamConnected(addr)
           c == Connect(is, "data", addr)
<1>1. /\ mover \in Mover /\ mover.mode \in {"READ", "WRITE"} /\ acct \in Account
      /\ is \in Stream /\ LegalStream(is) /\ addr \in AddrType
      /\ CanConnect(is, "data", addr)
  BY KindsAssumption DEF SessionInv, TypeOK, EndPointPairing, Mover, MoverMode,
     DataCanConnect
<1>2. /\ c \in Stream /\ LegalStream(c) /\ c.ep["data"].cs = "CONNECTED"
      /\ c.ep["tape"].cs = IF addr = "LOCAL" THEN "ACCEPTED" ELSE "REMOTE"
  BY <1>1, ConnectType, ConnectSide DEF Side, Peer
<1> HIDE DEF c
<1>3. CASE addr = "LOCAL"
  <2>1. s = Start(c, "tape", mover.mode)
    BY <1>3 DEF StreamConnected, c
  <2>2. /\ s \in Stream /\ LegalStream(s)
        /\ \A e \in Side : s.ep[e].cs = c.ep[e].cs
    <3> DEFINE u == Start(c, "tape", mover.mode)
    <3>1. u \in Stream /\ LegalStream(u)
      BY <1>1, <1>2, StartType, StartLegal DEF Side
    <3>2. \A e \in Side : u.ep[e].cs = c.ep[e].cs
      BY <1>1, <1>2, StartKeeps DEF Side
    <3> HIDE DEF u
    <3>3. s = u
      BY <2>1 DEF u
    <3> QED BY <3>1, <3>2, <3>3
  <2>3. s.ep["data"].cs = "CONNECTED" /\ s.ep["tape"].cs = "ACCEPTED"
    BY <1>2, <1>3, <2>2 DEF Side
  <2>4. mover' \in Mover /\ mover'.state = "ACTIVE" /\ acct' \in Account
    BY <1>1, <1>3, MoverActiveType DEF MoverMet
  <2> QED BY <2>2, <2>3, <2>4
<1>4. CASE addr = "TCP"
  <2>1. s = c
    BY <1>4 DEF StreamConnected, c
  <2>2. mover' \in Mover /\ mover'.state = "IDLE" /\ acct' \in Account
    BY <1>1, <1>4, InitTypes DEF MoverMet, DataCanConnect
  <2>3. s.ep["tape"].cs = "REMOTE"
    BY <1>2, <1>4, <2>1
  <2> QED BY <1>2, <2>1, <2>2, <2>3
<1> QED BY <1>1, <1>3, <1>4 DEF AddrType

LEMMA DataConnectedType ==
    ASSUME NEW d \in Data, NEW addr \in AddrType, NEW op \in DataOp
    PROVE  LET c == [d EXCEPT !.state = "CONNECTED", !.addr = addr, !.halt = "NA"]
           IN  /\ c \in Data /\ c.state = "CONNECTED"
               /\ DataActive(c, op) \in Data /\ DataActive(c, op).state = "ACTIVE"
               /\ DataIdled(c) \in Data /\ DataIdled(c).state = "IDLE"
<1> DEFINE c == [d EXCEPT !.state = "CONNECTED", !.addr = addr, !.halt = "NA"]
<1>1. c \in Data /\ c.state = "CONNECTED"
  BY DEF Data, HaltReason
<1> HIDE DEF c
<1>2. DataActive(c, op) \in Data /\ DataActive(c, op).state = "ACTIVE"
  BY <1>1, DataTypes
<1>3. DataIdled(c) \in Data /\ DataIdled(c).state = "IDLE"
  BY <1>1, DataTypes
<1> QED BY <1>1, <1>2, <1>3 DEF c

LEMMA DataConnectInv ==
    ASSUME SessionInv, NEW addr \in Addrs, DataConnect(addr)
    PROVE  SessionInv'
<1>1. /\ data \in Data /\ pc = "dispatch" /\ UNCHANGED <<pc, goal, did, tape, fmt, told>>
      /\ DataCanConnect(addr) /\ MoverMet(addr) /\ is' = StreamConnected(addr)
      /\ data' = DataConnected(addr) /\ addr \in AddrType
  BY KindsAssumption DEF DataConnect, Dispatched, SessionInv, TypeOK
<1>2. data' \in Data /\ data'.state = "CONNECTED"
  BY <1>1, DataConnectedType DEF DataConnected, DataOp
<1>3. /\ is' \in Stream /\ LegalStream(is') /\ is'.ep["data"].cs = "CONNECTED"
      /\ mover' \in Mover /\ acct' \in Account
      /\ \/ mover'.state = "ACTIVE" /\ is'.ep["tape"].cs = "ACCEPTED"
         \/ mover'.state = "IDLE" /\ is'.ep["tape"].cs = "REMOTE"
  BY <1>1, Connected
<1>4. TypeOK'
  BY <1>1, <1>2, <1>3 DEF SessionInv, TypeOK
<1>5. EndPointPairing'
  BY <1>1, <1>3 DEF EndPointPairing
<1>6. AgentsMatchStream'
  BY <1>2, <1>3 DEF AgentsMatchStream
<1> QED BY <1>4, <1>5, <1>6 DEF SessionInv

LEMMA DataStartInv ==
    ASSUME SessionInv, NEW op \in Ops, DataStart(op)
    PROVE  SessionInv'
<1>1. /\ TypeOK /\ data \in Data /\ pc = "dispatch" /\ data.state = "CONNECTED"
      /\ UNCHANGED <<pc, goal, did, mover, tape, acct>>
      /\ is \in Stream /\ LegalStream(is) /\ op \in DataOp
  BY KindsAssumption
     DEF DataStart, Dispatched, SessionInv, TypeOK, EndPointPairing
<1>2. CASE /\ is' = Start(is, "data", DataModeFor(op))
           /\ data' = DataActive(data, op) /\ fmt' = NoFormatter
           /\ told' = [told EXCEPT !.data = "none"]
  <2>1. data' \in Data /\ data'.state = "ACTIVE"
    BY <1>1, <1>2, DataTypes
  <2>2. DataModeFor(op) \in {"READ", "WRITE"}
    BY DEF DataModeFor
  <2>3. /\ is' \in Stream /\ LegalStream(is')
        /\ \A e \in Side : is'.ep[e].cs = is.ep[e].cs
    BY <1>1, <1>2, <2>2, StartType, StartLegal, StartKeeps DEF Side
  <2>4. TypeOK'
    BY <1>1, <1>2, <2>1, <2>3, InitTypes, ToldReset DEF TypeOK
  <2>5. EndPointPairing'
    BY <1>1, <2>3 DEF EndPointPairing
  <2>6. AgentsMatchStream'
    BY <1>1, <2>1, <2>3 DEF SessionInv, AgentsMatchStream, HaltedByDrain, Side
  <2> QED BY <2>4, <2>5, <2>6 DEF SessionInv
<1>3. CASE StartFails(is, data)
  <2>1. /\ is' = Close(is, "data") /\ data' = DataIdled(data)
        /\ UNCHANGED <<fmt, told>>
    BY <1>3 DEF StartFails
  <2>2. data' \in Data /\ data'.state = "IDLE"
    BY <1>1, <2>1, DataTypes
  <2>3. is' \in Stream
    BY <1>1, <2>1, CloseType DEF Side
  <2>4. EndPointPairing' /\ AgentsMatchStream'
    BY <1>1, <2>1, <2>2, DataClosed
  <2>5. TypeOK'
    BY <1>1, <2>1, <2>2, <2>3 DEF TypeOK
  <2> QED BY <2>4, <2>5 DEF SessionInv
<1> QED BY <1>2, <1>3 DEF DataStart

LEMMA DataConnectStartInv ==
    ASSUME SessionInv, NEW op \in Ops, NEW addr \in Addrs,
           DataConnectStart(op, addr)
    PROVE  SessionInv'
<1> DEFINE s == StreamConnected(addr)
           d == DataConnected(addr)
<1>1. /\ TypeOK /\ data \in Data /\ pc = "dispatch"
      /\ UNCHANGED <<pc, goal, did, tape>>
      /\ DataCanConnect(addr) /\ MoverMet(addr)
      /\ addr \in AddrType /\ op \in DataOp
  BY KindsAssumption DEF DataConnectStart, Dispatched, SessionInv, TypeOK
<1>2. /\ s \in Stream /\ LegalStream(s) /\ s.ep["data"].cs = "CONNECTED"
      /\ mover' \in Mover /\ acct' \in Account
      /\ \/ mover'.state = "ACTIVE" /\ s.ep["tape"].cs = "ACCEPTED"
         \/ mover'.state = "IDLE" /\ s.ep["tape"].cs = "REMOTE"
  BY <1>1, Connected
<1>3. /\ DataActive(d, op) \in Data /\ DataActive(d, op).state = "ACTIVE"
      /\ DataIdled(d) \in Data /\ DataIdled(d).state = "IDLE"
  BY <1>1, DataConnectedType DEF DataConnected
<1> HIDE DEF s, d
<1>4. CASE /\ is' = Start(s, "data", DataModeFor(op))
           /\ data' = DataActive(d, op) /\ fmt' = NoFormatter
           /\ told' = [told EXCEPT !.data = "none"]
  <2>1. DataModeFor(op) \in {"READ", "WRITE"}
    BY DEF DataModeFor
  <2>2. /\ is' \in Stream /\ LegalStream(is')
        /\ \A e \in Side : is'.ep[e].cs = s.ep[e].cs
    BY <1>2, <1>4, <2>1, StartType, StartLegal, StartKeeps DEF Side
  <2>3. TypeOK'
    BY <1>1, <1>2, <1>3, <1>4, <2>2, InitTypes, ToldReset DEF TypeOK
  <2>4. EndPointPairing'
    BY <1>1, <2>2 DEF EndPointPairing
  <2>5. AgentsMatchStream'
    BY <1>2, <1>3, <1>4, <2>2 DEF AgentsMatchStream, Side
  <2> QED BY <2>3, <2>4, <2>5 DEF SessionInv
<1>5. CASE StartFails(s, d)
  <2>1. is' = Close(s, "data") /\ data' = DataIdled(d) /\ UNCHANGED <<fmt, told>>
    BY <1>5 DEF StartFails
  <2>2. /\ LegalStream(is') /\ is'.ep["data"].cs = "IDLE"
        /\ s.ep["tape"].cs = "REMOTE" => is'.ep["tape"].cs = "IDLE"
        /\ s.ep["tape"].cs = "ACCEPTED" => is'.ep["tape"].cs = "DISCONNECTED"
        /\ is' \in Stream
    BY <1>2, <2>1, CloseData, CloseType DEF Side
  <2>3. TypeOK'
    BY <1>1, <1>2, <1>3, <2>1, <2>2 DEF TypeOK
  <2>4. EndPointPairing'
    BY <1>1, <2>2 DEF EndPointPairing
  <2>5. AgentsMatchStream'
    BY <1>2, <1>3, <2>1, <2>2 DEF AgentsMatchStream
  <2> QED BY <2>3, <2>4, <2>5 DEF SessionInv
<1> QED BY <1>4, <1>5 DEF DataConnectStart, s, d

LEMMA DataEndsRequestInv ==
    ASSUME SessionInv, DataAbort \/ DataStop
    PROVE  SessionInv'
<1>1. /\ TypeOK /\ data \in Data /\ pc = "dispatch" /\ is \in Stream
      /\ UNCHANGED <<pc, goal, did, mover, tape, told, acct>>
      /\ data.state \in {"ACTIVE", "HALTED"} /\ is' = Close(is, "data")
  BY DEF DataAbort, DataStop, Dispatched, SessionInv, TypeOK
<1>2. data' \in Data /\ data'.state \in {"HALTED", "IDLE"}
  BY <1>1, DataTypes DEF DataAbort, DataStop, HaltReason
<1>3. fmt' \in Formatter /\ is' \in Stream
  BY <1>1, InitTypes, CloseType DEF DataAbort, DataStop, TypeOK, Side
<1>4. TypeOK'
  BY <1>1, <1>2, <1>3 DEF TypeOK
<1>5. EndPointPairing' /\ AgentsMatchStream'
  BY <1>1, <1>2, DataClosed
<1> QED BY <1>4, <1>5 DEF SessionInv

LEMMA SessionEndsInv ==
    ASSUME SessionInv, SessionEnds
    PROVE  SessionInv'
<1>1. /\ TypeOK /\ data \in Data /\ mover \in Mover /\ pc' = "ended"
      /\ is \in Stream /\ LegalStream(is) /\ data' = DataIdled(data)
      /\ is' = Close(Close(is, "data"), "tape")
      /\ mover' = [InitMover EXCEPT !.notify = mover.notify, !.pend = mover.pend]
      /\ UNCHANGED <<tape, fmt, told, acct, goal, did>>
  BY DEF SessionEnds, SessionInv, TypeOK, EndPointPairing
<1>2. is' \in Stream
  BY <1>1, CloseType DEF Side
<1>3. mover' \in Mover /\ mover'.state = "IDLE"
  BY <1>1, InitTypes DEF Mover, InitMover
<1>4. data' \in Data /\ data'.state = "IDLE"
  BY <1>1, DataTypes
<1>5. TypeOK'
  BY <1>1, <1>2, <1>3, <1>4 DEF TypeOK
<1>6. Link(is') \in {<<"IDLE", "IDLE", "IDLE">>, <<"IDLE", "IDLE", "BOTCHED">>}
  BY <1>1, CloseBoth
<1>7. EndPointPairing'
  BY <1>1, <1>6 DEF EndPointPairing
<1>8. is'.ep["data"].cs = "IDLE" /\ is'.ep["tape"].cs = "IDLE"
  BY <1>6 DEF Link
<1>9. AgentsMatchStream'
  BY <1>3, <1>4, <1>8 DEF AgentsMatchStream
<1> QED BY <1>5, <1>7, <1>9 DEF SessionInv

-----------------------------------------------------------------------------
(* The invariant.                                                           *)

LEMMA InitInv == Init => SessionInv
<1> SUFFICES ASSUME Init PROVE SessionInv
  OBVIOUS
<1>1. TypeOK
  BY InitTypes, InitStreamType DEF Init, TypeOK
<1>2. /\ is.ep["data"] = ZeroEndPoint /\ is.ep["tape"] = ZeroEndPoint
      /\ is.remote = "IDLE"
  BY DEF Init, InitStream, Side
<1>3. EndPointPairing
  BY <1>2 DEF Init, EndPointPairing, LegalStream, Link, LegalLink, AddrsAgree,
              ZeroEndPoint, Side
<1>4. AgentsMatchStream
  BY <1>2 DEF Init, InitMover, InitData, ZeroEndPoint, AgentsMatchStream
<1> QED BY <1>1, <1>3, <1>4 DEF SessionInv

LEMMA NextInv == SessionInv /\ [Next]_vars => SessionInv'
<1> SUFFICES ASSUME SessionInv, [Next]_vars PROVE SessionInv'
  OBVIOUS
<1>1. CASE Quantum
  BY <1>1, StreamQuantumInv, MoverRestsInv, MoverAwaitsInv, MoverReadsInv,
     MoverWritesInv, DataRestsInv, DataBackupsInv, DataRecoversInv,
     DataOverrunsInv DEF Quantum, MoverOf, DataOf
<1>2. CASE Poll
  BY <1>2, PollStreamInv, PollFormatterInv, PollEndsInv DEF Poll
<1>3. CASE Request
  <2>1. CASE MoverRequest
    BY <2>1, MoverListenInv, MoverConnectInv, MoverContinueInv, MoverHaltsInv,
       MoverStopInv, MoverReadInv DEF MoverRequest
  <2>2. CASE DataRequest
    BY <2>2, DataConnectInv, DataStartInv, DataConnectStartInv,
       DataEndsRequestInv DEF DataRequest
  <2> QED BY <1>3, <2>1, <2>2, TapeInv DEF Request
<1>4. CASE DispatchEnds
  BY <1>4, PollEndsInv
<1>5. CASE SessionEnds
  BY <1>5, SessionEndsInv
<1>6. CASE UNCHANGED vars
  BY <1>6 DEF vars, SessionInv, TypeOK, EndPointPairing, AgentsMatchStream,
     HaltedByDrain
<1>7. CASE Ended
  BY <1>6, <1>7 DEF Ended
<1> QED BY <1>1, <1>2, <1>3, <1>4, <1>5, <1>6, <1>7 DEF Next

\* SessionInv holds throughout: it is inductive as it stands, because the legal
\* combinations of the end points are named together with the agents' states.
THEOREM SessionInvariant == Spec => []SessionInv
<1>1. Init => SessionInv
  BY InitInv
<1>2. SessionInv /\ [Next]_vars => SessionInv'
  BY NextInv
<1> QED BY <1>1, <1>2, PTL DEF Spec

\* Every variable keeps to what its C counterpart can hold: the channel never
\* holds more than its buffer, however records are padded and reads stop short.
THEOREM TypeCorrect == Spec => []TypeOK
<1>1. SessionInv => TypeOK
  BY DEF SessionInv
<1> QED BY <1>1, SessionInvariant, PTL

\* The two end points and the remote side are only ever in the combinations the
\* image stream's functions were written for.
THEOREM Paired == Spec => []EndPointPairing
<1>1. SessionInv => EndPointPairing
  BY DEF SessionInv
<1> QED BY <1>1, SessionInvariant, PTL

\* An agent that is engaged has an end of the stream that is, and one that is
\* not has let go of it, but for a mover halted after the drain.
THEOREM AgentsMatch == Spec => []AgentsMatchStream
<1>1. SessionInv => AgentsMatchStream
  BY DEF SessionInv
<1> QED BY <1>1, SessionInvariant, PTL

-----------------------------------------------------------------------------
(* The notices.                                                             *)

\* A mover that stops is marked, so that the end of the quantum tells of it
Marked(m) ==
    /\ NoticeSent(m).state = m.state
    /\ m.state \in {"PAUSED", "HALTED"} => m.notify

LEMMA MarkedTypes ==
    ASSUME NEW m \in Mover
    PROVE  /\ \A reason : Marked(MoverHalted(m, reason)) /\ Marked(MoverPaused(m, reason))
           /\ Marked(MoverActive(m)) /\ Marked(MoverApplied(m))
           /\ m.state = "ACTIVE" => Marked(m)
           /\ m.state = "ACTIVE" => \A left, pend :
                  LET m1 == [m EXCEPT !.left = left]
                      m2 == [m1 EXCEPT !.pend = pend]
                  IN  Marked(m1) /\ Marked(m2) /\ Marked(MoverApplied(m2))
<1>1. \A reason : Marked(MoverHalted(m, reason)) /\ Marked(MoverPaused(m, reason))
  BY DEF Marked, MoverHalted, MoverPaused, NoticeSent, Mover
<1>2. Marked(MoverActive(m)) /\ (m.state = "ACTIVE" => Marked(m))
  BY DEF Marked, MoverActive, NoticeSent, Mover
<1>3. Marked(MoverApplied(m))
  BY <1>1 DEF MoverApplied
<1>4. ASSUME m.state = "ACTIVE", NEW left, NEW pend
      PROVE  LET m1 == [m EXCEPT !.left = left]
                 m2 == [m1 EXCEPT !.pend = pend]
             IN  Marked(m1) /\ Marked(m2) /\ Marked(MoverApplied(m2))
  <2> DEFINE m1 == [m EXCEPT !.left = left]
             m2 == [m1 EXCEPT !.pend = pend]
  <2>1. Marked(m1)
    BY <1>4 DEF Marked, NoticeSent, Mover
  <2>2. Marked(m2)
    BY <1>4 DEF Marked, NoticeSent, Mover
  <2>3. Marked(MoverHalted(m2, pend)) /\ Marked(MoverPaused(m2, pend))
        /\ m2.pend = pend
    BY DEF Marked, MoverHalted, MoverPaused, NoticeSent, Mover
  <2>4. Marked(MoverApplied(m2))
    <3> HIDE DEF m2
    <3> QED BY <2>3 DEF MoverApplied
  <2> QED BY <2>1, <2>2, <2>4
<1> QED BY <1>1, <1>2, <1>3, <1>4

LEMMA MarkedTold ==
    ASSUME TypeOK, NEW m, Marked(m), MoverBecomes(m)
    PROVE  MoverNotice' /\ told'.data = told.data
BY DEF TypeOK, Marked, MoverBecomes, MoverTold, MoverNotice

LEMMA MoverQuantumTells ==
    ASSUME SessionInv, MoverNotice, MoverOf
    PROVE  MoverNotice' /\ told'.data = told.data /\ data' = data
<1>1. TypeOK /\ mover \in Mover
  BY DEF SessionInv, TypeOK
<1>2. CASE MoverIdles
  BY <1>2 DEF MoverIdles, MoverNotice
<1>3. CASE MoverRests
  <2>1. /\ mover' = NoticeSent(mover) /\ NoticeSent(mover).state = mover.state
        /\ told' = [told EXCEPT !.mover = MoverTold(mover)] /\ data' = data
    BY <1>1, <1>3, NoticeSentType DEF MoverRests, MoverBecomes
  <2> QED BY <1>1, <2>1 DEF TypeOK, MoverNotice, MoverTold
<1>4. CASE MoverAwaits
  <2>1. \/ MoverBecomes(mover) \/ MoverBecomes(MoverActive(mover))
        \/ MoverBecomes(MoverHalted(mover, "CONNECT_ERROR"))
    BY <1>4 DEF MoverAwaits
  <2>2. Marked(mover) /\ data' = data
    BY <1>1, <1>4, NoticeSentType DEF MoverAwaits, Marked
  <2> QED BY <1>1, <2>1, <2>2, MarkedTypes, MarkedTold
<1>5. CASE MoverReads
  <2>1. \/ MoverBecomes(mover)
        \/ \E reason : \/ MoverBecomes(MoverHalted(mover, reason))
                       \/ MoverBecomes(MoverPaused(mover, reason))
    BY <1>5 DEF MoverReads
  <2>2. mover.state = "ACTIVE" /\ data' = data
    BY <1>5 DEF MoverReads
  <2> QED BY <1>1, <2>1, <2>2, MarkedTypes, MarkedTold
<1>6. CASE MoverWrites
  <2>1. \/ MoverBecomes(mover) \/ MoverBecomes(MoverApplied(mover))
        \/ \E left, pend :
              LET m1 == [mover EXCEPT !.left = left]
                  m2 == [m1 EXCEPT !.pend = pend]
              IN  MoverBecomes(m1) \/ MoverBecomes(m2) \/ MoverBecomes(MoverApplied(m2))
    BY <1>6 DEF MoverWrites
  <2>2. mover.state = "ACTIVE" /\ data' = data
    BY <1>6 DEF MoverWrites
  <2> QED BY <1>1, <2>1, <2>2, MarkedTypes, MarkedTold
<1> QED BY <1>2, <1>3, <1>4, <1>5, <1>6 DEF MoverOf

LEMMA DataTellsNotice ==
    ASSUME TypeOK, DataNotice,
           DataBecomes(data) \/ \E reason : DataBecomes(DataHalted(data, reason))
    PROVE  DataNotice' /\ told'.mover = told.mover
<1>1. data \in Data
  BY DEF TypeOK
<1>2. CASE DataBecomes(data)
  <2>1. NoticeSent(data).state = data.state
    BY <1>1, DataTypes
  <2> QED BY <1>2, <2>1 DEF TypeOK, DataBecomes, DataTold, DataNotice
<1>3. ASSUME NEW reason, DataBecomes(DataHalted(data, reason))
      PROVE  DataNotice' /\ told'.mover = told.mover
  <2>1. DataHalted(data, reason).state = "HALTED" /\ DataHalted(data, reason).notify
    BY <1>1 DEF DataHalted, Data
  <2> QED BY <1>3, <2>1 DEF TypeOK, DataBecomes, DataTold, DataNotice
<1> QED BY <1>2, <1>3

\* Besides the notice, the DATA agent's quantum may only set what is left to read
LEMMA DataQuantumTells ==
    ASSUME SessionInv, NoticeNotLost, DataOf
    PROVE  NoticeNotLost'
<1>1. TypeOK /\ mover \in Mover
  BY DEF SessionInv, TypeOK
<1>2. \/ UNCHANGED <<data, told>>
      \/ DataBecomes(data)
      \/ \E reason : DataBecomes(DataHalted(data, reason))
  BY DEF DataOf, DataIdles, DataRests, DataBackups, DataRecovers, DataOverruns,
         DataHaltsRecover
<1>3. mover' = mover \/ \E left : mover' = [mover EXCEPT !.left = left]
  BY DEF DataOf, DataIdles, DataRests, DataBackups, DataRecovers, DataOverruns,
         DataHaltsRecover
<1>4. mover'.state = mover.state /\ mover'.notify = mover.notify
  BY <1>1, <1>3 DEF Mover
<1>5. DataNotice' /\ told'.mover = told.mover
  BY <1>1, <1>2, DataTellsNotice DEF NoticeNotLost, DataNotice
<1> QED BY <1>4, <1>5 DEF NoticeNotLost, MoverNotice

LEMMA MoverRequestTells ==
    ASSUME SessionInv, NoticeNotLost, MoverRequest
    PROVE  NoticeNotLost'
<1>1. mover \in Mover /\ UNCHANGED data
  BY DEF SessionInv, TypeOK, MoverRequest, MoverListen, MoverConnect,
         MoverContinue, MoverAbort, MoverClose, MoverHalts, MoverStop, MoverRead
<1>2. told' = told \/ told' = [told EXCEPT !.mover = "none"]
  BY DEF MoverRequest, MoverListen, MoverConnect, MoverContinue, MoverAbort,
         MoverClose, MoverHalts, MoverStop, MoverRead
<1>3. DataNotice'
  BY <1>1, <1>2 DEF SessionInv, TypeOK, NoticeNotLost, DataNotice
<1>4. \/ \E mode, addr : mover' = MoverListening(mover, mode, addr)
      \/ \E mode, addr : mover' = MoverActive([mover EXCEPT !.mode = mode, !.addr = addr])
      \/ mover' = MoverActive(mover) \/ mover' = MoverStopped(mover)
      \/ \E reason : mover' = MoverHalted(mover, reason)
      \/ told' = told /\ \E addr : mover' = [mover EXCEPT !.addr = addr]
      \/ told' = told /\ \E left : mover' = [mover EXCEPT !.left = left]
  BY DEF MoverRequest, MoverListen, MoverConnect, MoverContinue, MoverAbort,
         MoverClose, MoverHalts, MoverStop, MoverRead
<1>5. \/ mover'.state \in {"LISTEN", "ACTIVE", "IDLE"}
      \/ mover'.notify
      \/ mover'.state = mover.state /\ mover'.notify = mover.notify /\ told' = told
  BY <1>1, <1>4 DEF Mover, MoverListening, MoverActive, MoverStopped, MoverHalted
<1>6. MoverNotice'
  BY <1>5 DEF NoticeNotLost, MoverNotice
<1> QED BY <1>3, <1>6 DEF NoticeNotLost

LEMMA DataRequestTells ==
    ASSUME SessionInv, NoticeNotLost, DataRequest
    PROVE  NoticeNotLost'
<1>1. TypeOK /\ mover \in Mover /\ data \in Data
  BY DEF SessionInv, TypeOK
<1>2. mover' = mover \/ mover' = NoticeSent(MoverActive(mover))
  BY DEF DataRequest, DataConnect, DataStart, DataConnectStart, DataAbort,
         DataStop, MoverMet
<1>3. told' = told \/ told' = [told EXCEPT !.data = "none"]
  BY DEF DataRequest, DataConnect, DataStart, DataConnectStart, DataAbort,
         DataStop, StartFails
<1>4. MoverNotice'
  <2>1. mover' = mover \/ mover'.state = "ACTIVE"
    BY <1>1, <1>2, MoverActiveType
  <2>2. told'.mover = told.mover
    BY <1>1, <1>3 DEF TypeOK
  <2> QED BY <2>1, <2>2 DEF NoticeNotLost, MoverNotice
<1>5. \/ \E addr : data' = DataConnected(addr) \/ data' = DataIdled(DataConnected(addr))
      \/ \E op, addr : data' = DataActive(DataConnected(addr), op)
      \/ \E op : data' = DataActive(data, op)
      \/ data' = DataIdled(data) \/ data' = DataHalted(data, "ABORTED")
  BY DEF DataRequest, DataConnect, DataStart, DataConnectStart, DataAbort,
         DataStop, StartFails
<1>6. data'.state \in {"CONNECTED", "IDLE", "ACTIVE"} \/ data'.notify
  BY <1>1, <1>5 DEF Data, DataConnected, DataIdled, DataActive, DataHalted
<1> QED BY <1>4, <1>6 DEF NoticeNotLost, DataNotice

LEMMA NextTells == SessionInv /\ NoticeNotLost /\ [Next]_vars => NoticeNotLost'
<1> SUFFICES ASSUME SessionInv, NoticeNotLost, [Next]_vars PROVE NoticeNotLost'
  OBVIOUS
<1>1. CASE MoverOf
  BY <1>1, MoverQuantumTells DEF NoticeNotLost, DataNotice
<1>2. CASE DataOf
  BY <1>2, DataQuantumTells
<1>3. CASE MoverRequest
  BY <1>3, MoverRequestTells
<1>4. CASE DataRequest
  BY <1>4, DataRequestTells
<1>5. CASE SessionEnds
  <2>1. data'.state = "IDLE" /\ mover'.state = "IDLE"
    BY <1>5, DataTypes DEF SessionEnds, SessionInv, TypeOK, InitMover
  <2> QED BY <2>1 DEF NoticeNotLost, MoverNotice, DataNotice
<1>6. CASE UNCHANGED <<mover, data, told>>
  BY <1>6 DEF NoticeNotLost, MoverNotice, DataNotice
<1>7. CASE StreamAccepts \/ StreamIdles \/ Poll \/ TapeOpen \/ TapeClose
           \/ DispatchEnds \/ Ended \/ UNCHANGED vars
  BY <1>6, <1>7 DEF StreamAccepts, StreamIdles, Poll, PollConnects, PollReceives,
     PollSends, PollFormatterImage, PollFormatterFed, PollFormatterLines,
     PollEnds, Polled, TapeOpen, TapeClose, Dispatched, DispatchEnds, Ended, vars
<1> QED BY <1>1, <1>2, <1>3, <1>4, <1>5, <1>7 DEF Next, Quantum, Request

\* What the CONTROL agent waits for is told, or marked to be told: no order of
\* aborts, stops, drains and restarts loses the notice of the present state.
THEOREM NoticesKept == Spec => []NoticeNotLost
<1>1. Init => NoticeNotLost
  BY DEF Init, InitMover, InitData, NoticeNotLost, MoverNotice, DataNotice
<1>2. SessionInv /\ NoticeNotLost /\ [Next]_vars => NoticeNotLost'
  BY NextTells
<1> QED BY <1>1, <1>2, SessionInvariant, PTL DEF Spec

=============================================================================
