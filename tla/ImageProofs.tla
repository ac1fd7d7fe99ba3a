---------------------------- MODULE ImageProofs ----------------------------
(***************************************************************************)
(* The image is neither lost nor duplicated on its way through a session:   *)
(* an inductive account of what entered, what left and what is in the two   *)
(* buffers, for every size of buffer and record, every set of addresses,    *)
(* operations and faults; and what follows from it.                         *)
(***************************************************************************)
EXTENDS SessionProofs

-----------------------------------------------------------------------------
(* The inductive invariant.                                                 *)

Engaged == mover.state \in {"ACTIVE", "PAUSED"}

\* The channel of a LOCAL connection is never polled
LocalChan == is.remote = "EXCLUDE" => is.chan.mode \notin {"READ", "WRITE"}

AddrsMatch ==
    mover.state = "LISTEN" \/ Engaged =>
        (mover.addr = "LOCAL" <=> is.remote = "EXCLUDE")

\* A mover that is engaged moves image the way the DATA agent's operation does
ModesMatch ==
    data.state \in {"ACTIVE", "HALTED"} /\ Engaged =>
        mover.mode = MoverModeFor(data.op)

\* Nothing of an earlier job is in the channel a new one will use
StreamClean ==
    pc # "ended" /\ is.ep["data"].cs = "IDLE"
        /\ is.ep["tape"].cs \in {"IDLE", "LISTEN"} => is.chan = ZeroChan

LinkInv == LocalChan /\ AddrsMatch /\ ModesMatch /\ StreamClean

\* All that entered is in the channel or has left
Whole == acct.made + acct.pad = acct.out + is.chan.n

\* While nothing can have reached the formatter's buffer
WholeDue ==
    \/ data.state = "CONNECTED" \/ mover.state = "LISTEN"
    \/ mover.addr = "TCP" /\ Engaged

Balanced ==
    /\ data.state = "ACTIVE" => acct.made + acct.pad = acct.out + InFlight
    /\ WholeDue => Whole

\* A mover at work sees the end of the image only behind all of it
EndSeen ==
    /\ data.state = "CONNECTED" /\ Engaged => ~is.chan.eof
    /\ data.state = "ACTIVE" /\ data.op = "BACKUP" /\ Engaged /\ is.chan.eof =>
           fmt.img = 0 /\ fmt.imgEof

BackupDone ==
    data.state = "HALTED" /\ data.op = "BACKUP" /\ data.halt = "SUCCESSFUL"

Emptied == BackupDone => acct.made + acct.pad = acct.out /\ is.chan.n = 0

\* Before the image has ended
Unended ==
    \/ data.state = "CONNECTED" \/ mover.state = "LISTEN"
    \/ data.state = "ACTIVE" /\ data.op = "BACKUP" /\ ~fmt.imgEof

\* No record is filled up with zeroes before the image has ended
PaddedAtTheEnd == Unended => acct.pad = 0

AccountInv == Balanced /\ EndSeen /\ Emptied /\ PaddedAtTheEnd

ImageInv == SessionInv /\ LinkInv /\ AccountInv

-----------------------------------------------------------------------------
(* What the stream's operators do to the channel.                           *)

LEMMA CloseChan ==
    ASSUME NEW s \in Stream, NEW side \in Side, s.ep[side].cs # "IDLE"
    PROVE  LET mine == s.ep[side]
               peer == s.ep[Peer(side)]
           IN  Close(s, side).chan = IF Reinits(mine) THEN ZeroChan
                                     ELSE IF LocalPair(mine, peer)
                                     THEN HungUp(s.chan, mine) ELSE s.chan
BY DEF Close, ReinitRemote, Stream

LEMMA HungUpChan ==
    ASSUME NEW c \in Chan, NEW mine
    PROVE  LET h == HungUp(c, mine)
           IN  h.mode = c.mode /\ h.n = c.n /\ h.eof
BY DEF HungUp, Chan

\* The mover's end closes: the stream is released, or a LOCAL peer is left with
\* what it has not read, or an accept() that failed is let go of
LEMMA TapeCloses ==
    ASSUME NEW s \in Stream, LegalStream(s),
           s.ep["tape"].cs \notin {"IDLE", "REMOTE"}
    PROVE  LET t == Close(s, "tape")
           IN  \/ t.chan = ZeroChan /\ t.remote = "IDLE"
               \/ /\ s.ep["data"].cs = "CONNECTED" /\ s.remote = "EXCLUDE"
                  /\ t.ep["data"].cs = "DISCONNECTED" /\ t.remote = "EXCLUDE"
                  /\ t.chan.mode = s.chan.mode /\ t.chan.n = s.chan.n
               \/ /\ s.ep["data"].cs = "REMOTE"
                  /\ t.ep["data"].cs = "REMOTE" /\ t.remote = "BOTCHED"
                  /\ t.chan = s.chan
<1> DEFINE t    == Close(s, "tape")
           mine == s.ep["tape"]
           peer == s.ep["data"]
<1>1. mine \in EndPoint /\ peer \in EndPoint /\ s.chan \in Chan
  BY DEF Stream, Side
<1>2. /\ t.ep["data"] = PeerAfter(mine, peer)
      /\ t.remote = IF Reinits(mine) THEN "IDLE" ELSE s.remote
  BY CloseEnds DEF Side, Peer
<1>3. t.chan = IF Reinits(mine) THEN ZeroChan
               ELSE IF LocalPair(mine, peer) THEN HungUp(s.chan, mine) ELSE s.chan
  BY CloseChan DEF Side, Peer
<1>4. HungUp(s.chan, mine).mode = s.chan.mode /\ HungUp(s.chan, mine).n = s.chan.n
  BY <1>1, HungUpChan
<1>5. mine.cs = "ACCEPTED" /\ peer.cs = "CONNECTED" => mine.addr = "LOCAL"
  BY <1>1, LegalStatus DEF LegalStream, AddrsAgree, Side
<1>6. CASE Reinits(mine)
  BY <1>2, <1>3, <1>6
<1>7. CASE ~Reinits(mine) /\ mine.cs = "BOTCHED"
  <2>1. peer.cs = "REMOTE" /\ s.remote = "BOTCHED"
    BY <1>7, LegalStatus
  <2>2. ~LocalPair(mine, peer) /\ PeerAfter(mine, peer) = peer
    BY <1>7, <2>1 DEF LocalPair, PeerAfter
  <2> QED BY <1>2, <1>3, <1>7, <2>1, <2>2
<1>8. CASE ~Reinits(mine) /\ mine.cs # "BOTCHED"
  <2>1. mine.cs \in {"ACCEPTED", "CONNECTED"} /\ mine.addr = "LOCAL"
    BY <1>1, <1>8, LegalStatus DEF Reinits, EndPoint, AddrType
  <2>2. mine.cs = "ACCEPTED" /\ peer.cs = "CONNECTED" /\ s.remote = "EXCLUDE"
    BY <2>1, LegalStatus DEF LegalStream, AddrsAgree, Side
  <2>3. LocalPair(mine, peer)
    BY <2>1, <2>2 DEF LocalPair
  <2>4. t.ep["data"].cs = "DISCONNECTED"
    BY <1>1, <1>2, <2>1, <2>3, PeerAfterStatus
  <2> QED BY <1>2, <1>3, <1>4, <1>8, <2>2, <2>3, <2>4
<1> QED BY <1>6, <1>7, <1>8

\* The DATA agent's end closes
LEMMA DataCloses ==
    ASSUME NEW s \in Stream, LegalStream(s),
           s.ep["data"].cs \in {"IDLE", "CONNECTED", "DISCONNECTED"}
    PROVE  LET t == Close(s, "data")
           IN  \/ s.ep["data"].cs = "IDLE" /\ t = s
               \/ /\ t.ep["tape"].cs = "IDLE"
                  /\ t.chan = ZeroChan /\ t.remote = "IDLE"
               \/ /\ s.ep["tape"].cs = "ACCEPTED" /\ s.remote = "EXCLUDE"
                  /\ t.ep["tape"].cs = "DISCONNECTED" /\ t.remote = "EXCLUDE"
                  /\ t.chan.mode = s.chan.mode /\ t.chan.n = s.chan.n
<1> DEFINE t    == Close(s, "data")
           mine == s.ep["data"]
           peer == s.ep["tape"]
<1>1. mine \in EndPoint /\ peer \in EndPoint /\ s.chan \in Chan
  BY DEF Stream, Side
<1>2. CASE mine.cs = "IDLE"
  BY <1>2, CloseIdle DEF Side
<1>3. CASE mine.cs # "IDLE"
  <2>1. /\ t.ep["tape"] = PeerAfter(mine, peer)
        /\ t.remote = IF Reinits(mine) THEN "IDLE" ELSE s.remote
    BY <1>3, CloseEnds DEF Side, Peer
  <2>2. t.chan = IF Reinits(mine) THEN ZeroChan
                 ELSE IF LocalPair(mine, peer) THEN HungUp(s.chan, mine) ELSE s.chan
    BY <1>3, CloseChan DEF Side, Peer
  <2>3. HungUp(s.chan, mine).mode = s.chan.mode /\ HungUp(s.chan, mine).n = s.chan.n
    BY <1>1, HungUpChan
  <2>4. \/ mine.cs = "DISCONNECTED" /\ peer.cs = "IDLE"
        \/ mine.cs = "CONNECTED" /\ peer.cs = "ACCEPTED" /\ s.remote = "EXCLUDE"
        \/ mine.cs = "CONNECTED" /\ peer.cs = "REMOTE" /\ s.remote = "CONNECTED"
    BY <1>3, LegalStatus
  <2>5. mine.cs = "CONNECTED" => (mine.addr = "LOCAL" <=> s.remote = "EXCLUDE")
    BY DEF LegalStream, AddrsAgree, Side
  <2>6. CASE mine.cs = "DISCONNECTED" /\ peer.cs = "IDLE"
    BY <1>1, <2>1, <2>2, <2>6, PeerAfterStatus DEF Reinits, LocalPair
  <2>7. CASE mine.cs = "CONNECTED" /\ peer.cs = "ACCEPTED" /\ s.remote = "EXCLUDE"
    <3>1. ~Reinits(mine) /\ LocalPair(mine, peer)
      BY <2>5, <2>7 DEF Reinits, LocalPair
    <3>2. t.ep["tape"].cs = "DISCONNECTED"
      BY <1>1, <2>1, <2>5, <2>7, <3>1, PeerAfterStatus
    <3> QED BY <2>1, <2>2, <2>3, <2>7, <3>1, <3>2
  <2>8. CASE mine.cs = "CONNECTED" /\ peer.cs = "REMOTE" /\ s.remote = "CONNECTED"
    <3>1. mine.addr = "TCP"
      BY <1>1, <2>5, <2>8 DEF EndPoint, AddrType
    <3> QED BY <1>1, <2>1, <2>2, <2>8, <3>1, PeerAfterStatus DEF Reinits
  <2> QED BY <2>4, <2>6, <2>7, <2>8
<1> QED BY <1>2, <1>3

\* Starting a transfer fills nothing in; a LOCAL one is not polled
LEMMA StartChan ==
    ASSUME NEW s \in Stream, NEW side \in Side, NEW mode \in {"READ", "WRITE"},
           LegalStream(s)
    PROVE  LET t == Start(s, side, mode)
           IN  /\ t.chan.n = s.chan.n /\ t.chan.eof = s.chan.eof
               /\ s.remote = "EXCLUDE" =>
                      t.chan.mode \in {s.chan.mode, "RESIDENT"}
<1> DEFINE t == Start(s, side, mode)
<1>1. s.chan \in Chan
  BY DEF Stream
<1>2. t.chan \in {s.chan, [s.chan EXCEPT !.mode = "RESIDENT"],
                  [s.chan EXCEPT !.mode = mode]}
  BY DEF Start, Stream
<1>3. t.chan.n = s.chan.n /\ t.chan.eof = s.chan.eof
  BY <1>1, <1>2 DEF Chan
<1>4. ASSUME s.remote = "EXCLUDE"
      PROVE  t.chan \in {s.chan, [s.chan EXCEPT !.mode = "RESIDENT"]}
  <2>1. s.ep[side].cs \in {"CONNECTED", "ACCEPTED"} => s.ep[side].addr = "LOCAL"
    BY <1>4 DEF LegalStream, AddrsAgree
  <2> QED BY <2>1 DEF Start, Stream
<1>5. [s.chan EXCEPT !.mode = "RESIDENT"].mode = "RESIDENT"
  BY <1>1 DEF Chan
<1> QED BY <1>3, <1>4, <1>5

LEMMA AcceptChan ==
    ASSUME NEW s \in Stream, NEW side \in Side, NEW ok \in BOOLEAN
    PROVE  LET t == Accept(s, side, ok)
           IN  /\ t.remote # "EXCLUDE"
               /\ t.chan.n = s.chan.n /\ t.chan.eof = s.chan.eof
BY DEF Accept, Stream, Chan

LEMMA ListenChan ==
    ASSUME NEW s \in Stream, NEW side \in Side, NEW addr \in AddrType
    PROVE  LET t == Listen(s, side, addr)
           IN  t.chan = s.chan /\ (addr = "LOCAL" <=> t.remote = "EXCLUDE")
BY DEF Listen, Stream

LEMMA ConnectChan ==
    ASSUME NEW s \in Stream, NEW side \in Side, NEW addr \in AddrType
    PROVE  LET t == Connect(s, side, addr)
           IN  /\ t.chan.n = s.chan.n /\ t.chan.eof = s.chan.eof
               /\ addr = "LOCAL" => t.chan = s.chan
               /\ addr = "LOCAL" <=> t.remote = "EXCLUDE"
BY DEF Connect, Stream, Chan, AddrType

-----------------------------------------------------------------------------
(* How an engaged agent stands to the stream.                               *)

LEMMA Standing ==
    ASSUME SessionInv, LinkInv, pc # "ended"
    PROVE  /\ mover.state = "LISTEN" => data.state = "IDLE"
           /\ Engaged => is.ep["tape"].cs \notin {"IDLE", "LISTEN"}
           /\ data.state \in {"CONNECTED", "ACTIVE"} => is.ep["data"].cs # "IDLE"
           /\ mover.addr = "TCP" /\ Engaged => data.state = "IDLE"
           /\ data.state \in {"CONNECTED", "ACTIVE"} /\ Engaged =>
                  is.remote = "EXCLUDE" /\ mover.addr = "LOCAL"
           /\ data.state = "HALTED" =>
                  \/ is.chan = ZeroChan
                  \/ is.chan.mode \notin {"READ", "WRITE"}
<1>1. LegalStream(is) /\ mover.addr \in {"LOCAL", "TCP"}
         /\ data.state \in {"IDLE", "CONNECTED", "ACTIVE", "HALTED"}
  BY DEF SessionInv, EndPointPairing, TypeOK, Mover, AddrType, Data
<1>2. mover.state = "LISTEN" => data.state = "IDLE"
  BY DEF SessionInv, AgentsMatchStream
<1>3. /\ Engaged => is.ep["tape"].cs \in {"ACCEPTED", "CONNECTED", "DISCONNECTED"}
      /\ data.state \in {"CONNECTED", "ACTIVE"} =>
             is.ep["data"].cs \in {"CONNECTED", "DISCONNECTED"}
      /\ data.state = "HALTED" => is.ep["data"].cs = "IDLE"
  BY DEF SessionInv, AgentsMatchStream, Engaged
<1>4. data.state \in {"CONNECTED", "ACTIVE"} /\ Engaged => is.remote = "EXCLUDE"
  BY <1>1, <1>3, LegalStatus
<1>5. Engaged => (mover.addr = "LOCAL" <=> is.remote = "EXCLUDE")
  BY DEF LinkInv, AddrsMatch
<1>6. data.state = "HALTED" /\ Engaged => is.remote = "EXCLUDE"
  BY <1>1, <1>3, LegalStatus
<1>7. data.state = "HALTED" => \/ is.chan = ZeroChan
                              \/ is.chan.mode \notin {"READ", "WRITE"}
  <2>1. data.state = "HALTED" => \/ is.ep["tape"].cs \in {"IDLE", "LISTEN"}
                                 \/ is.remote = "EXCLUDE"
    BY <1>1, <1>3, LegalStatus
  <2> QED BY <1>3, <2>1 DEF LinkInv, StreamClean, LocalChan
<1> QED BY <1>1, <1>2, <1>3, <1>4, <1>5, <1>6, <1>7

\* What a step may do to the mover besides connecting it
MoverGoesOn ==
    \/ mover'.state \in {"IDLE", "HALTED"}
    \/ /\ mover'.addr = mover.addr /\ mover'.mode = mover.mode
       /\ \/ mover'.state = mover.state
          \/ Engaged /\ Engaged'

\* A step that leaves the ends, the remote side and the channel's mode alone
LEMMA LinkKept ==
    ASSUME SessionInv, LinkInv, pc # "ended",
           is'.ep = is.ep, is'.remote = is.remote, is'.chan.mode = is.chan.mode,
           is'.chan = is.chan \/ is.chan.mode \in {"READ", "WRITE"} \/ Engaged
               \/ data.state = "ACTIVE",
           data'.state = data.state, data'.op = data.op, MoverGoesOn
    PROVE  LinkInv'
<1>1. LocalChan'
  BY DEF LinkInv, LocalChan
<1>2. AddrsMatch'
  BY DEF LinkInv, AddrsMatch, MoverGoesOn, Engaged
<1>3. ModesMatch'
  BY DEF LinkInv, ModesMatch, MoverGoesOn, Engaged
<1>4. StreamClean'
  <2> SUFFICES ASSUME is.ep["data"].cs = "IDLE", is.ep["tape"].cs \in {"IDLE", "LISTEN"}
               PROVE  is'.chan = ZeroChan
    BY DEF StreamClean
  <2>1. is.chan = ZeroChan
    BY DEF LinkInv, StreamClean
  <2>2. is.chan.mode = "IDLE"
    BY <2>1 DEF ZeroChan
  <2> QED BY <2>1, <2>2, Standing
<1> QED BY <1>1, <1>2, <1>3, <1>4 DEF LinkInv

\* The mover halts and closes its end
LEMMA LinkTapeClosed ==
    ASSUME SessionInv, LinkInv, pc # "ended", NEW s \in Stream,
           s.ep = is.ep, s.remote = is.remote, s.chan.mode = is.chan.mode,
           is' = Close(s, "tape"),
           mover.state \in {"LISTEN", "ACTIVE", "PAUSED"}, mover'.state = "HALTED"
    PROVE  LinkInv'
<1> DEFINE t == Close(s, "tape")
<1>1. LegalStream(s) /\ s.ep["tape"].cs \notin {"IDLE", "REMOTE"}
  BY DEF SessionInv, EndPointPairing, LegalStream, Link, AddrsAgree,
         AgentsMatchStream
<1>2. \/ t.chan = ZeroChan /\ t.remote = "IDLE"
      \/ /\ s.ep["data"].cs = "CONNECTED" /\ s.remote = "EXCLUDE"
         /\ t.ep["data"].cs = "DISCONNECTED" /\ t.remote = "EXCLUDE"
         /\ t.chan.mode = s.chan.mode /\ t.chan.n = s.chan.n
      \/ /\ s.ep["data"].cs = "REMOTE"
         /\ t.ep["data"].cs = "REMOTE" /\ t.remote = "BOTCHED"
         /\ t.chan = s.chan
  BY <1>1, TapeCloses
<1> HIDE DEF t
<1>3. is' = t
  BY DEF t
<1>4. LocalChan'
  BY <1>2, <1>3 DEF LinkInv, LocalChan
<1>5. StreamClean'
  BY <1>2, <1>3 DEF StreamClean
<1> QED BY <1>4, <1>5 DEF LinkInv, AddrsMatch, ModesMatch, Engaged

\* The DATA agent halts, or gives up, and closes its end
LEMMA LinkDataClosed ==
    ASSUME SessionInv, SessionInv', LinkInv, pc # "ended", NEW s \in Stream,
           s.ep = is.ep, s.remote = is.remote, s.chan.mode = is.chan.mode,
           s.chan = is.chan \/ data.state = "ACTIVE",
           is'.ep = Close(s, "data").ep, is'.remote = Close(s, "data").remote,
           is'.chan.mode = Close(s, "data").chan.mode,
           Close(s, "data").chan = ZeroChan => is'.chan = ZeroChan,
           data.state = "HALTED" => is'.chan = Close(s, "data").chan,
           data.state \in {"CONNECTED", "ACTIVE", "HALTED"},
           \/ data'.state = "IDLE"
           \/ data'.state = "HALTED" /\ data'.op = data.op /\ data.state # "CONNECTED",
           mover'.state = mover.state, mover'.addr = mover.addr,
           mover'.mode = mover.mode
    PROVE  LinkInv'
<1> DEFINE t == Close(s, "data")
<1>1. /\ LegalStream(s)
      /\ s.ep["data"].cs \in {"IDLE", "CONNECTED", "DISCONNECTED"}
      /\ data.state \in {"CONNECTED", "ACTIVE"} => s.ep["data"].cs # "IDLE"
  BY DEF SessionInv, EndPointPairing, LegalStream, Link, AddrsAgree,
         AgentsMatchStream
<1>2. \/ s.ep["data"].cs = "IDLE" /\ t = s
      \/ /\ t.ep["tape"].cs = "IDLE"
         /\ t.chan = ZeroChan /\ t.remote = "IDLE"
      \/ /\ s.ep["tape"].cs = "ACCEPTED" /\ s.remote = "EXCLUDE"
         /\ t.ep["tape"].cs = "DISCONNECTED" /\ t.remote = "EXCLUDE"
         /\ t.chan.mode = s.chan.mode /\ t.chan.n = s.chan.n
  BY <1>1, DataCloses
<1> HIDE DEF t
<1>3. /\ is'.ep = t.ep /\ is'.remote = t.remote /\ is'.chan.mode = t.chan.mode
      /\ t.chan = ZeroChan => is'.chan = ZeroChan
      /\ data.state = "HALTED" => is'.chan = t.chan
  BY DEF t
<1>4. LocalChan'
  <2>1. CASE s.ep["data"].cs = "IDLE" /\ t = s
    BY <1>3, <2>1 DEF LinkInv, LocalChan
  <2>2. CASE t.remote = "IDLE"
    BY <1>3, <2>2 DEF LocalChan
  <2>3. CASE s.remote = "EXCLUDE" /\ t.chan.mode = s.chan.mode
    BY <1>3, <2>3 DEF LinkInv, LocalChan
  <2> QED BY <1>2, <2>1, <2>2, <2>3
<1>5. Engaged' => Engaged /\ is'.ep["tape"].cs # "IDLE" /\ mover.state # "LISTEN"
  BY DEF SessionInv, AgentsMatchStream, Engaged
<1>6. mover.state # "LISTEN"
  BY DEF SessionInv, AgentsMatchStream
<1>7. AddrsMatch'
  <2> SUFFICES ASSUME Engaged'
               PROVE  mover'.addr = "LOCAL" <=> is'.remote = "EXCLUDE"
    BY <1>6 DEF AddrsMatch
  <2>1. is'.remote = is.remote
    BY <1>2, <1>3, <1>5
  <2> QED BY <1>5, <2>1 DEF LinkInv, AddrsMatch
<1>8. ModesMatch'
  BY <1>5 DEF LinkInv, ModesMatch
<1>9. StreamClean'
  <2> SUFFICES ASSUME is'.ep["data"].cs = "IDLE",
                      is'.ep["tape"].cs \in {"IDLE", "LISTEN"}
               PROVE  is'.chan = ZeroChan
    BY DEF StreamClean
  <2>1. CASE s.ep["data"].cs = "IDLE" /\ t = s
    <3>1. data.state = "HALTED" /\ s.chan = is.chan
      BY <1>1, <2>1
    <3>2. is'.chan = is.chan
      BY <1>3, <2>1, <3>1
    <3> QED BY <1>3, <2>1, <3>2 DEF LinkInv, StreamClean
  <2> QED BY <1>2, <1>3, <2>1
<1> QED BY <1>4, <1>7, <1>8, <1>9 DEF LinkInv

-----------------------------------------------------------------------------
(* The account.                                                             *)

LEMMA Counts ==
    ASSUME NEW a \in Account, NEW s \in Stream, NEW f \in Formatter
    PROVE  /\ a.made \in Nat /\ a.pad \in Nat /\ a.out \in Nat
           /\ s.chan.n \in Nat /\ s.chan.n <= ChanSize /\ s.chan.eof \in BOOLEAN
           /\ f.img \in Nat /\ f.img <= ImageSize /\ f.imgEof \in BOOLEAN
BY SizesAssumption, ChanSizeAssumption DEF Account, Stream, Chan, Formatter

\* A step that moves image, or leaves it, and keeps the agents as they are
LEMMA AccountMoved ==
    ASSUME SessionInv, SessionInv', LinkInv, AccountInv, pc # "ended",
           data'.state = data.state, data'.op = data.op, data'.halt = data.halt,
           MoverGoesOn,
           acct'.made + acct'.pad + (acct.out + InFlight)
               = acct.made + acct.pad + (acct'.out + InFlight'),
           WholeDue =>
               acct'.made + acct'.pad + (acct.out + is.chan.n)
                   = acct.made + acct.pad + (acct'.out + is'.chan.n),
           Unended' => Unended /\ acct'.pad = acct.pad,
           data.state = "CONNECTED" /\ Engaged => is'.chan.eof = is.chan.eof,
           data.state = "ACTIVE" /\ data.op = "BACKUP" /\ Engaged /\ is'.chan.eof =>
               fmt'.img = 0 /\ fmt'.imgEof,
           BackupDone => /\ acct'.made + acct'.pad = acct'.out
                         /\ is'.chan.n = 0
    PROVE  AccountInv'
<1>1. /\ acct.made \in Nat /\ acct.pad \in Nat /\ acct.out \in Nat
      /\ is.chan.n \in Nat /\ fmt.img \in Nat
      /\ acct'.made \in Nat /\ acct'.pad \in Nat /\ acct'.out \in Nat
      /\ is'.chan.n \in Nat /\ fmt'.img \in Nat /\ fmt'.imgEof \in BOOLEAN
  <2>1. /\ is \in Stream /\ fmt \in Formatter /\ acct \in Account
        /\ is' \in Stream /\ fmt' \in Formatter /\ acct' \in Account
    BY DEF SessionInv, TypeOK
  <2> QED BY <2>1, Counts
<1>2. /\ mover'.state = "LISTEN" => mover.state = "LISTEN"
      /\ Engaged' => Engaged /\ mover'.addr = mover.addr
  BY DEF MoverGoesOn, Engaged
<1>3. Balanced'
  <2>1. data'.state = "ACTIVE" => acct'.made + acct'.pad = acct'.out + InFlight'
    BY <1>1 DEF AccountInv, Balanced, InFlight
  <2>2. WholeDue => acct'.made + acct'.pad = acct'.out + is'.chan.n
    BY <1>1 DEF AccountInv, Balanced, Whole
  <2>3. WholeDue' => WholeDue
    BY <1>2 DEF WholeDue
  <2> QED BY <2>1, <2>2, <2>3 DEF Balanced, Whole
<1>4. EndSeen'
  BY <1>2 DEF AccountInv, EndSeen
<1>5. Emptied'
  BY DEF Emptied, BackupDone
<1>6. PaddedAtTheEnd'
  BY DEF AccountInv, PaddedAtTheEnd
<1> QED BY <1>3, <1>4, <1>5, <1>6 DEF AccountInv

\* A step that moves no image and keeps the agents as they are
LEMMA AccountStill ==
    ASSUME SessionInv, SessionInv', LinkInv, AccountInv, pc # "ended",
           data'.state = data.state, data'.op = data.op, data'.halt = data.halt,
           MoverGoesOn, acct'.made = acct.made, acct'.pad = acct.pad,
           acct'.out = acct.out, is'.chan.n = is.chan.n,
           is'.chan.eof = is.chan.eof, fmt'.img = fmt.img,
           fmt'.imgEof = fmt.imgEof
    PROVE  AccountInv'
<1>1. InFlight' = InFlight
  BY DEF InFlight
<1>2. data.state = "ACTIVE" /\ data.op = "BACKUP" /\ Engaged /\ is'.chan.eof =>
          fmt'.img = 0 /\ fmt'.imgEof
  BY DEF AccountInv, EndSeen
<1>3. BackupDone => acct'.made + acct'.pad = acct'.out /\ is'.chan.n = 0
  BY DEF AccountInv, Emptied
<1>4. Unended' => Unended
  BY DEF Unended, MoverGoesOn, Engaged
<1>5. /\ acct.made \in Nat /\ acct.pad \in Nat /\ acct.out \in Nat
      /\ is.chan.n \in Nat /\ InFlight \in Nat
  BY Counts DEF SessionInv, TypeOK, InFlight
<1> QED BY <1>1, <1>2, <1>3, <1>4, <1>5, AccountMoved

\* Where no agent is left at work the account owes nothing but the last backup
LEMMA AccountAtRest ==
    ASSUME data'.state \in {"IDLE", "HALTED"}, mover'.state # "LISTEN",
           ~(mover'.addr = "TCP" /\ Engaged'), Emptied'
    PROVE  AccountInv'
BY DEF AccountInv, Balanced, WholeDue, EndSeen, PaddedAtTheEnd, Unended

\* The DATA agent leaves, and the mover goes on as it was
LEMMA DataLeaves ==
    ASSUME SessionInv, LinkInv, pc # "ended",
           data.state \in {"CONNECTED", "ACTIVE", "HALTED"},
           data'.state \in {"IDLE", "HALTED"},
           mover'.state = mover.state, mover'.addr = mover.addr, Emptied'
    PROVE  AccountInv'
<1>1. mover'.state # "LISTEN" /\ ~(mover'.addr = "TCP" /\ Engaged')
  BY Standing DEF Engaged
<1> QED BY <1>1, AccountAtRest

\* The mover halts, its end closed behind what it has moved to the stream s
LEMMA AccountTapeClosed ==
    ASSUME SessionInv, SessionInv', LinkInv, AccountInv,
           pc # "ended", pc' # "ended",
           NEW s \in Stream, s.ep = is.ep, s.remote = is.remote,
           is' = Close(s, "tape"),
           mover.state \in {"LISTEN", "ACTIVE", "PAUSED"}, mover'.state = "HALTED",
           data' = data, fmt' = fmt,
           acct'.made + acct'.pad + (acct.out + is.chan.n)
               = acct.made + acct.pad + (acct'.out + s.chan.n),
           Unended => acct'.pad = acct.pad,
           BackupDone => /\ acct'.made + acct'.pad = acct'.out
                         /\ s.chan.n = 0
    PROVE  AccountInv'
<1> DEFINE t == Close(s, "tape")
<1>1. LegalStream(s) /\ s.ep["tape"].cs \notin {"IDLE", "REMOTE"}
  BY DEF SessionInv, EndPointPairing, LegalStream, Link, AddrsAgree,
         AgentsMatchStream
<1>2. \/ t.chan = ZeroChan /\ t.remote = "IDLE"
      \/ /\ s.ep["data"].cs = "CONNECTED" /\ s.remote = "EXCLUDE"
         /\ t.ep["data"].cs = "DISCONNECTED" /\ t.remote = "EXCLUDE"
         /\ t.chan.mode = s.chan.mode /\ t.chan.n = s.chan.n
      \/ /\ s.ep["data"].cs = "REMOTE"
         /\ t.ep["data"].cs = "REMOTE" /\ t.remote = "BOTCHED"
         /\ t.chan = s.chan
  BY <1>1, TapeCloses
<1> HIDE DEF t
<1>3. is' = t
  BY DEF t
<1>4. data.state \in {"CONNECTED", "ACTIVE"} => is'.chan.n = s.chan.n
  <2>1. data.state \in {"CONNECTED", "ACTIVE"} =>
            is'.ep["data"].cs \in {"CONNECTED", "DISCONNECTED"}
    BY DEF SessionInv, AgentsMatchStream
  <2>2. LegalStream(is')
    BY DEF SessionInv, EndPointPairing
  <2> QED BY <1>2, <1>3, <2>1, <2>2, LegalStatus
<1>5. is'.chan.n \in {s.chan.n, 0}
  BY <1>2, <1>3 DEF ZeroChan
<1>6. /\ acct.made \in Nat /\ acct.pad \in Nat /\ acct.out \in Nat
      /\ is.chan.n \in Nat /\ fmt.img \in Nat
      /\ acct'.made \in Nat /\ acct'.pad \in Nat /\ acct'.out \in Nat
      /\ is'.chan.n \in Nat /\ s.chan.n \in Nat
  <2>1. /\ is \in Stream /\ fmt \in Formatter /\ acct \in Account
        /\ is' \in Stream /\ fmt' \in Formatter /\ acct' \in Account
    BY DEF SessionInv, TypeOK
  <2> QED BY <2>1, Counts
<1>7. Balanced'
  <2>1. data.state = "ACTIVE" => acct'.made + acct'.pad = acct'.out + InFlight'
    <3>1. data.state = "ACTIVE" =>
              acct.made + acct.pad = acct.out + (is.chan.n + fmt.img)
      BY DEF AccountInv, Balanced, InFlight
    <3>2. data.state = "ACTIVE" =>
              acct'.made + acct'.pad = acct'.out + (is'.chan.n + fmt.img)
      BY <1>4, <1>6, <3>1
    <3>3. InFlight' = is'.chan.n + fmt.img
      BY DEF InFlight
    <3> QED BY <3>2, <3>3
  <2>2. data.state = "CONNECTED" => acct.made + acct.pad = acct.out + is.chan.n
    BY DEF AccountInv, Balanced, WholeDue, Whole
  <2>3. data.state = "CONNECTED" => acct'.made + acct'.pad = acct'.out + is'.chan.n
    BY <1>4, <1>6, <2>2
  <2>4. data.state = "CONNECTED" \/ ~WholeDue'
    <3>1. mover'.state \notin {"LISTEN", "ACTIVE", "PAUSED"}
      OBVIOUS
    <3> QED BY <3>1 DEF WholeDue, Engaged
  <2> QED BY <2>1, <2>3, <2>4 DEF Balanced, Whole
<1>8. EndSeen' /\ PaddedAtTheEnd'
  BY DEF AccountInv, EndSeen, PaddedAtTheEnd, Unended, Engaged
<1>9. Emptied'
  BY <1>5 DEF Emptied, BackupDone
<1> QED BY <1>7, <1>8, <1>9 DEF AccountInv

-----------------------------------------------------------------------------
(* The quanta of the mover.                                                 *)

LEMMA MoverFields ==
    ASSUME NEW m \in Mover
    PROVE  /\ \A reason :
                 /\ NoticeSent(MoverHalted(m, reason)).state = "HALTED"
                 /\ NoticeSent(MoverHalted(m, reason)).halt = reason
                 /\ NoticeSent(MoverPaused(m, reason)).state = "PAUSED"
                 /\ NoticeSent(MoverPaused(m, reason)).addr = m.addr
                 /\ NoticeSent(MoverPaused(m, reason)).mode = m.mode
           /\ NoticeSent(m).state = m.state
           /\ NoticeSent(m).addr = m.addr /\ NoticeSent(m).mode = m.mode
           /\ MoverActive(m).state = "ACTIVE"
           /\ MoverActive(m).addr = m.addr /\ MoverActive(m).mode = m.mode
           /\ NoticeSent(MoverActive(m)).state = "ACTIVE"
           /\ NoticeSent(MoverActive(m)).addr = m.addr
           /\ NoticeSent(MoverActive(m)).mode = m.mode
           /\ \A left : LET m1 == [m EXCEPT !.left = left]
                        IN  m1.state = m.state /\ m1.addr = m.addr /\ m1.mode = m.mode
BY DEF MoverHalted, MoverPaused, MoverActive, NoticeSent, Mover

\* What is left once w of the records in the channel are on the tape
LEMMA RecordsLeft ==
    ASSUME NEW n \in 0 .. ChanSize, NEW w \in Nat, NEW eof \in BOOLEAN,
           LET p == eof /\ n % RecordSize > 0
           IN  w <= (IF p THEN n \div RecordSize + 1 ELSE n \div RecordSize)
    PROVE  LET p    == eof /\ n % RecordSize > 0
               full == n \div RecordSize
               pad  == IF p /\ w >= full THEN RecordSize - (n % RecordSize) ELSE 0
           IN  /\ pad \in Nat /\ w * RecordSize \in Nat
               /\ n + pad - w * RecordSize \in 0 .. ChanSize
               /\ pad > 0 => eof
               /\ n = 0 => pad = 0 /\ w * RecordSize = 0
               /\ eof /\ w = (IF p THEN full + 1 ELSE full) =>
                      n + pad - w * RecordSize = 0
<1> DEFINE R    == RecordSize
           full == n \div R
           rest == n % R
           p    == eof /\ rest > 0
           pad  == IF p /\ w >= full THEN R - rest ELSE 0
<1>1. R \in Nat \ {0} /\ R <= ChanSize /\ ChanSize \in Nat \ {0} /\ n \in Nat
  BY SizesAssumption, ChanSizeAssumption
<1>2. /\ full \in Nat /\ rest \in Nat /\ rest < R /\ n = full * R + rest
      /\ full * R \in Nat /\ w * R \in Nat
  BY <1>1
<1>3. /\ n + pad - w * R \in 0 .. ChanSize
      /\ pad \in Nat /\ w * R \in Nat
  <2>1. PICK q \in BOOLEAN : q = p
    BY <1>2
  <2>2. w <= (IF q THEN full + 1 ELSE full) /\ (q => rest > 0)
    BY <2>1
  <2>3. LET e == IF q /\ w >= full THEN R - rest ELSE 0
        IN  /\ n + e - w * R \in 0 .. ChanSize
            /\ e \in Nat /\ w * R \in Nat
    BY <2>2, Records
  <2> QED BY <2>1, <2>3
<1>4. pad > 0 => eof
  OBVIOUS
<1>5. n = 0 => pad = 0 /\ w * R = 0
  <2> SUFFICES ASSUME n = 0 PROVE pad = 0 /\ w * R = 0
    OBVIOUS
  <2>1. rest = 0 /\ full = 0
    BY <1>1
  <2>2. w = 0
    BY <2>1
  <2> QED BY <1>1, <2>1, <2>2
<1>6. ASSUME eof, w = (IF p THEN full + 1 ELSE full)
      PROVE  n + pad - w * R = 0
  <2>1. CASE rest > 0
    <3>1. w = full + 1 /\ pad = R - rest
      BY <1>2, <1>6, <2>1
    <3>2. w * R = full * R + R
      BY <1>1, <1>2, <3>1
    <3> QED BY <1>1, <1>2, <3>1, <3>2
  <2>2. CASE rest = 0
    <3>1. w = full /\ pad = 0
      BY <1>2, <1>6, <2>2
    <3> QED BY <1>1, <1>2, <2>2, <3>1
  <2> QED BY <1>2, <2>1, <2>2
<1> QED BY <1>3, <1>4, <1>5, <1>6

\* What a quantum of a mover that writes the tape comes to: q units leave for the
\* tape, p of them zeroes that fill the last record, and s is what stays
LEMMA ReadSteps ==
    ASSUME SessionInv, MoverReads
    PROVE  \E s \in Stream, p \in Nat, q \in Nat :
              /\ s.ep = is.ep /\ s.remote = is.remote
              /\ s.chan.mode = is.chan.mode /\ s.chan.eof = is.chan.eof
              /\ s.chan.n + q = is.chan.n + p
              /\ p > 0 => is.chan.eof
              /\ is.chan.n = 0 => p = 0 /\ q = 0
              /\ acct'.made = acct.made /\ acct'.pad = acct.pad + p
              /\ acct'.out = acct.out + q
              /\ \/ /\ is' = s /\ mover'.state \in {"ACTIVE", "PAUSED"}
                    /\ mover'.addr = mover.addr /\ mover'.mode = mover.mode
                 \/ /\ is' = Close(s, "tape") /\ mover'.state = "HALTED"
                    /\ mover'.halt = "CONNECT_CLOSED" =>
                           is.chan.eof /\ s.chan.n = 0
<1> DEFINE n    == is.chan.n
           full == n \div RecordSize
           most == IF Pads(is) THEN full + 1 ELSE full
           pad(w) == IF Pads(is) /\ w >= full
                     THEN RecordSize - (n % RecordSize) ELSE 0
           is1(w) == [is EXCEPT !.chan.n = n + pad(w) - w * RecordSize]
<1>1. /\ mover \in Mover /\ is \in Stream /\ acct \in Account
      /\ n \in 0 .. ChanSize /\ is.chan.eof \in BOOLEAN /\ mover.state = "ACTIVE"
  BY DEF MoverReads, SessionInv, TypeOK, Stream, Chan
<1>2. PICK w \in 0 .. ChanSize :
         /\ w <= most
         /\ acct' = [acct EXCEPT !.out = @ + w * RecordSize, !.pad = @ + pad(w)]
         /\ \/ MoverBecomes(mover) /\ is' = is1(w)
            \/ /\ w = most /\ is.chan.eof
               /\ MoverBecomes(MoverHalted(mover,
                       IF is.chan.errno THEN "CONNECT_ERROR" ELSE "CONNECT_CLOSED"))
               /\ is' = Close(is1(w), "tape")
            \/ \E stop \in WriteStops :
                   IF stop = "MEDIA_ERROR"
                   THEN /\ MoverBecomes(MoverHalted(mover, stop))
                        /\ is' = Close(is1(w), "tape")
                   ELSE /\ MoverBecomes(MoverPaused(mover, stop))
                        /\ is' = is1(w)
  BY DEF MoverReads
<1>3. /\ pad(w) \in Nat /\ w * RecordSize \in Nat
      /\ n + pad(w) - w * RecordSize \in 0 .. ChanSize
      /\ pad(w) > 0 => is.chan.eof
      /\ n = 0 => pad(w) = 0 /\ w * RecordSize = 0
      /\ is.chan.eof /\ w = most => n + pad(w) - w * RecordSize = 0
  <2>1. w \in Nat
    BY ChanSizeAssumption
  <2> QED BY <1>1, <1>2, <2>1, RecordsLeft DEF Pads
<1>4. PICK p \in Nat, q \in Nat, s \in Stream :
          p = pad(w) /\ q = w * RecordSize /\ s = is1(w)
  BY <1>1, <1>3, ChanSet
<1>5. /\ s.ep = is.ep /\ s.remote = is.remote
      /\ s.chan.mode = is.chan.mode /\ s.chan.eof = is.chan.eof
      /\ s.chan.n = n + p - q
  BY <1>1, <1>4 DEF Stream, Chan
<1>6. n \in Nat
  BY <1>1, ChanSizeAssumption
<1>7. acct'.made = acct.made /\ acct'.pad = acct.pad + p /\ acct'.out = acct.out + q
  <2>1. acct' = [acct EXCEPT !.out = @ + q, !.pad = @ + p]
    BY <1>2, <1>4
  <2> QED BY <1>1, <2>1 DEF Account
<1>8. /\ s.chan.n + q = is.chan.n + p
      /\ p > 0 => is.chan.eof
      /\ is.chan.n = 0 => p = 0 /\ q = 0
      /\ is.chan.eof /\ w = most => s.chan.n = 0
  <2> HIDE DEF pad, most
  <2> QED BY <1>3, <1>4, <1>5, <1>6
<1>9. \/ /\ is' = s /\ mover'.state \in {"ACTIVE", "PAUSED"}
         /\ mover'.addr = mover.addr /\ mover'.mode = mover.mode
      \/ /\ is' = Close(s, "tape") /\ mover'.state = "HALTED"
         /\ mover'.halt = "CONNECT_CLOSED" => is.chan.eof /\ w = most
  <2> HIDE DEF is1, most, pad
  <2>1. CASE MoverBecomes(mover) /\ is' = is1(w)
    BY <1>1, <1>4, <2>1, MoverFields DEF MoverBecomes
  <2>2. CASE /\ w = most /\ is.chan.eof
             /\ \E reason : MoverBecomes(MoverHalted(mover, reason))
             /\ is' = Close(is1(w), "tape")
    BY <1>1, <1>4, <2>2, MoverFields DEF MoverBecomes
  <2>3. CASE \E stop \in WriteStops :
                IF stop = "MEDIA_ERROR"
                THEN /\ MoverBecomes(MoverHalted(mover, stop))
                     /\ is' = Close(is1(w), "tape")
                ELSE /\ MoverBecomes(MoverPaused(mover, stop))
                     /\ is' = is1(w)
    BY <1>1, <1>4, <2>3, MoverFields DEF MoverBecomes
  <2> QED BY <1>2, <2>1, <2>2, <2>3
<1> QED BY <1>5, <1>7, <1>8, <1>9

\* What a quantum of a mover that reads the tape comes to: k units read
LEMMA WriteSteps ==
    ASSUME SessionInv, MoverWrites
    PROVE  \E k \in Nat :
              /\ is'.ep = is.ep /\ is'.remote = is.remote
              /\ is'.chan.mode = is.chan.mode /\ is'.chan.eof = is.chan.eof
              /\ is'.chan.n = is.chan.n + k
              /\ acct'.made = acct.made + k /\ acct'.pad = acct.pad
              /\ acct'.out = acct.out
              /\ MoverGoesOn
<1>1. /\ mover \in Mover /\ is \in Stream /\ acct \in Account
      /\ is.chan.n \in Nat /\ acct.made \in Nat /\ mover.state = "ACTIVE"
  <2>1. /\ mover \in Mover /\ is \in Stream /\ acct \in Account
        /\ fmt \in Formatter /\ mover.state = "ACTIVE"
    BY DEF MoverWrites, SessionInv, TypeOK
  <2> QED BY <2>1, Counts
<1>2. ASSUME NEW k \in 0 .. ChanSize
      PROVE  /\ k \in Nat
             /\ Filled(k).ep = is.ep /\ Filled(k).remote = is.remote
             /\ Filled(k).chan.mode = is.chan.mode
             /\ Filled(k).chan.eof = is.chan.eof
             /\ Filled(k).chan.n = is.chan.n + k
             /\ LET a == [acct EXCEPT !.made = @ + k]
                IN  a.made = acct.made + k /\ a.pad = acct.pad /\ a.out = acct.out
  BY <1>1, ChanSizeAssumption DEF Filled, Stream, Chan, Account
<1>3. ASSUME NEW k, NEW stop
      PROVE  LET a == Moved(k)
                 b == Short(k, stop)
             IN  /\ NoticeSent(a).addr = mover.addr /\ NoticeSent(a).mode = mover.mode
                 /\ NoticeSent(a).state = "ACTIVE"
                 /\ NoticeSent(b).addr = mover.addr /\ NoticeSent(b).mode = mover.mode
                 /\ NoticeSent(b).state = "ACTIVE"
                 /\ LET c == NoticeSent(MoverApplied(b))
                    IN  \/ c.state = "HALTED"
                        \/ /\ c.state = "PAUSED"
                           /\ c.addr = mover.addr /\ c.mode = mover.mode
  <2> DEFINE a == Moved(k)
             b == Short(k, stop)
  <2>1. /\ NoticeSent(a).addr = mover.addr /\ NoticeSent(a).mode = mover.mode
        /\ NoticeSent(a).state = "ACTIVE"
    BY <1>1 DEF Moved, NoticeSent, Mover
  <2>2. /\ NoticeSent(b).addr = mover.addr /\ NoticeSent(b).mode = mover.mode
        /\ NoticeSent(b).state = "ACTIVE"
    BY <1>1 DEF Short, Moved, NoticeSent, Mover
  <2>3. NoticeSent(MoverHalted(b, b.pend)).state = "HALTED"
    BY <1>1 DEF Short, Moved, MoverHalted, NoticeSent, Mover
  <2>4. LET c == NoticeSent(MoverPaused(b, b.pend))
        IN  c.state = "PAUSED" /\ c.addr = mover.addr /\ c.mode = mover.mode
    BY <1>1 DEF Short, Moved, MoverPaused, NoticeSent, Mover
  <2> HIDE DEF a, b
  <2>5. LET c == NoticeSent(MoverApplied(b))
        IN  \/ c.state = "HALTED"
            \/ /\ c.state = "PAUSED"
               /\ c.addr = mover.addr /\ c.mode = mover.mode
    BY <2>3, <2>4 DEF MoverApplied
  <2> QED BY <2>1, <2>2, <2>5 DEF a, b
<1>4. LET c == NoticeSent(MoverApplied(mover))
      IN  \/ c.state = "HALTED"
          \/ /\ c.state = "PAUSED"
             /\ c.addr = mover.addr /\ c.mode = mover.mode
  BY <1>1, MoverFields DEF MoverApplied
<1>5. /\ NoticeSent(mover).addr = mover.addr /\ NoticeSent(mover).mode = mover.mode
      /\ NoticeSent(mover).state = "ACTIVE"
  BY <1>1, MoverFields
<1>6. PICK k \in 0 .. ChanSize :
        \/ /\ k = 0
           /\ MoverBecomes(MoverApplied(mover)) \/ MoverBecomes(mover)
           /\ UNCHANGED <<is, acct>>
        \/ /\ \/ MoverBecomes(Moved(k))
              \/ \E stop : \/ MoverBecomes(MoverApplied(Short(k, stop)))
                           \/ MoverBecomes(Short(k, stop))
           /\ is' = Filled(k)
           /\ acct' = [acct EXCEPT !.made = @ + k]
  <2>1. PICK k \in 0 .. ChanSize :
         \/ /\ k = 0
            /\ MoverBecomes(MoverApplied(mover))
            /\ UNCHANGED <<is, acct>>
         \/ /\ k = 0
            /\ MoverBecomes(mover)
            /\ UNCHANGED <<is, acct>>
         \/ /\ MoverBecomes(Moved(k))
            /\ is' = Filled(k)
            /\ acct' = [acct EXCEPT !.made = @ + k]
         \/ /\ \E stop \in ReadStops :
                  MoverBecomes(IF MayApply(Filled(k))
                               THEN MoverApplied(Short(k, stop))
                               ELSE Short(k, stop))
            /\ is' = Filled(k)
            /\ acct' = [acct EXCEPT !.made = @ + k]
    BY WriteCases
  <2> QED BY <2>1
<1>7. MoverGoesOn
  BY <1>1, <1>3, <1>4, <1>5, <1>6 DEF MoverBecomes, MoverGoesOn, Engaged
<1>8. CASE k = 0 /\ UNCHANGED <<is, acct>>
  BY <1>1, <1>7, <1>8
<1>9. CASE is' = Filled(k) /\ acct' = [acct EXCEPT !.made = @ + k]
  BY <1>2, <1>7, <1>9
<1> QED BY <1>6, <1>8, <1>9

-----------------------------------------------------------------------------
(* Every step keeps the invariant, given that it keeps SessionInv.          *)

\* A step that leaves the stream and the buffers alone
LEMMA NothingMoves ==
    ASSUME ImageInv, SessionInv', pc # "ended",
           is'.ep = is.ep, is'.remote = is.remote, is'.chan = is.chan,
           data'.state = data.state, data'.op = data.op, data'.halt = data.halt,
           MoverGoesOn, acct'.made = acct.made, acct'.pad = acct.pad,
           acct'.out = acct.out, fmt'.img = fmt.img, fmt'.imgEof = fmt.imgEof
    PROVE  LinkInv' /\ AccountInv'
BY LinkKept, AccountStill DEF ImageInv

LEMMA StillImage ==
    ASSUME ImageInv, SessionInv',
           \/ StreamIdles \/ MoverIdles \/ MoverRests \/ DataIdles \/ DataRests
           \/ PollConnects \/ PollFormatterLines \/ PollEnds \/ DispatchEnds
           \/ TapeOpen \/ TapeClose \/ MoverContinue \/ MoverStop
           \/ \E length \in 1 .. ReadMax : MoverRead(length)
    PROVE  LinkInv' /\ AccountInv'
<1>1. /\ mover \in Mover /\ data \in Data /\ fmt \in Formatter /\ acct \in Account
      /\ is \in Stream
  BY DEF ImageInv, SessionInv, TypeOK
<1>2. pc # "ended"
  BY DEF StreamIdles, MoverIdles, MoverRests, DataIdles, DataRests, PollConnects,
         PollFormatterLines, Polled, PollEnds, DispatchEnds, TapeOpen, TapeClose,
         MoverContinue, MoverStop, MoverRead, Dispatched
<1>3. is' = is \/ is' = [is EXCEPT !.ready = TRUE]
  BY DEF StreamIdles, MoverIdles, MoverRests, DataIdles, DataRests, PollConnects,
         PollFormatterLines, Polled, PollEnds, DispatchEnds, TapeOpen, TapeClose,
         MoverContinue, MoverStop, MoverRead, Dispatched
<1>4. is'.ep = is.ep /\ is'.remote = is.remote /\ is'.chan = is.chan
  BY <1>1, <1>3 DEF Stream
<1>5. data' = data \/ data' = NoticeSent(data)
  BY DEF StreamIdles, MoverIdles, MoverRests, DataIdles, DataRests, DataBecomes,
         PollConnects, PollFormatterLines, Polled, PollEnds, DispatchEnds, TapeOpen,
         TapeClose, MoverContinue, MoverStop, MoverRead, Dispatched
<1>6. data'.state = data.state /\ data'.op = data.op /\ data'.halt = data.halt
  BY <1>1, <1>5 DEF NoticeSent, Data
<1>7. \/ mover' = mover \/ mover' = NoticeSent(mover)
      \/ mover.state = "PAUSED" /\ mover' = MoverActive(mover)
      \/ mover' = MoverStopped(mover)
      \/ \E left : mover' = [mover EXCEPT !.left = left]
  BY DEF StreamIdles, MoverIdles, MoverRests, MoverBecomes, DataIdles, DataRests,
         PollConnects, PollFormatterLines, Polled, PollEnds, DispatchEnds, TapeOpen,
         TapeClose, MoverContinue, MoverStop, MoverRead, Dispatched
<1>8. MoverStopped(mover).state = "IDLE"
  BY <1>1 DEF MoverStopped, Mover
<1>9. MoverGoesOn
  <2>1. \/ mover'.state = "IDLE"
        \/ /\ mover'.addr = mover.addr /\ mover'.mode = mover.mode
           /\ \/ mover'.state = mover.state
              \/ mover.state = "PAUSED" /\ mover'.state = "ACTIVE"
    <3>1. CASE mover' = mover \/ mover' = NoticeSent(mover)
      BY <1>1, <3>1, MoverFields
    <3>2. CASE mover.state = "PAUSED" /\ mover' = MoverActive(mover)
      BY <1>1, <3>2, MoverFields
    <3>3. CASE mover' = MoverStopped(mover)
      BY <1>8, <3>3
    <3>4. CASE \E left : mover' = [mover EXCEPT !.left = left]
      BY <1>1, <3>4 DEF Mover
    <3> QED BY <1>7, <3>1, <3>2, <3>3, <3>4
  <2> QED BY <2>1 DEF MoverGoesOn, Engaged
<1>10. acct' = acct \/ \E length : acct' = [acct EXCEPT !.asked = length]
  BY DEF StreamIdles, MoverIdles, MoverRests, DataIdles, DataRests, PollConnects,
         PollFormatterLines, Polled, PollEnds, DispatchEnds, TapeOpen, TapeClose,
         MoverContinue, MoverStop, MoverRead, Dispatched
<1>11. acct'.made = acct.made /\ acct'.pad = acct.pad /\ acct'.out = acct.out
  BY <1>1, <1>10 DEF Account
<1>12. \/ fmt' = fmt \/ fmt' = [fmt EXCEPT !.chat = TRUE]
       \/ fmt' = [fmt EXCEPT !.wrapEof = TRUE]
       \/ \E ask, more : fmt' = [fmt EXCEPT !.ask = ask, !.more = more]
  BY DEF StreamIdles, MoverIdles, MoverRests, DataIdles, DataRests, PollConnects,
         PollFormatterLines, Polled, PollEnds, DispatchEnds, TapeOpen, TapeClose,
         MoverContinue, MoverStop, MoverRead, Dispatched
<1>13. fmt'.img = fmt.img /\ fmt'.imgEof = fmt.imgEof
  BY <1>1, <1>12 DEF Formatter
<1> QED BY <1>2, <1>4, <1>6, <1>9, <1>11, <1>13, NothingMoves

\* A connection is taken, or its accept() fails
LEMMA AcceptsImage ==
    ASSUME ImageInv, SessionInv', StreamAccepts
    PROVE  LinkInv' /\ AccountInv'
<1>1. /\ is \in Stream /\ LegalStream(is) /\ pc = "is" /\ pc' = "ta"
      /\ is.remote = "LISTEN" /\ UNCHANGED <<mover, tape, data, fmt, told, acct>>
  BY DEF StreamAccepts, Then, ImageInv, SessionInv, TypeOK, EndPointPairing
<1>2. PICK side \in Side, ok \in BOOLEAN :
          is.ep[side].cs = "LISTEN" /\ is' = Accept(is, side, ok)
  BY DEF StreamAccepts
<1>3. /\ is'.remote # "EXCLUDE"
      /\ is'.chan.n = is.chan.n /\ is'.chan.eof = is.chan.eof
  BY <1>1, <1>2, AcceptChan
<1>4. side = "tape" /\ is.ep["data"].cs = "REMOTE"
  BY <1>1, <1>2, LegalStatus DEF Side
<1>5. is'.ep["data"].cs = "REMOTE"
  BY <1>1, <1>2, <1>4, AcceptTape
<1>6. LinkInv'
  BY <1>1, <1>3, <1>5 DEF ImageInv, LinkInv, LocalChan, AddrsMatch, ModesMatch,
     StreamClean, Engaged
<1>7. MoverGoesOn
  BY <1>1 DEF MoverGoesOn
<1>8. AccountInv'
  BY <1>1, <1>3, <1>7, AccountStill DEF ImageInv
<1> QED BY <1>6, <1>8

\* A mover that waits: it goes on waiting, goes ACTIVE, or halts
LEMMA AwaitsImage ==
    ASSUME ImageInv, SessionInv', MoverAwaits
    PROVE  LinkInv' /\ AccountInv'
<1>1. /\ is \in Stream /\ LegalStream(is) /\ mover \in Mover
      /\ pc = "ta" /\ mover.state = "LISTEN" /\ data.state = "IDLE"
      /\ mover.mode \in {"READ", "WRITE"}
      /\ UNCHANGED <<tape, data, fmt, acct>>
  BY DEF MoverAwaits, ImageInv, SessionInv, TypeOK, EndPointPairing,
         AgentsMatchStream, Mover, MoverMode
<1>2. CASE is' = is /\ MoverBecomes(mover)
  <2>1. MoverGoesOn
    BY <1>1, <1>2, MoverFields DEF MoverBecomes, MoverGoesOn
  <2> QED BY <1>1, <1>2, <2>1, NothingMoves
<1>3. CASE /\ is.ep["tape"].cs = "ACCEPTED"
           /\ MoverBecomes(MoverActive(mover))
           /\ is' = Start(is, "tape", mover.mode)
  <2>1. /\ mover'.state = "ACTIVE" /\ mover'.addr = mover.addr
        /\ mover'.mode = mover.mode
    BY <1>1, <1>3, MoverFields DEF MoverBecomes
  <2>2. /\ is'.chan.n = is.chan.n /\ is'.chan.eof = is.chan.eof
        /\ is.remote = "EXCLUDE" => is'.chan.mode \in {is.chan.mode, "RESIDENT"}
        /\ is'.remote = is.remote /\ is'.ep["tape"].cs = "ACCEPTED"
    BY <1>1, <1>3, StartChan, StartKeeps DEF Side
  <2>3. LinkInv'
    BY <1>1, <2>1, <2>2 DEF ImageInv, LinkInv, LocalChan, AddrsMatch, ModesMatch,
       StreamClean, Engaged
  <2>4. AccountInv'
    <3>1. /\ data'.state = "IDLE" /\ mover'.state = "ACTIVE"
          /\ Whole /\ Whole'
      BY <1>1, <2>1, <2>2 DEF ImageInv, AccountInv, Balanced, WholeDue, Whole
    <3> QED BY <1>1, <3>1 DEF AccountInv, Balanced, WholeDue, EndSeen, Emptied,
            BackupDone, PaddedAtTheEnd, Unended
  <2> QED BY <2>3, <2>4
<1>4. CASE /\ \E reason : MoverBecomes(MoverHalted(mover, reason))
           /\ is' = Close(is, "tape")
  <2>1. mover'.state = "HALTED"
    BY <1>1, <1>4, MoverFields DEF MoverBecomes
  <2>2. LinkInv'
    BY <1>1, <1>4, <2>1, LinkTapeClosed DEF ImageInv
  <2>3. AccountInv'
    BY <1>1, <2>1 DEF AccountInv, Balanced, WholeDue, EndSeen, Emptied,
       BackupDone, PaddedAtTheEnd, Unended, Engaged
  <2> QED BY <2>2, <2>3
<1> QED BY <1>2, <1>3, <1>4 DEF MoverAwaits

LEMMA ReadsImage ==
    ASSUME ImageInv, SessionInv', MoverReads
    PROVE  LinkInv' /\ AccountInv'
<1>1. PICK s \in Stream, p \in Nat, q \in Nat :
              /\ s.ep = is.ep /\ s.remote = is.remote
              /\ s.chan.mode = is.chan.mode /\ s.chan.eof = is.chan.eof
              /\ s.chan.n + q = is.chan.n + p
              /\ p > 0 => is.chan.eof
              /\ is.chan.n = 0 => p = 0 /\ q = 0
              /\ acct'.made = acct.made /\ acct'.pad = acct.pad + p
              /\ acct'.out = acct.out + q
              /\ \/ /\ is' = s /\ mover'.state \in {"ACTIVE", "PAUSED"}
                    /\ mover'.addr = mover.addr /\ mover'.mode = mover.mode
                 \/ is' = Close(s, "tape") /\ mover'.state = "HALTED"
  BY ReadSteps DEF ImageInv
<1>2. /\ is \in Stream /\ fmt \in Formatter /\ acct \in Account
      /\ pc = "ta" /\ pc' = "da" /\ mover.state = "ACTIVE"
      /\ UNCHANGED <<data, fmt>>
  BY DEF MoverReads, Then, ImageInv, SessionInv, TypeOK
<1>3. /\ acct.made \in Nat /\ acct.pad \in Nat /\ acct.out \in Nat
      /\ is.chan.n \in Nat /\ fmt.img \in Nat /\ s.chan.n \in Nat
      /\ is.chan.eof \in BOOLEAN /\ fmt.imgEof \in BOOLEAN
  BY <1>2, Counts
<1>4. Engaged
  BY <1>2 DEF Engaged
<1>5. acct'.made + acct'.pad + (acct.out + is.chan.n)
          = acct.made + acct.pad + (acct'.out + s.chan.n)
  BY <1>1, <1>3
<1>6. Unended => p = 0
  BY <1>1, <1>2, <1>3, <1>4 DEF ImageInv, AccountInv, EndSeen, Unended
<1>7. Unended => acct'.pad = acct.pad
  BY <1>1, <1>3, <1>6
<1>8. BackupDone => acct'.made + acct'.pad = acct'.out /\ s.chan.n = 0
  BY <1>1, <1>3, SMTT(30) DEF ImageInv, AccountInv, Emptied
<1>9. CASE /\ is' = s /\ mover'.state \in {"ACTIVE", "PAUSED"}
           /\ mover'.addr = mover.addr /\ mover'.mode = mover.mode
  <2>1. MoverGoesOn
    BY <1>4, <1>9 DEF MoverGoesOn, Engaged
  <2>2. LinkInv'
    BY <1>1, <1>2, <1>4, <1>9, <2>1, LinkKept DEF ImageInv
  <2>3. Unended' => Unended
    BY <1>2, <1>9 DEF Unended
  <2>4. acct'.made + acct'.pad + (acct.out + InFlight)
            = acct.made + acct.pad + (acct'.out + InFlight')
    <3>1. InFlight = is.chan.n + fmt.img /\ InFlight' = s.chan.n + fmt.img
      BY <1>2, <1>9 DEF InFlight
    <3>2. acct'.made + acct'.pad + (acct.out + (is.chan.n + fmt.img))
              = acct.made + acct.pad + (acct'.out + (s.chan.n + fmt.img))
      BY <1>1, <1>3
    <3> QED BY <3>1, <3>2
  <2>5. data.state = "ACTIVE" /\ data.op = "BACKUP" /\ Engaged /\ is'.chan.eof =>
            fmt'.img = 0 /\ fmt'.imgEof
    BY <1>1, <1>2, <1>9 DEF ImageInv, AccountInv, EndSeen
  <2>6. AccountInv'
    BY <1>1, <1>2, <1>5, <1>7, <1>8, <1>9, <2>1, <2>3, <2>4, <2>5, AccountMoved
       DEF ImageInv
  <2> QED BY <2>2, <2>6
<1>10. CASE is' = Close(s, "tape") /\ mover'.state = "HALTED"
  <2>1. LinkInv'
    BY <1>1, <1>2, <1>10, LinkTapeClosed DEF ImageInv
  <2>2. AccountInv'
    BY <1>1, <1>2, <1>5, <1>7, <1>8, <1>10, AccountTapeClosed DEF ImageInv
  <2> QED BY <2>1, <2>2
<1> QED BY <1>1, <1>9, <1>10

LEMMA WritesImage ==
    ASSUME ImageInv, SessionInv', MoverWrites
    PROVE  LinkInv' /\ AccountInv'
<1>1. PICK k \in Nat :
              /\ is'.ep = is.ep /\ is'.remote = is.remote
              /\ is'.chan.mode = is.chan.mode /\ is'.chan.eof = is.chan.eof
              /\ is'.chan.n = is.chan.n + k
              /\ acct'.made = acct.made + k /\ acct'.pad = acct.pad
              /\ acct'.out = acct.out
              /\ MoverGoesOn
  BY WriteSteps DEF ImageInv
<1>2. /\ is \in Stream /\ fmt \in Formatter /\ acct \in Account
      /\ pc # "ended" /\ mover.state = "ACTIVE" /\ mover.mode = "WRITE"
      /\ UNCHANGED <<data, fmt>>
  BY DEF MoverWrites, ImageInv, SessionInv, TypeOK
<1>3. /\ acct.made \in Nat /\ acct.pad \in Nat /\ acct.out \in Nat
      /\ is.chan.n \in Nat /\ fmt.img \in Nat
  BY <1>2, Counts
<1>4. Engaged
  BY <1>2 DEF Engaged
<1>5. LinkInv'
  BY <1>1, <1>2, <1>4, LinkKept DEF ImageInv
<1>6. ~BackupDone
  BY <1>2, <1>4 DEF ImageInv, LinkInv, ModesMatch, BackupDone, MoverModeFor
<1>7. acct'.made + acct'.pad + (acct.out + is.chan.n)
          = acct.made + acct.pad + (acct'.out + is'.chan.n)
  BY <1>1, <1>3
<1>8. acct'.made + acct'.pad + (acct.out + InFlight)
          = acct.made + acct.pad + (acct'.out + InFlight')
  <2>1. InFlight = is.chan.n + fmt.img /\ InFlight' = is.chan.n + k + fmt.img
    BY <1>1, <1>2 DEF InFlight
  <2> QED BY <1>1, <1>3, <2>1
<1>9. Unended' => Unended
  BY <1>1, <1>2 DEF Unended, MoverGoesOn, Engaged
<1>10. data.state = "ACTIVE" /\ data.op = "BACKUP" /\ Engaged /\ is'.chan.eof =>
           fmt'.img = 0 /\ fmt'.imgEof
  BY <1>1, <1>2 DEF ImageInv, AccountInv, EndSeen
<1>11. AccountInv'
  BY <1>1, <1>2, <1>6, <1>7, <1>8, <1>9, <1>10, AccountMoved DEF ImageInv
<1> QED BY <1>5, <1>11

\* Image to and from a TCP peer: no agent of a LOCAL connection is at work
LEMMA PeerImage ==
    ASSUME ImageInv, SessionInv', PollReceives \/ PollSends
    PROVE  LinkInv' /\ AccountInv'
<1>1. /\ is \in Stream /\ fmt \in Formatter /\ acct \in Account
      /\ is.chan.mode \in {"READ", "WRITE"} /\ pc = "poll"
      /\ UNCHANGED <<tape, mover, data, told, pc, fmt>>
  BY DEF PollReceives, PollSends, Polled, ImageInv, SessionInv, TypeOK
<1>2. /\ acct.made \in Nat /\ acct.pad \in Nat /\ acct.out \in Nat
      /\ is.chan.n \in Nat /\ fmt.img \in Nat
  BY <1>1, Counts
<1> DEFINE Conserved ==
      /\ is'.ep = is.ep /\ is'.remote = is.remote /\ is'.chan.mode = is.chan.mode
      /\ acct'.pad = acct.pad
      /\ acct'.made + (acct.out + is.chan.n) = acct.made + (acct'.out + is'.chan.n)
      /\ acct'.made \in Nat /\ acct'.out \in Nat /\ is'.chan.n \in Nat
<1>3. Conserved
  <2>1. Room(is) \in Nat /\ \A k \in 1 .. Room(is) : k \in Nat
    BY <1>1, ChanSizeAssumption DEF Room, Stream, Chan
  <2>2. \A k \in 1 .. is.chan.n : k \in Nat /\ is.chan.n - k \in Nat
    BY <1>2
  <2>3. \/ \E k \in 1 .. Room(is) : /\ is' = [is EXCEPT !.chan.n = @ + k]
                                    /\ acct' = [acct EXCEPT !.made = @ + k]
        \/ \E k \in 1 .. is.chan.n : /\ is' = [is EXCEPT !.chan.n = @ - k]
                                     /\ acct' = [acct EXCEPT !.out = @ + k]
        \/ is' = [is EXCEPT !.chan.eof = TRUE] /\ UNCHANGED acct
        \/ \E errno \in BOOLEAN :
               /\ is' = [is EXCEPT !.chan.eof = TRUE, !.chan.error = TRUE,
                                   !.chan.errno = errno]
               /\ UNCHANGED acct
    BY DEF PollReceives, PollSends
  <2>4. ASSUME NEW k \in Nat, is' = [is EXCEPT !.chan.n = @ + k],
               acct' = [acct EXCEPT !.made = @ + k]
        PROVE  Conserved
    BY <1>1, <1>2, <2>4 DEF Stream, Chan, Account
  <2>5. ASSUME NEW k \in Nat, is.chan.n - k \in Nat, is' = [is EXCEPT !.chan.n = @ - k],
               acct' = [acct EXCEPT !.out = @ + k]
        PROVE  Conserved
    BY <1>1, <1>2, <2>5 DEF Stream, Chan, Account
  <2>6. CASE is' = [is EXCEPT !.chan.eof = TRUE] /\ UNCHANGED acct
    BY <1>1, <1>2, <2>6 DEF Stream, Chan
  <2>7. ASSUME NEW errno \in BOOLEAN, UNCHANGED acct,
               is' = [is EXCEPT !.chan.eof = TRUE, !.chan.error = TRUE,
                                !.chan.errno = errno]
        PROVE  Conserved
    <3>1. /\ is'.ep = is.ep /\ is'.remote = is.remote
          /\ is'.chan.mode = is.chan.mode /\ is'.chan.n = is.chan.n
      BY <1>1, <2>7 DEF Stream, Chan
    <3> QED BY <1>2, <2>7, <3>1
  <2> QED BY <2>1, <2>2, <2>3, <2>4, <2>5, <2>6, <2>7
<1>4. /\ ~(data.state = "CONNECTED" /\ Engaged)
      /\ ~(data.state = "ACTIVE" /\ Engaged)
      /\ is.remote # "EXCLUDE"
  BY <1>1, Standing DEF ImageInv, LinkInv, LocalChan
<1>5. ~BackupDone
  <2>1. ZeroChan.mode = "IDLE"
    BY DEF ZeroChan
  <2> QED BY <1>1, <2>1, Standing DEF ImageInv, BackupDone
<1>6. MoverGoesOn
  BY <1>1 DEF MoverGoesOn
<1>7. LinkInv'
  BY <1>1, <1>3, <1>6, LinkKept DEF ImageInv
<1>8. Unended' => Unended
  BY <1>1 DEF Unended
<1>9. acct'.made + acct'.pad + (acct.out + is.chan.n)
          = acct.made + acct.pad + (acct'.out + is'.chan.n)
  BY <1>2, <1>3
<1>10. acct'.made + acct'.pad + (acct.out + InFlight)
           = acct.made + acct.pad + (acct'.out + InFlight')
  <2>1. InFlight = is.chan.n + fmt.img /\ InFlight' = is'.chan.n + fmt.img
    BY <1>1 DEF InFlight
  <2>2. acct'.made + acct'.pad + (acct.out + (is.chan.n + fmt.img))
            = acct.made + acct.pad + (acct'.out + (is'.chan.n + fmt.img))
    BY <1>2, <1>3
  <2> QED BY <2>1, <2>2
<1>11. AccountInv'
  BY <1>1, <1>3, <1>4, <1>5, <1>6, <1>8, <1>9, <1>10, AccountMoved DEF ImageInv
<1> QED BY <1>7, <1>11

\* Image from and to the formatter
LEMMA FormatterImage ==
    ASSUME ImageInv, SessionInv', PollFormatterImage \/ PollFormatterFed
    PROVE  LinkInv' /\ AccountInv'
<1>1. /\ is \in Stream /\ fmt \in Formatter /\ acct \in Account
      /\ data.state = "ACTIVE" /\ pc = "poll"
      /\ UNCHANGED <<tape, mover, data, told, pc, is>>
  BY DEF PollFormatterImage, PollFormatterFed, Polled, ImageInv, SessionInv, TypeOK
<1>2. /\ acct.made \in Nat /\ acct.pad \in Nat /\ acct.out \in Nat
      /\ is.chan.n \in Nat /\ fmt.img \in Nat /\ fmt.imgEof \in BOOLEAN
      /\ fmt.img <= ImageSize
  BY <1>1, Counts
<1> DEFINE Conserved ==
      /\ acct'.pad = acct.pad
      /\ acct'.made + (acct.out + fmt.img) = acct.made + (acct'.out + fmt'.img)
      /\ acct'.made \in Nat /\ acct'.out \in Nat /\ fmt'.img \in Nat
      /\ fmt.imgEof => fmt'.imgEof
<1>3. Conserved
  <2>1. \A k \in 1 .. ImageSize - fmt.img : k \in Nat
    BY <1>2, SizesAssumption
  <2>2. \A k \in 1 .. fmt.img : k \in Nat /\ fmt.img - k \in Nat
    BY <1>2
  <2>3. \/ \E k \in 1 .. ImageSize - fmt.img :
               /\ fmt' = [fmt EXCEPT !.img = @ + k]
               /\ acct' = [acct EXCEPT !.made = @ + k]
        \/ \E k \in 1 .. fmt.img : /\ fmt' = [fmt EXCEPT !.img = @ - k]
                                   /\ acct' = [acct EXCEPT !.out = @ + k]
        \/ fmt' = [fmt EXCEPT !.imgEof = TRUE] /\ UNCHANGED acct
        \/ fmt' = [fmt EXCEPT !.imgEof = TRUE, !.imgErr = TRUE] /\ UNCHANGED acct
    BY DEF PollFormatterImage, PollFormatterFed
  <2>4. ASSUME NEW k \in Nat, fmt' = [fmt EXCEPT !.img = @ + k],
               acct' = [acct EXCEPT !.made = @ + k]
        PROVE  Conserved
    BY <1>1, <1>2, <2>4 DEF Formatter, Account
  <2>5. ASSUME NEW k \in Nat, fmt.img - k \in Nat, fmt' = [fmt EXCEPT !.img = @ - k],
               acct' = [acct EXCEPT !.out = @ + k]
        PROVE  Conserved
    BY <1>1, <1>2, <2>5 DEF Formatter, Account
  <2>6. CASE \/ fmt' = [fmt EXCEPT !.imgEof = TRUE] /\ UNCHANGED acct
             \/ fmt' = [fmt EXCEPT !.imgEof = TRUE, !.imgErr = TRUE] /\ UNCHANGED acct
    BY <1>1, <1>2, <2>6 DEF Formatter
  <2> QED BY <2>1, <2>2, <2>3, <2>4, <2>5, <2>6
<1>4. ~WholeDue /\ ~BackupDone
  BY <1>1, Standing DEF ImageInv, WholeDue, BackupDone
<1>5. data.op = "BACKUP" => ~(Engaged /\ is.chan.eof)
  BY <1>1 DEF PollFormatterImage, PollFormatterFed, ImageInv, AccountInv, EndSeen
<1>6. MoverGoesOn
  BY <1>1 DEF MoverGoesOn
<1>7. LinkInv'
  BY <1>1, <1>6, LinkKept DEF ImageInv
<1>8. Unended' => Unended
  <2>1. fmt'.imgEof \in BOOLEAN
    BY DEF SessionInv, TypeOK, Formatter
  <2> QED BY <1>1, <1>2, <1>3, <2>1 DEF Unended
<1>9. acct'.made + acct'.pad + (acct.out + InFlight)
           = acct.made + acct.pad + (acct'.out + InFlight')
  <2>1. InFlight = is.chan.n + fmt.img /\ InFlight' = is.chan.n + fmt'.img
    BY <1>1 DEF InFlight
  <2>2. acct'.made + acct'.pad + (acct.out + (is.chan.n + fmt.img))
            = acct.made + acct.pad + (acct'.out + (is.chan.n + fmt'.img))
    <3>1. /\ acct'.made + (acct.out + fmt.img) = acct.made + (acct'.out + fmt'.img)
          /\ acct'.made \in Nat /\ acct'.out \in Nat /\ fmt'.img \in Nat
          /\ acct'.pad = acct.pad
      BY <1>3
    <3> HIDE DEF Conserved
    <3>2. acct'.made + (acct.out + (is.chan.n + fmt.img))
              = acct.made + (acct'.out + (is.chan.n + fmt'.img))
      BY <1>2, <3>1
    <3> QED BY <1>2, <3>1, <3>2
  <2> QED BY <2>1, <2>2
<1>10. AccountInv'
  BY <1>1, <1>3, <1>4, <1>5, <1>6, <1>8, <1>9, AccountMoved DEF ImageInv
<1> QED BY <1>7, <1>10

\* The DATA agent closes its end, or gives up, and neither the image it has
\* read ahead nor the mover is any longer its business
LEMMA DataEndsImage ==
    ASSUME ImageInv, SessionInv', pc # "ended",
           NEW s \in Stream, s.ep = is.ep, s.remote = is.remote,
           s.chan.mode = is.chan.mode, s.chan = is.chan \/ data.state = "ACTIVE",
           is'.ep = Close(s, "data").ep, is'.remote = Close(s, "data").remote,
           is'.chan.mode = Close(s, "data").chan.mode,
           Close(s, "data").chan = ZeroChan => is'.chan = ZeroChan,
           data.state = "HALTED" => is'.chan = Close(s, "data").chan,
           data.state \in {"CONNECTED", "ACTIVE", "HALTED"},
           \/ data'.state = "IDLE"
           \/ data'.state = "HALTED" /\ data'.op = data.op /\ data.state # "CONNECTED",
           mover'.state = mover.state, mover'.addr = mover.addr,
           mover'.mode = mover.mode, Emptied'
    PROVE  LinkInv' /\ AccountInv'
BY LinkDataClosed, DataLeaves DEF ImageInv

LEMMA DataFields ==
    ASSUME NEW d \in Data
    PROVE  /\ NoticeSent(d).state = d.state /\ NoticeSent(d).op = d.op
           /\ NoticeSent(d).halt = d.halt
           /\ \A reason :
                 /\ DataHalted(d, reason).state = "HALTED"
                 /\ DataHalted(d, reason).halt = reason
                 /\ DataHalted(d, reason).op = d.op
                 /\ NoticeSent(DataHalted(d, reason)).state = "HALTED"
                 /\ NoticeSent(DataHalted(d, reason)).halt = reason
                 /\ NoticeSent(DataHalted(d, reason)).op = d.op
           /\ DataIdled(d).state = "IDLE"
           /\ \A op : DataActive(d, op).state = "ACTIVE" /\ DataActive(d, op).op = op
BY DEF NoticeSent, DataHalted, DataIdled, DataActive, Data

LEMMA BackupImage ==
    ASSUME ImageInv, SessionInv', DataBackups
    PROVE  LinkInv' /\ AccountInv'
<1> DEFINE k   == Least(fmt.img, Room(is))
           is1 == PassImage(is, k)
           f1  == [fmt EXCEPT !.img = @ - k, !.chat = FALSE]
<1>1. /\ is \in Stream /\ fmt \in Formatter /\ acct \in Account /\ data \in Data
      /\ pc = "da" /\ data.state = "ACTIVE" /\ data.op = "BACKUP"
      /\ UNCHANGED <<mover, tape, acct>> /\ is.chan.n \in 0 .. ChanSize
      /\ fmt.img \in 0 .. ImageSize
  BY DEF DataBackups, ImageInv, SessionInv, TypeOK, Stream, Chan, Formatter
<1>2. /\ acct.made \in Nat /\ acct.pad \in Nat /\ acct.out \in Nat
      /\ is.chan.n \in Nat /\ fmt.img \in Nat /\ fmt.imgEof \in BOOLEAN
      /\ is.chan.eof \in BOOLEAN /\ is.chan.n <= ChanSize
  BY <1>1, Counts
<1>3. k \in Nat /\ k <= fmt.img /\ (fmt.img = 0 => k = 0)
        /\ is.chan.n + k \in 0 .. ChanSize
  BY <1>2, ChanSizeAssumption DEF Least, Room
<1>4. ImageEnds(k) \in BOOLEAN
  BY DEF ImageEnds
<1>5. /\ is1 \in Stream /\ is1.ep = is.ep /\ is1.remote = is.remote
      /\ is1.chan.mode = is.chan.mode /\ is1.chan.n = is.chan.n + k
      /\ is1.chan.eof <=> is.chan.eof \/ ImageEnds(k)
  <2> HIDE DEF k
  <2>1. (is.chan.eof \/ ImageEnds(k)) \in BOOLEAN
    BY <1>2, <1>4
  <2>2. is1 \in Stream /\ is1.ep = is.ep /\ is1.remote = is.remote
    BY <1>1, <1>3, <2>1, ChanSet DEF PassImage
  <2>3. /\ is1.chan.mode = is.chan.mode /\ is1.chan.n = is.chan.n + k
        /\ is1.chan.eof <=> is.chan.eof \/ ImageEnds(k)
    BY <1>1, <2>1 DEF PassImage, Stream, Chan
  <2> QED BY <2>2, <2>3
<1> HIDE DEF is1
<1>6. acct.made + acct.pad = acct.out + (is.chan.n + fmt.img)
  BY <1>1 DEF ImageInv, AccountInv, Balanced, InFlight
<1>7. CASE Drained(is1, k)
  <2>1. /\ data' = NoticeSent(DataHalted(data, "SUCCESSFUL"))
        /\ is' = Close(is1, "data")
    BY <1>7 DEF DataBackups, DataBecomes, is1
  <2>2. data'.state = "HALTED" /\ data'.op = data.op
    BY <1>1, <2>1, DataFields
  <2>3. fmt.img = k /\ is.chan.n + k = 0
    BY <1>5, <1>7 DEF Drained, ImageEnds
  <2>4. acct.made + acct.pad = acct.out /\ is1.chan.n = 0
    BY <1>2, <1>3, <1>5, <1>6, <2>3
  <2>5. is'.chan.n = 0
    <3>1. LegalStream(is1) /\ is1.ep["data"].cs \in {"CONNECTED", "DISCONNECTED"}
      BY <1>1, <1>5 DEF ImageInv, SessionInv, EndPointPairing, LegalStream, Link,
         AddrsAgree, AgentsMatchStream
    <3>2. is'.chan.n = is1.chan.n \/ is'.chan = ZeroChan
      BY <1>5, <2>1, <3>1, DataCloses
    <3> QED BY <2>4, <3>2 DEF ZeroChan
  <2>6. Emptied'
    BY <1>1, <2>4, <2>5 DEF Emptied
  <2> QED BY <1>1, <1>5, <2>1, <2>2, <2>6, DataEndsImage
<1>8. CASE ~Drained(is1, k)
  <2>1. data' = NoticeSent(data) /\ is' = is1 /\ fmt' = f1
    BY <1>8 DEF DataBackups, DataBecomes, is1
  <2>2. data'.state = data.state /\ data'.op = data.op /\ data'.halt = data.halt
    BY <1>1, <2>1, DataFields
  <2>3. fmt'.img = fmt.img - k /\ fmt'.imgEof = fmt.imgEof
    BY <1>1, <2>1 DEF Formatter
  <2>4. MoverGoesOn
    BY <1>1 DEF MoverGoesOn
  <2>5. LinkInv'
    BY <1>1, <1>5, <2>1, <2>2, <2>4, LinkKept DEF ImageInv
  <2>6. ~WholeDue /\ ~BackupDone
    BY <1>1, Standing DEF ImageInv, WholeDue, BackupDone
  <2>7. Unended' => Unended
    BY <1>1, <2>2, <2>3 DEF Unended
  <2>8. is'.chan.eof => (fmt'.img = 0 /\ fmt'.imgEof) \/ ~Engaged
    BY <1>1, <1>2, <1>3, <1>5, <2>1, <2>3
       DEF ImageInv, AccountInv, EndSeen, ImageEnds
  <2>9. InFlight' = InFlight
    <3>1. InFlight = is.chan.n + fmt.img /\ InFlight' = is'.chan.n + fmt'.img
      BY DEF InFlight
    <3>2. is'.chan.n + fmt'.img = is.chan.n + fmt.img
      <4> HIDE DEF k
      <4> QED BY <1>2, <1>3, <1>5, <2>1, <2>3
    <3> QED BY <3>1, <3>2
  <2>10. InFlight \in Nat
    BY <1>2 DEF InFlight
  <2>11. AccountInv'
    BY <1>1, <1>2, <2>2, <2>4, <2>6, <2>7, <2>8, <2>9, <2>10, AccountMoved
       DEF ImageInv
  <2> QED BY <2>5, <2>11
<1> QED BY <1>7, <1>8

\* A DATA agent that recovers halts: what the channel still holds goes nowhere
LEMMA HaltsRecoverImage ==
    ASSUME ImageInv, SessionInv', pc = "da", data.state = "ACTIVE",
           data.op = "RECOVER", NEW m \in Mover, m.state = mover.state,
           m.addr = mover.addr, m.mode = mover.mode,
           DataHaltsRecover("SUCCESSFUL", m)
    PROVE  LinkInv' /\ AccountInv'
<1> DEFINE t  == Close(is, "data")
           k  == Least(t.chan.n, ImageSize)
           t1 == [t EXCEPT !.chan.n = @ - k]
<1>1. is \in Stream /\ data \in Data /\ t \in Stream
  BY CloseType DEF ImageInv, SessionInv, TypeOK, Side
<1>2. /\ data' = NoticeSent(DataHalted(data, "SUCCESSFUL")) /\ is' = t1
      /\ mover' = m
  BY DEF DataHaltsRecover, DataBecomes
<1> HIDE DEF t
<1>3. data'.state = "HALTED" /\ data'.op = "RECOVER"
  BY <1>1, <1>2, DataFields
<1>4. t1.ep = t.ep /\ t1.remote = t.remote /\ t1.chan.mode = t.chan.mode
  BY <1>1 DEF Stream, Chan
<1>5. t.chan = ZeroChan => t1.chan = ZeroChan
  <2> SUFFICES ASSUME t.chan = ZeroChan PROVE t1.chan = ZeroChan
    OBVIOUS
  <2>1. t.chan.n = 0 /\ k = 0
    BY SizesAssumption DEF ZeroChan, Least
  <2>2. t1.chan = [t.chan EXCEPT !.n = 0]
    BY <1>1, <2>1 DEF Stream
  <2> QED BY <2>2 DEF ZeroChan
<1>6. Emptied'
  BY <1>3 DEF Emptied, BackupDone
<1> QED BY <1>1, <1>2, <1>3, <1>4, <1>5, <1>6, DataEndsImage DEF t

LEMMA RecoverImage ==
    ASSUME ImageInv, SessionInv', DataRecovers
    PROVE  LinkInv' /\ AccountInv'
<1> DEFINE k  == Least(is.chan.n, ImageSize - fmt.img)
           m1 == IF data.addr = "LOCAL" /\ fmt.ask > 0
                 THEN [mover EXCEPT !.left = fmt.ask] ELSE mover
           is1 == [is EXCEPT !.chan.n = @ - k]
           f1 == [fmt EXCEPT !.img = @ + k,
                      !.imgEof = @ \/ (is.chan.n = k /\ is.chan.eof),
                      !.ask = 0, !.more = FALSE, !.chat = FALSE]
<1>1. /\ is \in Stream /\ fmt \in Formatter /\ acct \in Account /\ data \in Data
      /\ mover \in Mover /\ fmt.ask \in 0 .. ReadMax
      /\ pc = "da" /\ data.state = "ACTIVE" /\ data.op = "RECOVER"
      /\ acct' = [acct EXCEPT !.asked = @ + fmt.ask]
  BY DEF DataRecovers, ImageInv, SessionInv, TypeOK, Formatter
<1>2. /\ acct.made \in Nat /\ acct.pad \in Nat /\ acct.out \in Nat
      /\ is.chan.n \in Nat /\ fmt.img \in Nat
      /\ is.chan.n <= ChanSize /\ fmt.img <= ImageSize
  BY <1>1, Counts
<1>3. /\ m1 \in Mover /\ m1.state = mover.state /\ m1.mode = mover.mode
      /\ m1.addr = mover.addr
  BY <1>1, MoverLeftType, MoverFields
<1>4. acct'.made = acct.made /\ acct'.pad = acct.pad /\ acct'.out = acct.out
  BY <1>1 DEF Account
<1>5. CASE fmt.wrapEof
  <2>1. DataHaltsRecover("SUCCESSFUL", m1)
    BY <1>5 DEF DataRecovers
  <2> HIDE DEF m1
  <2> QED BY <1>1, <1>3, <2>1, HaltsRecoverImage
<1>6. CASE ~fmt.wrapEof
  <2>1. data' = NoticeSent(data) /\ is' = is1 /\ fmt' = f1 /\ mover' = m1
    BY <1>6 DEF DataRecovers, DataBecomes
  <2>2. data'.state = data.state /\ data'.op = data.op /\ data'.halt = data.halt
    BY <1>1, <2>1, DataFields
  <2>3. k \in Nat /\ k <= is.chan.n
    BY <1>2, SizesAssumption DEF Least
  <2>4. /\ is1.ep = is.ep /\ is1.remote = is.remote /\ is1.chan.mode = is.chan.mode
        /\ is1.chan.n = is.chan.n - k
    BY <1>1 DEF Stream, Chan
  <2>5. f1.img = fmt.img + k
    BY <1>1 DEF Formatter
  <2> HIDE DEF is1, f1, m1
  <2>6. MoverGoesOn
    BY <1>3, <2>1 DEF MoverGoesOn
  <2>7. LinkInv'
    BY <1>1, <2>1, <2>2, <2>4, <2>6, LinkKept DEF ImageInv
  <2>8. ~WholeDue /\ ~BackupDone /\ ~Unended'
    <3>1. mover'.state # "LISTEN" /\ data'.op # "BACKUP" /\ data'.state = "ACTIVE"
      BY <1>1, <1>3, <2>1, <2>2, Standing DEF ImageInv
    <3> QED BY <1>1, <3>1, Standing DEF ImageInv, WholeDue, BackupDone, Unended
  <2>9. InFlight' = InFlight
    <3>1. InFlight = is.chan.n + fmt.img
              /\ InFlight' = is.chan.n - k + (fmt.img + k)
      BY <2>1, <2>4, <2>5 DEF InFlight
    <3>2. is.chan.n - k + (fmt.img + k) = is.chan.n + fmt.img
      <4> HIDE DEF k
      <4> QED BY <1>2, <2>3
    <3> QED BY <3>1, <3>2
  <2>10. InFlight \in Nat
    BY <1>2 DEF InFlight
  <2>11. AccountInv'
    BY <1>1, <1>2, <1>4, <2>2, <2>6, <2>8, <2>9, <2>10, AccountMoved DEF ImageInv
  <2> QED BY <2>7, <2>11
<1> QED BY <1>5, <1>6

LEMMA OverrunsImage ==
    ASSUME ImageInv, SessionInv', DataOverruns
    PROVE  LinkInv' /\ AccountInv'
<1> DEFINE m1 == IF Readable THEN [mover EXCEPT !.left = fmt.ask] ELSE mover
<1>1. /\ mover \in Mover /\ acct \in Account /\ fmt.ask \in 0 .. ReadMax
      /\ pc = "da" /\ data.state = "ACTIVE" /\ data.op = "RECOVER"
      /\ acct' = [acct EXCEPT !.asked = @ + IF Readable THEN fmt.ask ELSE 0]
  BY DEF DataOverruns, ImageInv, SessionInv, TypeOK, Formatter
<1>2. acct'.made = acct.made /\ acct'.pad = acct.pad /\ acct'.out = acct.out
  BY <1>1 DEF Account
<1>3. CASE UNCHANGED <<is, mover, data, fmt>>
  <2>1. MoverGoesOn
    BY <1>3 DEF MoverGoesOn
  <2> QED BY <1>1, <1>2, <1>3, <2>1, NothingMoves
<1>4. CASE DataHaltsRecover("SUCCESSFUL", m1)
  <2>1. /\ m1 \in Mover /\ m1.state = mover.state /\ m1.mode = mover.mode
        /\ m1.addr = mover.addr
    BY <1>1, MoverLeftType, MoverFields
  <2> HIDE DEF m1
  <2> QED BY <1>1, <1>4, <2>1, HaltsRecoverImage
<1> QED BY <1>3, <1>4 DEF DataOverruns

-----------------------------------------------------------------------------
(* The requests.                                                            *)

LEMMA ListenImage ==
    ASSUME ImageInv, SessionInv', NEW addr \in Addrs, NEW mode \in MoverMode,
           MoverListen(addr, mode)
    PROVE  LinkInv' /\ AccountInv'
<1>1. /\ is \in Stream /\ mover \in Mover /\ addr \in AddrType
      /\ pc = "dispatch" /\ mover.state = "IDLE" /\ data.state = "IDLE"
      /\ CanListen(is, "tape") /\ UNCHANGED <<tape, data, fmt, pc>>
  BY KindsAssumption
     DEF MoverListen, Dispatched, ImageInv, SessionInv, TypeOK
<1>2. CASE /\ is' = Listen(is, "tape", addr)
           /\ mover' = MoverListening(mover, mode, addr)
           /\ acct' = NewAccount
  <2>1. mover'.state = "LISTEN" /\ mover'.addr = addr
    BY <1>1, <1>2 DEF MoverListening, Mover
  <2>2. is.chan = ZeroChan
    BY <1>1 DEF ImageInv, LinkInv, StreamClean, CanListen, Peer
  <2>3. is'.chan = is.chan /\ (addr = "LOCAL" <=> is'.remote = "EXCLUDE")
    BY <1>1, <1>2, ListenChan DEF Side
  <2>4. LinkInv'
    BY <1>1, <2>1, <2>2, <2>3 DEF LinkInv, LocalChan, AddrsMatch, ModesMatch,
       StreamClean, ZeroChan
  <2>5. Whole' /\ acct'.pad = 0
    BY <1>2, <2>2, <2>3 DEF Whole, NewAccount, ZeroChan
  <2>6. AccountInv'
    BY <1>1, <2>5 DEF AccountInv, Balanced, EndSeen, Emptied, BackupDone,
       PaddedAtTheEnd
  <2> QED BY <2>4, <2>6
<1>3. CASE mover' = [mover EXCEPT !.addr = addr] /\ UNCHANGED <<is, acct>>
  <2>1. mover'.state = "IDLE"
    BY <1>1, <1>3 DEF Mover
  <2>2. MoverGoesOn
    BY <2>1 DEF MoverGoesOn
  <2> QED BY <1>1, <1>3, <2>2, NothingMoves
<1> QED BY <1>2, <1>3 DEF MoverListen

LEMMA ConnectsImage ==
    ASSUME ImageInv, SessionInv', NEW mode \in MoverMode, MoverConnect(mode)
    PROVE  LinkInv' /\ AccountInv'
<1> DEFINE s == Connect(is, "tape", "TCP")
           m == [mover EXCEPT !.mode = mode, !.addr = "TCP"]
<1>1. /\ is \in Stream /\ LegalStream(is) /\ mover \in Mover /\ pc = "dispatch"
      /\ data.state = "IDLE" /\ CanConnect(is, "tape", "TCP")
      /\ UNCHANGED <<tape, data, fmt, pc>> /\ is' = Start(s, "tape", mode)
      /\ mover' = MoverActive(m) /\ acct' = NewAccount
  BY DEF MoverConnect, Dispatched, ImageInv, SessionInv, TypeOK, EndPointPairing
<1>2. /\ s \in Stream /\ LegalStream(s) /\ s.ep["data"].cs = "REMOTE"
      /\ s.chan.n = is.chan.n /\ s.remote # "EXCLUDE"
  BY <1>1, ConnectType, ConnectSide, ConnectChan DEF Side, AddrType, Peer
<1>3. mover'.state = "ACTIVE" /\ mover'.addr = "TCP"
  BY <1>1 DEF MoverActive, Mover
<1>4. is.chan.n = 0
  BY <1>1 DEF ImageInv, LinkInv, StreamClean, CanConnect, Peer, ZeroChan
<1> HIDE DEF s
<1>5. /\ is'.chan.n = 0 /\ is'.remote # "EXCLUDE" /\ is'.ep["data"].cs = "REMOTE"
  BY <1>1, <1>2, <1>4, StartChan, StartKeeps DEF Side, MoverMode
<1>6. LinkInv'
  BY <1>1, <1>3, <1>5 DEF LinkInv, LocalChan, AddrsMatch, ModesMatch, StreamClean
<1>7. Whole' /\ acct'.pad = 0
  BY <1>1, <1>5 DEF Whole, NewAccount
<1>8. AccountInv'
  BY <1>1, <1>7 DEF AccountInv, Balanced, EndSeen, Emptied, BackupDone,
     PaddedAtTheEnd
<1> QED BY <1>6, <1>8

LEMMA HaltsImage ==
    ASSUME ImageInv, SessionInv', MoverAbort \/ MoverClose
    PROVE  LinkInv' /\ AccountInv'
<1>1. PICK reason \in {"ABORTED", "CONNECT_CLOSED"} : MoverHalts(reason)
  BY DEF MoverAbort, MoverClose
<1>2. /\ is \in Stream /\ mover \in Mover /\ acct \in Account /\ fmt \in Formatter
      /\ pc = "dispatch" /\ pc' = pc /\ data' = data /\ fmt' = fmt /\ acct' = acct
      /\ mover.state \in {"LISTEN", "ACTIVE", "PAUSED"}
      /\ mover' = MoverHalted(mover, reason) /\ is' = Close(is, "tape")
  BY <1>1 DEF MoverAbort, MoverClose, MoverHalts, Dispatched, ImageInv, SessionInv,
     TypeOK
<1>3. mover'.state = "HALTED"
  BY <1>2, MoverHaltedType DEF HaltReason
<1>4. LinkInv'
  BY <1>2, <1>3, LinkTapeClosed DEF ImageInv
<1>5. BackupDone => acct'.made + acct'.pad = acct'.out /\ is.chan.n = 0
  BY <1>2 DEF ImageInv, AccountInv, Emptied
<1>6. acct'.made + acct'.pad + (acct.out + is.chan.n)
          = acct.made + acct.pad + (acct'.out + is.chan.n)
  BY <1>2
<1>7. AccountInv'
  BY <1>2, <1>3, <1>5, <1>6, AccountTapeClosed DEF ImageInv
<1> QED BY <1>4, <1>7

\* The stream, the mover and the account as the DATA agent finds them once it has
\* connected: nothing of the image has moved yet
LEMMA ConnectedClean ==
    ASSUME ImageInv, pc = "dispatch", NEW addr \in Addrs, DataCanConnect(addr),
           MoverMet(addr)
    PROVE  LET s == StreamConnected(addr)
           IN  /\ s.chan.n = 0 /\ ~s.chan.eof
               /\ addr = "LOCAL" <=> s.remote = "EXCLUDE"
               /\ addr = "LOCAL" =>
                      /\ s.chan.mode \notin {"READ", "WRITE"}
                      /\ mover'.state = "ACTIVE" /\ mover'.addr = "LOCAL"
                      /\ mover'.mode = mover.mode
               /\ addr # "LOCAL" => mover'.state = "IDLE"
               /\ acct'.made + acct'.pad = acct'.out + s.chan.n /\ acct'.pad = 0
<1> DEFINE s == StreamConnected(addr)
           c == Connect(is, "data", addr)
<1>1. /\ is \in Stream /\ LegalStream(is) /\ mover \in Mover /\ acct \in Account
      /\ mover.mode \in {"READ", "WRITE"} /\ fmt \in Formatter
      /\ addr \in AddrType /\ CanConnect(is, "data", addr)
  BY KindsAssumption DEF ImageInv, SessionInv, TypeOK, EndPointPairing, Mover,
     MoverMode, DataCanConnect
<1>2. is.ep["data"].cs = "IDLE" /\ is.ep["tape"].cs \in {"IDLE", "LISTEN"}
  BY <1>1 DEF CanConnect, Peer, AddrType
<1>3. is.chan = ZeroChan
  BY <1>2 DEF ImageInv, LinkInv, StreamClean
<1>4. /\ c \in Stream /\ LegalStream(c)
      /\ c.chan.n = 0 /\ ~c.chan.eof
      /\ addr = "LOCAL" => c.chan.mode = "IDLE"
      /\ addr = "LOCAL" <=> c.remote = "EXCLUDE"
  BY <1>1, <1>3, ConnectType, ConnectSide, ConnectChan DEF Side, ZeroChan
<1> HIDE DEF c
<1>5. CASE addr = "LOCAL"
  <2>1. s = Start(c, "tape", mover.mode)
    BY <1>5 DEF StreamConnected, c
  <2>2. /\ s.chan.n = 0 /\ ~s.chan.eof /\ s.remote = "EXCLUDE"
        /\ s.chan.mode \notin {"READ", "WRITE"}
    BY <1>1, <1>4, <1>5, <2>1, StartChan, StartKeeps DEF Side
  <2>3. mover' = NoticeSent(MoverActive(mover)) /\ acct' = acct
            /\ mover.state = "LISTEN" /\ mover.addr = "LOCAL"
    BY <1>5 DEF MoverMet, DataCanConnect
  <2>4. /\ mover'.state = "ACTIVE" /\ mover'.addr = "LOCAL"
        /\ mover'.mode = mover.mode
    BY <1>1, <2>3, MoverFields
  <2>5. acct.made + acct.pad = acct.out + is.chan.n /\ acct.pad = 0
    BY <2>3 DEF ImageInv, AccountInv, Balanced, WholeDue, Whole, PaddedAtTheEnd,
       Unended
  <2> QED BY <1>3, <1>5, <2>2, <2>3, <2>4, <2>5 DEF ZeroChan
<1>6. CASE addr # "LOCAL"
  <2>1. s = c
    BY <1>6 DEF StreamConnected, c
  <2>2. mover' = mover /\ mover.state = "IDLE" /\ acct' = NewAccount
    BY <1>6 DEF MoverMet, DataCanConnect
  <2> QED BY <1>4, <1>6, <2>1, <2>2 DEF NewAccount
<1> QED BY <1>5, <1>6

LEMMA DataConnectImage ==
    ASSUME ImageInv, SessionInv', NEW addr \in Addrs, DataConnect(addr)
    PROVE  LinkInv' /\ AccountInv'
<1>1. /\ data \in Data /\ pc = "dispatch" /\ pc' = pc
      /\ DataCanConnect(addr) /\ MoverMet(addr) /\ is' = StreamConnected(addr)
      /\ data' = DataConnected(addr) /\ addr \in AddrType
  BY KindsAssumption DEF DataConnect, Dispatched, ImageInv, SessionInv, TypeOK
<1>2. data'.state = "CONNECTED"
  BY <1>1 DEF DataConnected, Data
<1>3. is'.ep["data"].cs # "IDLE"
  BY <1>2 DEF SessionInv, AgentsMatchStream
<1>4. /\ is'.chan.n = 0 /\ ~is'.chan.eof
      /\ addr = "LOCAL" <=> is'.remote = "EXCLUDE"
      /\ addr = "LOCAL" => /\ is'.chan.mode \notin {"READ", "WRITE"}
                           /\ mover'.state = "ACTIVE" /\ mover'.addr = "LOCAL"
      /\ addr # "LOCAL" => mover'.state = "IDLE"
      /\ acct'.made + acct'.pad = acct'.out + is'.chan.n /\ acct'.pad = 0
  BY <1>1, ConnectedClean
<1>5. LinkInv'
  BY <1>2, <1>3, <1>4 DEF LinkInv, LocalChan, AddrsMatch, ModesMatch, StreamClean,
     Engaged
<1>6. AccountInv'
  BY <1>2, <1>4 DEF AccountInv, Balanced, Whole, EndSeen, Emptied, BackupDone,
     PaddedAtTheEnd
<1> QED BY <1>5, <1>6

\* The DATA agent starts on a connection nothing has moved on: the formatter is
\* new, and what the account holds is in the channel
LEMMA StartsImage ==
    ASSUME SessionInv', pc' # "ended", NEW s \in Stream, LegalStream(s),
           NEW op \in DataOp, is' = Start(s, "data", DataModeFor(op)),
           s.remote = "EXCLUDE" => s.chan.mode \notin {"READ", "WRITE"},
           data'.state = "ACTIVE", data'.op = op, fmt' = NoFormatter,
           mover'.state # "LISTEN", Engaged' => mover'.addr = "LOCAL",
           Engaged' => s.remote = "EXCLUDE",
           Engaged' => mover'.mode = MoverModeFor(op),
           Engaged' => ~s.chan.eof,
           acct'.made + acct'.pad = acct'.out + s.chan.n, acct'.pad = 0
    PROVE  LinkInv' /\ AccountInv'
<1>1. DataModeFor(op) \in {"READ", "WRITE"}
  BY DEF DataModeFor
<1>2. /\ is'.chan.n = s.chan.n /\ is'.chan.eof = s.chan.eof
      /\ is'.remote = s.remote
      /\ s.remote = "EXCLUDE" => is'.chan.mode \in {s.chan.mode, "RESIDENT"}
  BY <1>1, StartChan, StartKeeps DEF Side
<1>3. is'.ep["data"].cs # "IDLE"
  BY DEF SessionInv, AgentsMatchStream
<1>4. LinkInv'
  BY <1>2, <1>3 DEF LinkInv, LocalChan, AddrsMatch, ModesMatch, StreamClean
<1>5. InFlight' = s.chan.n
  <2>1. s.chan.n \in Nat
    BY ChanSizeAssumption DEF Stream, Chan
  <2> QED BY <1>2, <2>1 DEF InFlight, NoFormatter
<1>6. ~WholeDue'
  BY DEF WholeDue
<1>7. Balanced'
  BY <1>5, <1>6 DEF Balanced
<1>8. EndSeen'
  BY <1>2 DEF EndSeen
<1>9. AccountInv'
  BY <1>7, <1>8 DEF AccountInv, Emptied, BackupDone, PaddedAtTheEnd
<1> QED BY <1>4, <1>9

LEMMA DataStartImage ==
    ASSUME ImageInv, SessionInv', NEW op \in Ops, DataStart(op)
    PROVE  LinkInv' /\ AccountInv'
<1>1. /\ is \in Stream /\ LegalStream(is) /\ data \in Data /\ op \in DataOp
      /\ pc = "dispatch" /\ pc' = pc /\ data.state = "CONNECTED"
      /\ UNCHANGED <<mover, tape, acct>>
  BY KindsAssumption
     DEF DataStart, Dispatched, ImageInv, SessionInv, TypeOK, EndPointPairing
<1>2. CASE /\ is' = Start(is, "data", DataModeFor(op))
           /\ data' = DataActive(data, op) /\ fmt' = NoFormatter
  <2>1. data'.state = "ACTIVE" /\ data'.op = op
    BY <1>1, <1>2, DataFields
  <2>2. Engaged => mover.mode = MoverModeFor(op)
    BY DEF DataStart, Engaged
  <2>3. /\ mover.state # "LISTEN"
        /\ Engaged => mover.addr = "LOCAL" /\ is.remote = "EXCLUDE"
    BY <1>1, Standing DEF ImageInv
  <2>4. /\ acct.made + acct.pad = acct.out + is.chan.n
        /\ acct.pad = 0 /\ (Engaged => ~is.chan.eof)
    BY <1>1 DEF ImageInv, AccountInv, Balanced, WholeDue, Whole, PaddedAtTheEnd,
       Unended, EndSeen
  <2>5. is.remote = "EXCLUDE" => is.chan.mode \notin {"READ", "WRITE"}
    BY DEF ImageInv, LinkInv, LocalChan
  <2>6. Engaged' = Engaged /\ mover' = mover /\ acct' = acct
    BY <1>1 DEF Engaged
  <2>7. pc' # "ended"
    BY <1>1
  <2> QED BY <1>1, <1>2, <2>1, <2>2, <2>3, <2>4, <2>5, <2>6, <2>7, StartsImage
<1>3. CASE StartFails(is, data)
  <2>1. is' = Close(is, "data") /\ data' = DataIdled(data)
    BY <1>3 DEF StartFails
  <2>2. data'.state = "IDLE"
    BY <1>1, <2>1, DataFields
  <2>3. Emptied'
    BY <2>2 DEF Emptied, BackupDone
  <2> QED BY <1>1, <2>1, <2>2, <2>3, DataEndsImage
<1> QED BY <1>2, <1>3 DEF DataStart

LEMMA DataConnectStartImage ==
    ASSUME ImageInv, SessionInv', NEW op \in Ops, NEW addr \in Addrs,
           DataConnectStart(op, addr)
    PROVE  LinkInv' /\ AccountInv'
<1> DEFINE s == StreamConnected(addr)
           d == DataConnected(addr)
<1>1. /\ data \in Data /\ pc = "dispatch" /\ pc' = pc
      /\ DataCanConnect(addr) /\ MoverMet(addr)
      /\ addr = "LOCAL" => mover.mode = MoverModeFor(op)
      /\ addr \in AddrType /\ op \in DataOp /\ SessionInv
  BY KindsAssumption DEF DataConnectStart, Dispatched, ImageInv, SessionInv, TypeOK
<1>2. s \in Stream /\ LegalStream(s) /\ s.ep["data"].cs = "CONNECTED"
  BY <1>1, Connected
<1>3. d \in Data
  BY <1>1, DataConnectedType DEF DataConnected
<1>4. /\ s.chan.n = 0 /\ ~s.chan.eof
      /\ addr = "LOCAL" <=> s.remote = "EXCLUDE"
      /\ addr = "LOCAL" => /\ s.chan.mode \notin {"READ", "WRITE"}
                           /\ mover'.state = "ACTIVE" /\ mover'.addr = "LOCAL"
                           /\ mover'.mode = mover.mode
      /\ addr # "LOCAL" => mover'.state = "IDLE"
      /\ acct'.made + acct'.pad = acct'.out + s.chan.n /\ acct'.pad = 0
  BY <1>1, ConnectedClean
<1> HIDE DEF s, d
<1>5. Engaged' => addr = "LOCAL"
  BY <1>4 DEF Engaged
<1>6. mover'.state # "LISTEN" /\ pc' # "ended"
  BY <1>1, <1>4
<1>7. CASE /\ is' = Start(s, "data", DataModeFor(op))
           /\ data' = DataActive(d, op) /\ fmt' = NoFormatter
  <2>1. data'.state = "ACTIVE" /\ data'.op = op
    BY <1>3, <1>7, DataFields
  <2> QED BY <1>1, <1>2, <1>4, <1>5, <1>6, <1>7, <2>1, StartsImage
<1>8. CASE is' = Close(s, "data") /\ data' = DataIdled(d)
  <2> DEFINE t == Close(s, "data")
  <2>1. data'.state = "IDLE"
    BY <1>3, <1>8, DataFields
  <2>2. \/ t.ep["tape"].cs = "IDLE" /\ t.chan = ZeroChan /\ t.remote = "IDLE"
        \/ /\ s.remote = "EXCLUDE" /\ t.ep["tape"].cs = "DISCONNECTED"
           /\ t.remote = "EXCLUDE" /\ t.chan.mode = s.chan.mode
    BY <1>2, DataCloses
  <2> HIDE DEF t
  <2>3. is' = t
    BY <1>8 DEF t
  <2>4. Engaged' => is'.ep["tape"].cs # "IDLE"
    BY DEF SessionInv, AgentsMatchStream, Engaged
  <2>5. LinkInv'
    BY <1>4, <1>5, <1>6, <2>1, <2>2, <2>3, <2>4
       DEF LinkInv, LocalChan, AddrsMatch, ModesMatch, StreamClean, ZeroChan
  <2>6. Emptied'
    BY <2>1 DEF Emptied, BackupDone
  <2>7. AccountInv'
    BY <1>4, <1>5, <1>6, <2>1, <2>6, AccountAtRest
  <2> QED BY <2>5, <2>7
<1> QED BY <1>7, <1>8 DEF DataConnectStart, StartFails, s, d

LEMMA DataEndsRequestImage ==
    ASSUME ImageInv, SessionInv', DataAbort \/ DataStop
    PROVE  LinkInv' /\ AccountInv'
<1>1. /\ is \in Stream /\ data \in Data /\ pc = "dispatch"
      /\ mover' = mover /\ is' = Close(is, "data")
  BY DEF DataAbort, DataStop, Dispatched, ImageInv, SessionInv, TypeOK
<1>2. \/ /\ data.state = "ACTIVE" /\ data'.state = "HALTED"
         /\ data'.op = data.op /\ data'.halt = "ABORTED"
      \/ data.state = "HALTED" /\ data'.state = "IDLE"
  BY <1>1, DataFields DEF DataAbort, DataStop
<1>3. Emptied'
  BY <1>2 DEF Emptied, BackupDone
<1> QED BY <1>1, <1>2, <1>3, DataEndsImage

LEMMA SessionEndsImage ==
    ASSUME ImageInv, SessionInv', SessionEnds
    PROVE  LinkInv' /\ AccountInv'
<1>1. /\ data \in Data /\ is \in Stream /\ LegalStream(is) /\ pc' = "ended"
      /\ data' = DataIdled(data) /\ is' = Close(Close(is, "data"), "tape")
      /\ mover' = [InitMover EXCEPT !.notify = mover.notify, !.pend = mover.pend]
  BY DEF SessionEnds, ImageInv, SessionInv, TypeOK, EndPointPairing
<1>2. data'.state = "IDLE" /\ mover'.state = "IDLE"
  BY <1>1, DataFields DEF InitMover
<1>3. is'.remote # "EXCLUDE"
  BY <1>1, CloseBoth DEF Link
<1>4. LinkInv'
  BY <1>1, <1>2, <1>3 DEF LinkInv, LocalChan, AddrsMatch, ModesMatch, StreamClean,
     Engaged
<1>5. AccountInv'
  BY <1>2 DEF AccountInv, Balanced, WholeDue, EndSeen, Emptied, BackupDone,
     PaddedAtTheEnd, Unended, Engaged
<1> QED BY <1>4, <1>5

-----------------------------------------------------------------------------
(* The invariant.                                                           *)

LEMMA InitImage == Init => ImageInv
<1> SUFFICES ASSUME Init PROVE ImageInv
  OBVIOUS
<1>1. SessionInv
  BY InitInv
<1>2. /\ is.chan = ZeroChan /\ is.remote = "IDLE"
      /\ mover.state = "IDLE" /\ data.state = "IDLE"
  BY DEF Init, InitStream, InitMover, InitData
<1>3. LinkInv
  BY <1>2 DEF LinkInv, LocalChan, AddrsMatch, ModesMatch, StreamClean, Engaged
<1>4. AccountInv
  BY <1>2 DEF AccountInv, Balanced, WholeDue, EndSeen, Emptied, BackupDone,
     PaddedAtTheEnd, Unended, Engaged
<1> QED BY <1>1, <1>3, <1>4 DEF ImageInv

LEMMA NextImage == ImageInv /\ [Next]_vars => ImageInv'
<1> SUFFICES ASSUME ImageInv, [Next]_vars PROVE ImageInv'
  OBVIOUS
<1>1. SessionInv'
  BY NextInv DEF ImageInv
<1>2. LinkInv' /\ AccountInv'
  <2>1. CASE Quantum
    BY <1>1, <2>1, AcceptsImage, StillImage, AwaitsImage, ReadsImage, WritesImage,
       BackupImage, RecoverImage, OverrunsImage DEF Quantum, MoverOf, DataOf
  <2>2. CASE Poll
    BY <1>1, <2>2, StillImage, PeerImage, FormatterImage DEF Poll
  <2>3. CASE Request
    <3>1. CASE MoverRequest
      BY <1>1, <3>1, ListenImage, ConnectsImage, StillImage, HaltsImage
         DEF MoverRequest
    <3>2. CASE DataRequest
      BY <1>1, <3>2, DataConnectImage, DataStartImage, DataConnectStartImage,
         DataEndsRequestImage DEF DataRequest
    <3> QED BY <1>1, <2>3, <3>1, <3>2, StillImage DEF Request
  <2>4. CASE DispatchEnds
    BY <1>1, <2>4, StillImage
  <2>5. CASE SessionEnds
    BY <1>1, <2>5, SessionEndsImage
  <2>6. CASE UNCHANGED vars
    BY <2>6 DEF vars, ImageInv, LinkInv, LocalChan, AddrsMatch, ModesMatch,
       StreamClean, AccountInv, Balanced, WholeDue, Whole, InFlight, EndSeen,
       Emptied, BackupDone, PaddedAtTheEnd, Unended, Engaged
  <2>7. CASE Ended
    BY <2>6, <2>7 DEF Ended
  <2> QED BY <2>1, <2>2, <2>3, <2>4, <2>5, <2>6, <2>7 DEF Next
<1> QED BY <1>1, <1>2 DEF ImageInv

-----------------------------------------------------------------------------
(* What follows of it.                                                      *)

\* Throughout a session the image is accounted for: what entered is in one of
\* the two buffers or has left, the end of the image is seen only behind all of
\* it, and a channel is clean before another job can use it.
THEOREM ImageInvariant == Spec => []ImageInv
<1> QED BY InitImage, NextImage, PTL DEF Spec

\* While the DATA agent is at work, or a mover with a TCP peer is, every unit
\* that entered is in one of the two buffers or has left, for every size of
\* buffer and record and wherever the tape, the network and the formatter stop.
THEOREM ImageIsConserved == Spec => []ImageConserved
<1>1. ImageInv => ImageConserved
  BY DEF ImageInv, AccountInv, Balanced, WholeDue, Whole, Engaged, ImageConserved
<1> QED BY <1>1, ImageInvariant, PTL

\* A backup the DATA agent has reported SUCCESSFUL has wholly left the session,
\* and stays so while the mover goes on, halts or is aborted.
THEOREM BackupIsComplete == Spec => []BackupComplete
<1>1. ImageInv => BackupComplete
  BY DEF ImageInv, AccountInv, Emptied, BackupDone, BackupComplete
<1> QED BY <1>1, ImageInvariant, PTL

\* A mover that reads the tape only halts for the medium
LEMMA WritesHalt ==
    ASSUME SessionInv, MoverWrites, mover'.state = "HALTED"
    PROVE  mover'.halt = "MEDIA_ERROR"
<1>1. mover \in Mover /\ mover.state = "ACTIVE"
  BY DEF MoverWrites, SessionInv, TypeOK
<1>2. \/ MoverBecomes(mover) \/ MoverBecomes(MoverApplied(mover))
      \/ \E left, pend :
            LET m1 == [mover EXCEPT !.left = left]
                m2 == [m1 EXCEPT !.pend = pend]
            IN  MoverBecomes(m1) \/ MoverBecomes(m2) \/ MoverBecomes(MoverApplied(m2))
  BY DEF MoverWrites
<1>3. ASSUME NEW left, NEW pend
      PROVE  LET m1 == [mover EXCEPT !.left = left]
                 m2 == [m1 EXCEPT !.pend = pend]
             IN  /\ NoticeSent(m1).state = "ACTIVE" /\ NoticeSent(m2).state = "ACTIVE"
                 /\ NoticeSent(MoverHalted(m2, "MEDIA_ERROR")).halt = "MEDIA_ERROR"
                 /\ NoticeSent(MoverPaused(m2, m2.pend)).state = "PAUSED"
  BY <1>1 DEF NoticeSent, MoverHalted, MoverPaused, Mover
<1>4. /\ NoticeSent(mover).state = "ACTIVE"
      /\ NoticeSent(MoverHalted(mover, "MEDIA_ERROR")).halt = "MEDIA_ERROR"
      /\ NoticeSent(MoverPaused(mover, mover.pend)).state = "PAUSED"
  BY <1>1, MoverFields
<1>5. ASSUME MoverBecomes(MoverApplied(mover)) PROVE mover'.halt = "MEDIA_ERROR"
  BY <1>4, <1>5 DEF MoverBecomes, MoverApplied
<1>6. ASSUME NEW left, NEW pend,
             LET m1 == [mover EXCEPT !.left = left]
                 m2 == [m1 EXCEPT !.pend = pend]
             IN  MoverBecomes(m1) \/ MoverBecomes(m2) \/ MoverBecomes(MoverApplied(m2))
      PROVE  mover'.halt = "MEDIA_ERROR"
  <2> DEFINE m1 == [mover EXCEPT !.left = left]
             m2 == [m1 EXCEPT !.pend = pend]
  <2>1. /\ NoticeSent(m1).state = "ACTIVE" /\ NoticeSent(m2).state = "ACTIVE"
        /\ NoticeSent(MoverHalted(m2, "MEDIA_ERROR")).halt = "MEDIA_ERROR"
        /\ NoticeSent(MoverPaused(m2, m2.pend)).state = "PAUSED"
    BY <1>3
  <2>2. MoverBecomes(m1) \/ MoverBecomes(m2) \/ MoverBecomes(MoverApplied(m2))
    BY <1>6
  <2> HIDE DEF m1, m2
  <2> QED BY <2>1, <2>2 DEF MoverBecomes, MoverApplied
<1>7. CASE MoverBecomes(mover) \/ MoverBecomes(MoverApplied(mover))
  <2>1. ~MoverBecomes(mover)
    BY <1>4 DEF MoverBecomes
  <2> QED BY <1>5, <1>7, <2>1
<1>8. CASE \E left, pend :
              LET m1 == [mover EXCEPT !.left = left]
                  m2 == [m1 EXCEPT !.pend = pend]
              IN  MoverBecomes(m1) \/ MoverBecomes(m2) \/ MoverBecomes(MoverApplied(m2))
  BY <1>6, <1>8, Zenon
<1> QED BY <1>2, <1>7, <1>8, Zenon

LEMMA ClosedReads ==
    ASSUME ImageInv, MoverReads, mover'.state = "HALTED",
           mover'.halt = "CONNECT_CLOSED", data.state = "ACTIVE" \/ mover.addr = "TCP"
    PROVE  acct'.out = acct'.made + acct'.pad
<1>1. /\ is \in Stream /\ fmt \in Formatter /\ acct \in Account
      /\ data.op \in {"BACKUP", "RECOVER", "NOACTION"}
      /\ mover.state = "ACTIVE" /\ mover.mode = "READ" /\ SessionInv
  BY DEF MoverReads, ImageInv, SessionInv, TypeOK, Data, DataOp
<1>2. /\ acct.made \in Nat /\ acct.pad \in Nat /\ acct.out \in Nat
      /\ is.chan.n \in Nat /\ fmt.img \in Nat
  BY <1>1, Counts
<1>3. PICK s \in Stream, p \in Nat, q \in Nat :
         /\ s.chan.n + q = is.chan.n + p
         /\ acct'.made = acct.made /\ acct'.pad = acct.pad + p
         /\ acct'.out = acct.out + q
         /\ is.chan.eof /\ s.chan.n = 0
  <2>1. PICK s \in Stream, p \in Nat, q \in Nat :
           /\ s.chan.n + q = is.chan.n + p
           /\ acct'.made = acct.made /\ acct'.pad = acct.pad + p
           /\ acct'.out = acct.out + q
           /\ \/ mover'.state \in {"ACTIVE", "PAUSED"}
              \/ mover'.halt = "CONNECT_CLOSED" => is.chan.eof /\ s.chan.n = 0
    BY <1>1, ReadSteps
  <2> QED BY <2>1
<1>4. acct.made + acct.pad = acct.out + is.chan.n
  <2>1. CASE data.state = "ACTIVE"
    <3>1. data.op = "BACKUP" /\ Engaged
      BY <1>1, <2>1 DEF ImageInv, LinkInv, ModesMatch, Engaged, MoverModeFor
    <3>2. fmt.img = 0
      BY <1>3, <2>1, <3>1 DEF ImageInv, AccountInv, EndSeen
    <3>3. acct.made + acct.pad = acct.out + (is.chan.n + fmt.img)
      BY <2>1 DEF ImageInv, AccountInv, Balanced, InFlight
    <3> QED BY <1>2, <3>2, <3>3
  <2>2. CASE mover.addr = "TCP"
    BY <1>1, <2>2 DEF ImageInv, AccountInv, Balanced, WholeDue, Whole, Engaged
  <2> QED BY <2>1, <2>2
<1> QED BY <1>2, <1>3, <1>4

\* A mover that calls the connection closed has written all that entered the
\* session, the last record filled up, for every record size and every cut the
\* quanta make of the image.
THEOREM ClosedIsWritten == Spec => ClosedMeansWritten
<1> DEFINE Closes == /\ mover.state = "ACTIVE" /\ mover'.state = "HALTED"
                     /\ mover'.halt = "CONNECT_CLOSED" /\ pc = "ta"
                     /\ data.state = "ACTIVE" \/ mover.addr = "TCP"
           Written == acct'.out = acct'.made + acct'.pad
<1>1. ASSUME ImageInv, [Next]_vars, Closes PROVE Written
  <2>1. MoverAwaits \/ MoverReads \/ MoverWrites \/ MoverIdles \/ MoverRests
    <3>1. ~UNCHANGED vars
      BY <1>1 DEF vars
    <3> QED BY <1>1, <3>1
       DEF Next, Quantum, StreamAccepts, StreamIdles, MoverOf, DataOf, DataIdles,
           DataRests, DataBackups, DataRecovers, DataOverruns, Poll, PollConnects,
           PollReceives, PollSends, PollFormatterImage, PollFormatterFed,
           PollFormatterLines, Polled, PollEnds, Request, TapeOpen, TapeClose,
           MoverRequest, MoverListen, MoverConnect, MoverContinue, MoverAbort,
           MoverClose, MoverStop, MoverRead, DataRequest, DataConnect, DataStart,
           DataConnectStart, DataAbort, DataStop, Dispatched, DispatchEnds,
           SessionEnds, Ended
  <2>2. MoverReads
    <3>1. ~MoverWrites
      BY <1>1, WritesHalt DEF ImageInv
    <3> QED BY <1>1, <2>1, <3>1 DEF MoverAwaits, MoverIdles, MoverRests
  <2> QED BY <1>1, <2>2, ClosedReads
<1>2. ASSUME ImageInv, [Next]_vars
      PROVE  [mover.state = "ACTIVE" /\ mover'.state = "HALTED"
                  /\ mover'.halt = "CONNECT_CLOSED" /\ pc = "ta"
                  /\ (data.state = "ACTIVE" \/ mover.addr = "TCP")
              => acct'.out = acct'.made + acct'.pad]_vars
  BY <1>1, <1>2
<1> QED BY <1>2, ImageInvariant, PTL DEF Spec, ClosedMeansWritten

-----------------------------------------------------------------------------
(***************************************************************************)
(* A session that only backs up, and only between its own agents,           *)
(* implements BackupPipe: what entered is what the formatter delivered, what *)
(* is kept is what the mover has put on the tape, and the DATA agent's state *)
(* is the verdict.  Every step of the session is a step of the pipe or      *)
(* leaves it as it is.                                                      *)
(***************************************************************************)
-----------------------------------------------------------------------------
(* What a session never leaves once it names no other address or operation. *)

LocalBackup == Addrs \subseteq {"LOCAL"} /\ Ops \subseteq {"BACKUP"}

LocalInv ==
    /\ mover.addr = "LOCAL" /\ mover.left = 0
    /\ data.op # "RECOVER"
    /\ data.state \in {"ACTIVE", "HALTED"} => data.op = "BACKUP"
    /\ is.remote \in {"IDLE", "EXCLUDE"}

\* What may become of the mover without an address or a length
MoverStays(m) ==
    \/ \E reason : m = MoverHalted(mover, reason) \/ m = MoverPaused(mover, reason)
    \/ m \in {mover, MoverActive(mover), MoverApplied(mover), MoverStopped(mover)}
    \/ \E mode : m = MoverListening(mover, mode, "LOCAL")

LEMMA StaysLocal ==
    ASSUME TypeOK, LocalInv, NEW m, MoverStays(m)
    PROVE  /\ m.addr = "LOCAL" /\ m.left = 0
           /\ NoticeSent(m).addr = "LOCAL" /\ NoticeSent(m).left = 0
<1>1. mover \in Mover
  BY DEF TypeOK
<1>2. \/ \E reason : m = MoverHalted(mover, reason) \/ m = MoverPaused(mover, reason)
      \/ m \in {mover, MoverActive(mover), MoverStopped(mover)}
      \/ \E mode : m = MoverListening(mover, mode, "LOCAL")
  BY DEF MoverStays, MoverApplied
<1>3. m.addr = "LOCAL" /\ m.left = 0
  BY <1>1, <1>2 DEF LocalInv, MoverHalted, MoverPaused, MoverActive, MoverStopped,
     MoverListening, Mover
<1>4. NoticeSent(m).addr = m.addr /\ NoticeSent(m).left = m.left
  BY <1>1, <1>2 DEF NoticeSent, MoverHalted, MoverPaused, MoverActive, MoverStopped,
     MoverListening, Mover
<1> QED BY <1>3, <1>4

\* A mover that reads the tape has been asked for nothing
LEMMA NothingAsked ==
    ASSUME SessionInv, LocalInv, MoverWrites
    PROVE  /\ is'.remote = is.remote /\ acct'.made = acct.made
           /\ acct'.out = acct.out
           /\ mover'.addr = "LOCAL" /\ mover'.left = 0
<1>1. /\ TypeOK /\ mover \in Mover /\ is \in Stream /\ acct \in Account
      /\ is.chan.n \in 0 .. ChanSize /\ mover.left = 0 /\ acct.made \in Nat
  BY DEF SessionInv, TypeOK, LocalInv, Stream, Chan, Account
<1>2. Least(Room(is), mover.left) = 0
  BY <1>1, ChanSizeAssumption DEF Least, Room
<1>3. PICK k \in 0 .. ChanSize :
         \/ /\ MoverBecomes(MoverApplied(mover)) \/ MoverBecomes(mover)
            /\ UNCHANGED <<is, acct>>
         \/ /\ k = 0 /\ MoverBecomes(Moved(k)) /\ is' = Filled(k)
            /\ acct' = [acct EXCEPT !.made = @ + k]
         \/ k < 0
  BY <1>2, WriteCases
<1>4. k \in Nat
  BY ChanSizeAssumption
<1>5. CASE /\ MoverBecomes(MoverApplied(mover)) \/ MoverBecomes(mover)
           /\ UNCHANGED <<is, acct>>
  BY <1>1, <1>5, StaysLocal DEF MoverBecomes, MoverStays
<1>6. CASE /\ k = 0 /\ MoverBecomes(Moved(k)) /\ is' = Filled(k)
           /\ acct' = [acct EXCEPT !.made = @ + k]
  <2>1. is'.remote = is.remote
    BY <1>1, <1>6 DEF Filled, Stream
  <2>2. acct'.made = acct.made /\ acct'.out = acct.out
    BY <1>1, <1>6 DEF Account
  <2>3. Moved(k).left = 0 /\ Moved(k).addr = "LOCAL"
    BY <1>1, <1>6 DEF Moved, Mover, LocalInv
  <2>4. NoticeSent(Moved(k)).left = Moved(k).left
            /\ NoticeSent(Moved(k)).addr = Moved(k).addr
    BY <1>1 DEF Moved, NoticeSent, Mover
  <2> QED BY <1>6, <2>1, <2>2, <2>3, <2>4 DEF MoverBecomes
<1> QED BY <1>3, <1>4, <1>5, <1>6

LEMMA CloseRemote ==
    ASSUME NEW s \in Stream, NEW side \in Side, s.remote \in {"IDLE", "EXCLUDE"}
    PROVE  Close(s, side).remote \in {"IDLE", "EXCLUDE"}
BY CloseEnds, CloseIdle DEF Side

\* The stream serves no TCP peer
LEMMA NoPeer ==
    ASSUME SessionInv, LinkInv, LocalInv, pc # "ended"
    PROVE  is.remote # "LISTEN" /\ is.chan.mode \notin {"READ", "WRITE"}
<1>1. is.remote = "EXCLUDE" \/ is.chan = ZeroChan
  <2>1. LegalStream(is)
    BY DEF SessionInv, EndPointPairing
  <2> QED BY <2>1, LegalStatus DEF LocalInv, LinkInv, StreamClean
<1> QED BY <1>1 DEF LocalInv, LinkInv, LocalChan, ZeroChan

-----------------------------------------------------------------------------
(* The steps such a session can take.                                       *)

LEMMA QuantumLocal ==
    ASSUME LocalBackup, SessionInv, LinkInv, LocalInv, Quantum
    PROVE  LocalInv'
<1>1. /\ TypeOK /\ mover \in Mover /\ is \in Stream /\ data \in Data /\ pc # "ended"
  BY DEF SessionInv, TypeOK, Quantum, StreamAccepts, StreamIdles, MoverOf, MoverIdles,
         MoverRests, MoverAwaits, MoverReads, MoverWrites, DataOf, DataIdles,
         DataRests, DataBackups, DataRecovers, DataOverruns
<1>2. CASE StreamIdles \/ MoverIdles \/ DataIdles
  BY <1>2 DEF StreamIdles, MoverIdles, DataIdles, LocalInv
<1>3. CASE StreamAccepts
  BY <1>1, <1>3, NoPeer DEF StreamAccepts
<1>4. CASE MoverRests
  BY <1>1, <1>4, StaysLocal DEF MoverRests, MoverBecomes, MoverStays, LocalInv
<1>5. CASE MoverAwaits
  <2>1. mover'.addr = "LOCAL" /\ mover'.left = 0
    <3>1. \/ MoverBecomes(mover) \/ MoverBecomes(MoverActive(mover))
          \/ MoverBecomes(MoverHalted(mover, "CONNECT_ERROR"))
      BY <1>5 DEF MoverAwaits
    <3>2. PICK m : MoverStays(m) /\ MoverBecomes(m)
      BY <3>1 DEF MoverStays
    <3> QED BY <1>1, <3>2, StaysLocal DEF MoverBecomes
  <2>2. is' = is \/ is' = Start(is, "tape", mover.mode) \/ is' = Close(is, "tape")
    BY <1>5 DEF MoverAwaits
  <2>3. mover.mode \in {"READ", "WRITE"}
    BY <1>1 DEF Mover, MoverMode
  <2>4. is'.remote \in {"IDLE", "EXCLUDE"}
    BY <1>1, <2>2, <2>3, CloseRemote, StartKeeps DEF LocalInv, Side
  <2> QED BY <1>5, <2>1, <2>4 DEF MoverAwaits, LocalInv
<1>6. CASE MoverReads
  <2>1. mover'.addr = "LOCAL" /\ mover'.left = 0
    <3>1. \/ MoverBecomes(mover)
          \/ \E reason : \/ MoverBecomes(MoverHalted(mover, reason))
                         \/ MoverBecomes(MoverPaused(mover, reason))
      BY <1>6 DEF MoverReads
    <3>2. PICK m : MoverStays(m) /\ MoverBecomes(m)
      BY <3>1 DEF MoverStays
    <3> QED BY <1>1, <3>2, StaysLocal DEF MoverBecomes
  <2>2. PICK s \in Stream : s.remote = is.remote
                            /\ (is' = s \/ is' = Close(s, "tape"))
    BY <1>6, ReadSteps
  <2>3. is'.remote \in {"IDLE", "EXCLUDE"}
    BY <2>2, CloseRemote DEF LocalInv, Side
  <2> QED BY <1>6, <2>1, <2>3 DEF MoverReads, LocalInv
<1>7. CASE MoverWrites
  BY <1>7, NothingAsked DEF MoverWrites, LocalInv
<1>8. CASE DataRests
  BY <1>1, <1>8, DataFields DEF DataRests, DataBecomes, LocalInv
<1>9. CASE DataBackups
  <2> DEFINE k   == Least(fmt.img, Room(is))
             is1 == PassImage(is, k)
  <2>1. is1 \in Stream /\ is1.remote = is.remote
    <3>1. is.chan.n \in 0 .. ChanSize /\ fmt.img \in 0 .. ImageSize
             /\ is.chan.eof \in BOOLEAN /\ fmt.imgEof \in BOOLEAN
      BY DEF SessionInv, TypeOK, Stream, Chan, Formatter
    <3>2. is.chan.n + k \in 0 .. ChanSize
      BY <3>1, ChanSizeAssumption, SizesAssumption DEF Least, Room
    <3>3. (is.chan.eof \/ ImageEnds(k)) \in BOOLEAN
      BY <3>1 DEF ImageEnds
    <3> HIDE DEF k
    <3> QED BY <1>1, <3>2, <3>3, ChanSet DEF PassImage
  <2>2. \/ /\ data' = NoticeSent(DataHalted(data, "SUCCESSFUL"))
           /\ is' = Close(is1, "data")
        \/ data' = NoticeSent(data) /\ is' = is1
    BY <1>9 DEF DataBackups, DataBecomes
  <2> HIDE DEF is1
  <2>3. is'.remote \in {"IDLE", "EXCLUDE"}
    BY <2>1, <2>2, CloseRemote DEF LocalInv, Side
  <2>4. data'.op = "BACKUP"
    BY <1>1, <1>9, <2>2, DataFields DEF DataBackups
  <2> QED BY <1>9, <2>3, <2>4 DEF DataBackups, LocalInv
<1>10. CASE DataRecovers \/ DataOverruns
  BY <1>10 DEF DataRecovers, DataOverruns, LocalInv
<1> QED BY <1>2, <1>3, <1>4, <1>5, <1>6, <1>7, <1>8, <1>9, <1>10
       DEF Quantum, MoverOf, DataOf

LEMMA PollLocal ==
    ASSUME LocalBackup, SessionInv, LinkInv, LocalInv, Poll
    PROVE  /\ LocalInv'
           /\ PollFormatterImage \/ UNCHANGED <<acct, data>>
<1>1. pc # "ended" /\ is \in Stream
  BY DEF SessionInv, TypeOK, Poll, PollConnects, PollReceives, PollSends,
         PollFormatterImage, PollFormatterFed, PollFormatterLines, PollEnds, Polled
<1>2. PollFormatterImage \/ PollFormatterLines \/ PollEnds
  BY <1>1, NoPeer
     DEF Poll, PollConnects, PollReceives, PollSends, PollFormatterFed, LocalInv
<1> QED BY <1>2 DEF PollFormatterImage, PollFormatterLines, PollEnds, Polled, LocalInv

LEMMA MoverRequestLocal ==
    ASSUME LocalBackup, SessionInv, LocalInv, MoverRequest
    PROVE  /\ LocalInv' /\ data' = data
           /\ UNCHANGED acct \/ (data.state = "IDLE" /\ acct' = NewAccount)
<1>1. TypeOK /\ mover \in Mover /\ is \in Stream
  BY DEF SessionInv, TypeOK
<1>2. CASE \E mode \in MoverMode, addr \in Addrs : MoverListen(addr, mode)
  <2>1. PICK mode \in MoverMode : MoverListen("LOCAL", mode)
    BY <1>2 DEF LocalBackup
  <2>2. /\ is' = Listen(is, "tape", "LOCAL") /\ acct' = NewAccount
        /\ mover' = MoverListening(mover, mode, "LOCAL")
        /\ data' = data /\ data.state = "IDLE"
    BY <2>1 DEF MoverListen
  <2>3. mover'.addr = "LOCAL" /\ mover'.left = 0
    BY <1>1, <2>2, StaysLocal DEF MoverStays
  <2>4. is'.remote = "EXCLUDE"
    BY <1>1, <2>2, ListenChan DEF Side, AddrType
  <2> QED BY <2>2, <2>3, <2>4 DEF LocalInv
<1>3. CASE MoverContinue \/ MoverAbort \/ MoverClose \/ MoverStop
  <2>1. MoverStays(mover')
    BY <1>3 DEF MoverContinue, MoverAbort, MoverClose, MoverHalts, MoverStop, MoverStays
  <2>2. (is' = is \/ is' = Close(is, "tape")) /\ UNCHANGED <<data, acct>>
    BY <1>3 DEF MoverContinue, MoverAbort, MoverClose, MoverHalts, MoverStop
  <2>3. is'.remote \in {"IDLE", "EXCLUDE"}
    BY <1>1, <2>2, CloseRemote DEF LocalInv, Side
  <2>4. mover'.addr = "LOCAL" /\ mover'.left = 0
    BY <1>1, <2>1, StaysLocal
  <2> QED BY <2>2, <2>3, <2>4 DEF LocalInv
<1>4. CASE \E mode \in MoverMode : MoverConnect(mode)
  BY <1>4 DEF MoverConnect, LocalBackup
<1>5. CASE \E length \in 1 .. ReadMax : MoverRead(length)
  BY <1>5 DEF MoverRead, LocalInv
<1> QED BY <1>2, <1>3, <1>4, <1>5 DEF MoverRequest

\* A LOCAL connection as the DATA agent makes it
LEMMA ConnectLocal ==
    ASSUME SessionInv, LocalInv, pc = "dispatch", DataCanConnect("LOCAL"),
           MoverMet("LOCAL"), "LOCAL" \in Addrs
    PROVE  LET s == StreamConnected("LOCAL")
           IN  /\ s \in Stream /\ s.remote = "EXCLUDE" /\ acct' = acct
               /\ mover'.addr = "LOCAL" /\ mover'.left = 0
<1> DEFINE c == Connect(is, "data", "LOCAL")
           s == StreamConnected("LOCAL")
<1>1. TypeOK /\ is \in Stream /\ mover.mode \in {"READ", "WRITE"}
  BY DEF SessionInv, TypeOK, Mover, MoverMode
<1>2. c \in Stream /\ c.remote = "EXCLUDE"
  BY <1>1, ConnectType, ConnectChan DEF Side, AddrType
<1> HIDE DEF c
<1>3. s = Start(c, "tape", mover.mode)
  BY DEF StreamConnected, c
<1>4. s.remote = "EXCLUDE"
  BY <1>1, <1>2, <1>3, StartKeeps DEF Side
<1>5. s \in Stream
  BY Connected
<1>6. mover' = NoticeSent(MoverActive(mover)) /\ acct' = acct
  BY DEF MoverMet
<1>7. mover'.addr = "LOCAL" /\ mover'.left = 0
  BY <1>1, <1>6, StaysLocal DEF MoverStays
<1> QED BY <1>4, <1>5, <1>6, <1>7

\* What a request of the DATA agent may do to its state
LEMMA DataRequestLocal ==
    ASSUME LocalBackup, SessionInv, LocalInv, DataRequest
    PROVE  /\ LocalInv' /\ acct' = acct
           /\ \/ data.state = "IDLE" /\ data'.state = "CONNECTED"
              \/ data.state \in {"IDLE", "CONNECTED"}
                     /\ data'.state \in {"IDLE", "ACTIVE"}
              \/ /\ data.state = "ACTIVE" /\ data'.state = "HALTED"
                 /\ data'.halt = "ABORTED"
              \/ data.state = "HALTED" /\ data'.state = "IDLE"
<1>1. /\ TypeOK /\ mover \in Mover /\ is \in Stream /\ data \in Data
      /\ pc = "dispatch"
  BY DEF SessionInv, TypeOK, DataRequest, DataConnect, DataConnectStart, DataStart,
         DataAbort, DataStop, Dispatched
<1>2. DataModeFor("BACKUP") \in {"READ", "WRITE"}
  BY DEF DataModeFor
<1>3. CASE \E addr \in Addrs : DataConnect(addr)
  <2>1. DataConnect("LOCAL") /\ "LOCAL" \in Addrs
    BY <1>3 DEF LocalBackup
  <2>2. /\ is' = StreamConnected("LOCAL") /\ data' = DataConnected("LOCAL")
        /\ DataCanConnect("LOCAL") /\ MoverMet("LOCAL") /\ data.state = "IDLE"
    BY <2>1 DEF DataConnect, DataCanConnect
  <2>3. data'.state = "CONNECTED" /\ data'.op = data.op
    BY <1>1, <2>2 DEF DataConnected, Data
  <2> QED BY <1>1, <2>1, <2>2, <2>3, ConnectLocal DEF LocalInv
<1>4. CASE \E addr \in Addrs, op \in Ops : DataConnectStart(op, addr)
  <2> DEFINE s == StreamConnected("LOCAL")
             d == DataConnected("LOCAL")
  <2>1. DataConnectStart("BACKUP", "LOCAL") /\ "LOCAL" \in Addrs
    BY <1>4 DEF LocalBackup
  <2>2. /\ \/ /\ is' = Start(s, "data", DataModeFor("BACKUP"))
              /\ data' = DataActive(d, "BACKUP")
           \/ is' = Close(s, "data") /\ data' = DataIdled(d)
        /\ DataCanConnect("LOCAL") /\ MoverMet("LOCAL") /\ data.state = "IDLE"
    BY <2>1 DEF DataConnectStart, DataCanConnect, StartFails
  <2>3. d \in Data /\ d.op = data.op /\ DataIdled(d).op = data.op
    BY <1>1 DEF DataConnected, DataIdled, Data, AddrType, HaltReason
  <2>4. /\ s \in Stream /\ s.remote = "EXCLUDE" /\ acct' = acct
        /\ mover'.addr = "LOCAL" /\ mover'.left = 0
    BY <1>1, <2>1, <2>2, ConnectLocal
  <2> HIDE DEF s, d
  <2>5. is'.remote \in {"IDLE", "EXCLUDE"}
    BY <1>2, <2>2, <2>4, StartKeeps, CloseRemote DEF Side
  <2>6. \/ data'.state = "ACTIVE" /\ data'.op = "BACKUP"
        \/ data'.state = "IDLE" /\ data'.op = data.op
    BY <2>2, <2>3, DataFields
  <2> QED BY <2>2, <2>4, <2>5, <2>6 DEF LocalInv
<1>5. CASE \E op \in Ops : DataStart(op)
  <2>1. DataStart("BACKUP")
    BY <1>5 DEF LocalBackup
  <2>2. /\ \/ /\ is' = Start(is, "data", DataModeFor("BACKUP"))
              /\ data' = DataActive(data, "BACKUP")
           \/ is' = Close(is, "data") /\ data' = DataIdled(data)
        /\ data.state = "CONNECTED" /\ UNCHANGED <<mover, acct>>
    BY <2>1 DEF DataStart, StartFails
  <2>3. is'.remote \in {"IDLE", "EXCLUDE"}
    BY <1>1, <1>2, <2>2, StartKeeps, CloseRemote DEF Side, LocalInv
  <2>4. \/ data'.state = "ACTIVE" /\ data'.op = "BACKUP"
        \/ data'.state = "IDLE" /\ data'.op = data.op
    BY <1>1, <2>2, DataFields DEF DataIdled, Data
  <2> QED BY <2>2, <2>3, <2>4 DEF LocalInv
<1>6. CASE DataAbort \/ DataStop
  <2>1. is' = Close(is, "data") /\ UNCHANGED <<mover, acct>>
    BY <1>6 DEF DataAbort, DataStop
  <2>2. \/ /\ data.state = "ACTIVE" /\ data'.state = "HALTED"
           /\ data'.halt = "ABORTED" /\ data'.op = data.op
        \/ data.state = "HALTED" /\ data'.state = "IDLE" /\ data'.op = data.op
    BY <1>1, <1>6, DataFields DEF DataAbort, DataStop, DataIdled, Data
  <2>3. is'.remote \in {"IDLE", "EXCLUDE"}
    BY <1>1, <2>1, CloseRemote DEF Side, LocalInv
  <2> QED BY <2>1, <2>2, <2>3 DEF LocalInv
<1> QED BY <1>3, <1>4, <1>5, <1>6 DEF DataRequest

LEMMA EndsLocal ==
    ASSUME SessionInv, LocalInv, SessionEnds
    PROVE  LocalInv' /\ acct' = acct /\ data'.state = "IDLE"
<1>1. /\ is \in Stream /\ data \in Data /\ data' = DataIdled(data) /\ acct' = acct
      /\ is' = Close(Close(is, "data"), "tape")
      /\ mover' = [InitMover EXCEPT !.notify = mover.notify, !.pend = mover.pend]
  BY DEF SessionEnds, SessionInv, TypeOK
<1>2. Close(is, "data") \in Stream
  BY <1>1, CloseType DEF Side
<1>3. is'.remote \in {"IDLE", "EXCLUDE"}
  BY <1>1, <1>2, CloseRemote DEF Side, LocalInv
<1>4. data'.state = "IDLE" /\ data'.op = data.op
  BY <1>1 DEF DataIdled, Data
<1>5. mover'.addr = "LOCAL" /\ mover'.left = 0
  BY <1>1 DEF InitMover
<1> QED BY <1>1, <1>3, <1>4, <1>5 DEF LocalInv

LEMMA NextLocal ==
    ASSUME LocalBackup, SessionInv, LinkInv, LocalInv, [Next]_vars
    PROVE  LocalInv'
<1>1. CASE Request
  BY <1>1, MoverRequestLocal, DataRequestLocal
     DEF Request, TapeOpen, TapeClose, LocalInv
<1>2. CASE DispatchEnds \/ Ended \/ UNCHANGED vars
  BY <1>2 DEF DispatchEnds, Ended, vars, LocalInv
<1> QED BY <1>1, <1>2, QuantumLocal, PollLocal, EndsLocal DEF Next

-----------------------------------------------------------------------------
(* The simulation.                                                          *)

\* A step that leaves the counts and the verdict alone is none of the pipe's
LEMMA PipeStutters ==
    ASSUME acct'.made = acct.made, acct'.out = acct.out,
           data'.state = data.state, data'.halt = data.halt
    PROVE  UNCHANGED Pipe!vars
BY DEF Pipe!vars, Verdict

\* Nor is one between the states in which nothing is said of a job
LEMMA PipeSilent ==
    ASSUME acct'.made = acct.made, acct'.out = acct.out,
           data.state \in {"IDLE", "CONNECTED"}, data'.state \in {"IDLE", "CONNECTED"}
    PROVE  UNCHANGED Pipe!vars
BY DEF Pipe!vars, Verdict

\* What is kept is all that left the session, once it does not exceed what entered
LEMMA KeptOut ==
    ASSUME NEW made \in Nat, NEW out \in Nat
    PROVE  /\ Least(out, made) \in Nat /\ Least(out, made) <= made
           /\ out <= made => Least(out, made) = out
           /\ made <= out => Least(out, made) = made
           /\ \A more \in Nat : /\ Least(out + more, made) \in Nat
                                /\ Least(out + more, made) >= Least(out, made)
                                /\ Least(out + more, made) <= made
BY DEF Least

\* A record goes to the tape
LEMMA PipeKeeps ==
    ASSUME ImageInv, LocalInv, MoverReads
    PROVE  [Pipe!Next]_(Pipe!vars)
<1>1. SessionInv /\ acct \in Account /\ is \in Stream /\ fmt \in Formatter /\ data' = data
  BY DEF MoverReads, ImageInv, SessionInv, TypeOK
<1>2. acct.made \in Nat /\ acct.pad \in Nat /\ acct.out \in Nat
  BY <1>1, Counts
<1>3. PICK q \in Nat : /\ acct'.made = acct.made /\ acct'.out = acct.out + q
                       /\ is.chan.n = 0 => q = 0
  BY <1>1, ReadSteps
<1> DEFINE kept == Least(acct.out, acct.made)
           more == Least(acct.out + q, acct.made)
<1>4. more \in Nat /\ kept \in Nat /\ more >= kept /\ more <= acct.made
  BY <1>2, KeptOut
<1>5. Least(acct.out, acct.made)' = more
  BY <1>3
<1>6. Verdict' = Verdict
  BY <1>1 DEF Verdict
<1>7. CASE more = kept
  BY <1>3, <1>5, <1>6, <1>7 DEF Pipe!vars
<1>8. CASE more > kept
  <2>1. Verdict # "complete"
    <3> SUFFICES ASSUME Verdict = "complete" PROVE FALSE
      OBVIOUS
    <3>1. data.state = "HALTED" /\ data.halt = "SUCCESSFUL"
      BY DEF Verdict
    <3>2. data.op = "BACKUP"
      BY <3>1 DEF LocalInv
    <3>3. q = 0
      BY <1>3, <3>1, <3>2 DEF ImageInv, AccountInv, Emptied, BackupDone
    <3>4. more = kept
      BY <1>2, <3>3
    <3> QED BY <1>4, <1>8, <3>4
  <2>2. Pipe!Keep
    BY <1>3, <1>4, <1>5, <1>6, <1>8, <2>1 DEF Pipe!Keep
  <2> QED BY <2>2 DEF Pipe!Next
<1> QED BY <1>4, <1>7, <1>8

\* The formatter delivers, before it has ended
LEMMA PipeProduces ==
    ASSUME ImageInv, LocalInv, PollFormatterImage
    PROVE  [Pipe!Next]_(Pipe!vars)
<1>1. /\ acct \in Account /\ is \in Stream /\ fmt \in Formatter /\ data' = data
      /\ data.state = "ACTIVE" /\ data.op = "BACKUP" /\ ~fmt.imgEof
  BY DEF PollFormatterImage, Polled, ImageInv, SessionInv, TypeOK
<1>2. /\ acct.made \in Nat /\ acct.pad \in Nat /\ acct.out \in Nat
      /\ is.chan.n \in Nat /\ fmt.img \in Nat /\ fmt.img <= ImageSize
  BY <1>1, Counts
<1>3. acct.out <= acct.made
  <2>1. acct.pad = 0
    BY <1>1 DEF ImageInv, AccountInv, PaddedAtTheEnd, Unended
  <2>2. acct.made + acct.pad = acct.out + (is.chan.n + fmt.img)
    BY <1>1 DEF ImageInv, AccountInv, Balanced, InFlight
  <2> QED BY <1>2, <2>1, <2>2
<1>4. CASE UNCHANGED acct
  BY <1>1, <1>4, PipeStutters
<1>5. CASE \E k \in 1 .. ImageSize - fmt.img : acct' = [acct EXCEPT !.made = @ + k]
  <2>1. PICK k \in 1 .. ImageSize - fmt.img : acct' = [acct EXCEPT !.made = @ + k]
    BY <1>5
  <2>2. k \in Nat /\ k > 0
    BY <1>2, SizesAssumption
  <2>3. acct'.made = acct.made + k /\ acct'.out = acct.out
    BY <1>1, <2>1 DEF Account
  <2>4. /\ Least(acct.out, acct.made) = acct.out
        /\ Least(acct'.out, acct'.made) = acct.out
    <3>1. acct.made + k \in Nat /\ acct.out <= acct.made + k
      BY <1>2, <1>3, <2>2
    <3> QED BY <1>2, <1>3, <2>3, <3>1, KeptOut
  <2>5. Verdict = "open" /\ Verdict' = "open"
    BY <1>1 DEF Verdict
  <2>6. acct'.made \in Nat /\ acct'.made > acct.made
    BY <1>2, <2>2, <2>3
  <2>7. Pipe!Produce
    BY <2>4, <2>5, <2>6 DEF Pipe!Produce
  <2> QED BY <2>7 DEF Pipe!Next
<1> QED BY <1>4, <1>5 DEF PollFormatterImage

\* The DATA agent goes on with its backup or reports it complete
LEMMA PipeCompletes ==
    ASSUME ImageInv, ImageInv', DataBackups
    PROVE  [Pipe!Next]_(Pipe!vars)
<1>1. /\ data \in Data /\ acct \in Account /\ acct' = acct
      /\ data.state = "ACTIVE" /\ data.op = "BACKUP"
  BY DEF DataBackups, ImageInv, SessionInv, TypeOK
<1>2. CASE data' = NoticeSent(data)
  BY <1>1, <1>2, DataFields, PipeStutters
<1>3. CASE data' = NoticeSent(DataHalted(data, "SUCCESSFUL"))
  <2>1. /\ data'.state = "HALTED" /\ data'.halt = "SUCCESSFUL"
        /\ data'.op = "BACKUP"
    BY <1>1, <1>3, DataFields
  <2>2. acct.made + acct.pad = acct.out
    BY <1>1, <2>1 DEF ImageInv, AccountInv, Emptied, BackupDone
  <2>3. acct.made \in Nat /\ acct.out \in Nat /\ acct.pad \in Nat
    BY <1>1 DEF Account
  <2>4. Least(acct.out, acct.made) = acct.made
    BY <2>2, <2>3, KeptOut
  <2>5. Verdict = "open" /\ Verdict' = "complete"
    BY <1>1, <2>1 DEF Verdict
  <2>6. Pipe!Complete
    BY <1>1, <2>4, <2>5 DEF Pipe!Complete
  <2> QED BY <2>6 DEF Pipe!Next
<1> QED BY <1>2, <1>3 DEF DataBackups, DataBecomes

\* The other quanta
LEMMA PipeQuantum ==
    ASSUME ImageInv, ImageInv', LocalInv, Quantum
    PROVE  [Pipe!Next]_(Pipe!vars)
<1>1. SessionInv /\ data \in Data
  BY DEF ImageInv, SessionInv, TypeOK
<1>2. CASE StreamAccepts \/ StreamIdles \/ MoverIdles \/ MoverRests \/ MoverAwaits
           \/ DataIdles
  BY <1>2, PipeStutters DEF StreamAccepts, StreamIdles, MoverIdles, MoverRests,
     MoverAwaits, DataIdles
<1>3. CASE MoverWrites
  BY <1>1, <1>3, NothingAsked, PipeStutters DEF MoverWrites
<1>4. CASE DataRests
  BY <1>1, <1>4, DataFields, PipeStutters DEF DataRests, DataBecomes
<1>5. CASE DataRecovers \/ DataOverruns
  BY <1>5 DEF DataRecovers, DataOverruns, LocalInv
<1> QED BY <1>2, <1>3, <1>4, <1>5, PipeKeeps, PipeCompletes
       DEF Quantum, MoverOf, DataOf

LEMMA PipeRequest ==
    ASSUME LocalBackup, ImageInv, LocalInv, Request
    PROVE  [Pipe!Next]_(Pipe!vars)
<1>1. SessionInv
  BY DEF ImageInv
<1>2. CASE TapeOpen \/ TapeClose
  BY <1>2, PipeStutters DEF TapeOpen, TapeClose
<1>3. CASE MoverRequest
  <2>1. CASE acct' = NewAccount /\ data.state = "IDLE" /\ data' = data
    <3>1. acct'.made = 0 /\ acct'.out = 0 /\ Verdict = "none" /\ Verdict' = Verdict
      BY <2>1 DEF Verdict, NewAccount
    <3>2. Least(acct'.out, acct'.made) = 0
      BY <3>1 DEF Least
    <3>3. Pipe!NewJob
      BY <3>1, <3>2 DEF Pipe!NewJob
    <3> QED BY <3>3 DEF Pipe!Next
  <2>2. CASE acct' = acct /\ data' = data
    BY <2>2, PipeStutters
  <2> QED BY <1>1, <1>3, <2>1, <2>2, MoverRequestLocal
<1>4. CASE DataRequest
  <2>1. /\ acct' = acct
        /\ \/ data.state = "IDLE" /\ data'.state = "CONNECTED"
           \/ data.state \in {"IDLE", "CONNECTED"}
                  /\ data'.state \in {"IDLE", "ACTIVE"}
           \/ /\ data.state = "ACTIVE" /\ data'.state = "HALTED"
              /\ data'.halt = "ABORTED"
           \/ data.state = "HALTED" /\ data'.state = "IDLE"
    BY <1>1, <1>4, DataRequestLocal
  <2>2. CASE /\ data.state \in {"IDLE", "CONNECTED"}
             /\ data'.state \in {"IDLE", "CONNECTED"}
    BY <2>1, <2>2, PipeSilent
  <2>3. CASE data.state \in {"IDLE", "CONNECTED"} /\ data'.state = "ACTIVE"
    <3>1. Verdict = "none" /\ Verdict' = "open"
      BY <2>3 DEF Verdict
    <3> QED BY <2>1, <3>1 DEF Pipe!Open, Pipe!Next
  <2>4. CASE data.state = "ACTIVE" /\ data'.state = "HALTED" /\ data'.halt = "ABORTED"
    <3>1. Verdict = "open" /\ Verdict' = "failed"
      BY <2>4 DEF Verdict
    <3> QED BY <2>1, <3>1 DEF Pipe!Fail, Pipe!Next
  <2>5. CASE data.state = "HALTED" /\ data'.state = "IDLE"
    <3>1. Verdict \in {"complete", "failed"} /\ Verdict' = "none"
      BY <2>5 DEF Verdict
    <3> QED BY <2>1, <3>1 DEF Pipe!Forget, Pipe!Next
  <2> QED BY <2>1, <2>2, <2>3, <2>4, <2>5
<1> QED BY <1>2, <1>3, <1>4 DEF Request

LEMMA PipeEnds ==
    ASSUME ImageInv, LocalInv, SessionEnds
    PROVE  [Pipe!Next]_(Pipe!vars)
<1>1. acct' = acct /\ data'.state = "IDLE"
  BY EndsLocal DEF ImageInv
<1>2. CASE data.state \in {"ACTIVE", "HALTED"}
  <2>1. Verdict \in {"open", "complete", "failed"} /\ Verdict' = "none"
    BY <1>1, <1>2 DEF Verdict
  <2> QED BY <1>1, <2>1 DEF Pipe!Forget, Pipe!Next
<1>3. CASE data.state \in {"IDLE", "CONNECTED"}
  BY <1>1, <1>3, PipeSilent
<1> QED BY <1>2, <1>3 DEF ImageInv, SessionInv, TypeOK, Data

LEMMA PipeStep ==
    ASSUME LocalBackup, ImageInv, ImageInv', LocalInv, [Next]_vars
    PROVE  [Pipe!Next]_(Pipe!vars)
<1>1. CASE Poll
  <2>1. PollFormatterImage \/ UNCHANGED <<acct, data>>
    BY <1>1, PollLocal DEF ImageInv
  <2> QED BY <2>1, PipeProduces, PipeStutters
<1>2. CASE DispatchEnds \/ Ended \/ UNCHANGED vars
  BY <1>2, PipeStutters DEF DispatchEnds, Ended, vars
<1> QED BY <1>1, <1>2, PipeQuantum, PipeRequest, PipeEnds DEF Next

\* A session that backs up between its own agents implements BackupPipe, for
\* every size of its buffers and records and whatever goes wrong: complete is
\* said once, of all of it, and nothing is put on the tape under that verdict.
THEOREM PipeImplemented ==
    ASSUME LocalBackup
    PROVE  Spec => ImplementsPipe
<1>1. Init => Pipe!Init /\ LocalInv
  <2> SUFFICES ASSUME Init PROVE Pipe!Init /\ LocalInv
    OBVIOUS
  <2>1. LocalInv
    BY DEF Init, LocalInv, InitMover, InitData, InitStream
  <2>2. acct.made = 0 /\ acct.out = 0 /\ Verdict = "none"
    BY DEF Init, InitData, NewAccount, Verdict
  <2>3. Pipe!Init
    BY <2>2 DEF Pipe!Init, Least
  <2> QED BY <2>1, <2>3
<1>2. ASSUME ImageInv, LocalInv, [Next]_vars PROVE LocalInv'
  BY <1>2, NextLocal DEF ImageInv
<1>3. ASSUME ImageInv, ImageInv', LocalInv, [Next]_vars
      PROVE  [Pipe!Next]_(Pipe!vars)
  BY <1>3, PipeStep
<1> QED BY <1>1, <1>2, <1>3, ImageInvariant, PTL DEF Spec, ImplementsPipe, Pipe!Spec

=============================================================================
