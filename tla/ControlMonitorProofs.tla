------------------------ MODULE ControlMonitorProofs ------------------------
(***************************************************************************)
(* What the CONTROL agent's decisions rest on, for every number of tapes,   *)
(* pauses and reads, both operations and every set of faults: the copies it *)
(* decides by, the notices it counts in single bits, the requests it makes  *)
(* on the strength of both, and the turns it takes before it gives up.      *)
(***************************************************************************)
EXTENDS ControlMonitor, FiniteSetTheorems, FunctionTheorems, TLAPS

-----------------------------------------------------------------------------
(* The inductive invariant.                                                 *)

From(n) == IF n \in {"data_halted", "data_read"} THEN "data" ELSE "mover"

NoticesOf(a) == {n \in Notices : From(n) = a}

Count(s, n) == Cardinality({i \in DOMAIN s : s[i] = n})

\* The notices of one kind that have been sent and not been taken
LeftOf(pend, w, n) == pend[n] + Count(w[From(n)], n)

Left(n) == LeftOf(ca.pend, wire, n)

AgentStates == {"IDLE", "LISTEN", "ACTIVE", "PAUSED", "HALTED"}

Reasons == {"NA", "SUCCESSFUL", "CONNECT_CLOSED", "ABORTED", "INTERNAL_ERROR",
            "EOM", "EOF", "SEEK", "MEDIA_ERROR"}

Copies == [state : AgentStates \cup {"UNKNOWN"}, reason : Reasons]

Loops == {"startup", "monitor", "shutdown", "stopping", "ended"}

Stages == {"data", "mover", "decide", "wait", "top", "abort_data", "abort_mover",
           "stop_data", "stop_mover"}

Datas == [state : {"ACTIVE", "HALTED", "IDLE"}, reason : Reasons,
          notify : BOOLEAN, asking : BOOLEAN, reads : Nat]

Movers == [state : AgentStates, reason : Reasons, notify : BOOLEAN,
           reading : BOOLEAN, pauses : Nat]

Bits == [Notices -> {0, 1}]

Cas == [loop : Loops, stage : Stages, count : 0 .. Turns - 1, turned : BOOLEAN,
        ds : Copies, ms : Copies, failed : BOOLEAN, pend : Bits,
        tape : Nat, lost : SUBSET Agents, rc : {"none", "ok", "failed"},
        finish : {"none", "okay", "questionable", "failure"}]

Pasts == [data : Reasons, mover : Reasons, expired : Nat, faulty : BOOLEAN,
          wrapped : BOOLEAN, refused : BOOLEAN]

\* A connection carries its own agent's notices only
Wires == {w \in [Agents -> Seq(Notices)] : \A a \in Agents : w[a] \in Seq(NoticesOf(a))}

TypeOK ==
    /\ kind \in {"backup", "recover"}
    /\ data \in Datas /\ mover \in Movers
    /\ wire \in Wires
    /\ ca \in Cas /\ past \in Pasts

Before == ca.loop \in {"startup", "monitor"}

Unstopped == ca.loop \in {"startup", "monitor", "shutdown"}

\* Which stages each loop has
StagesFit ==
    /\ ca.stage \in {"abort_data", "abort_mover", "stop_data", "stop_mover"} =>
           ca.loop = "shutdown"
    /\ ca.stage = "top" => ca.loop = "monitor" /\ kind = "recover"
    /\ ca.stage = "wait" => Unstopped
    /\ Before <=> ca.rc = "none"

\* An agent that has yet to say something has said nothing of the kind before
Unsaid ==
    /\ \A n \in Notices : Left(n) <= 1
    /\ data.state = "ACTIVE" \/ (data.state = "HALTED" /\ data.notify) =>
           Left("data_halted") = 0
    /\ data.state = "ACTIVE" => ~data.notify
    /\ mover.state \in {"LISTEN", "ACTIVE", "PAUSED"}
         \/ (mover.state = "HALTED" /\ mover.notify) => Left("mover_halted") = 0
    /\ mover.state \in {"LISTEN", "ACTIVE"} \/ (mover.state = "PAUSED" /\ mover.notify) =>
           Left("mover_paused") = 0
    /\ data.state = "ACTIVE" /\ ~data.asking => Left("data_read") = 0
    /\ kind = "backup" \/ mover.reading => Left("data_read") = 0
    /\ mover.reading /\ data.state = "ACTIVE" => data.asking
    /\ ~past.wrapped

\* A copy that says HALTED is the truth until the agents are stopped
CopiesStand ==
    /\ Unstopped /\ ca.stage # "stop_mover" /\ ca.ds.state = "HALTED" =>
           data.state = "HALTED" /\ data.reason = ca.ds.reason
    /\ Unstopped /\ ca.ms.state = "HALTED" =>
           mover.state = "HALTED" /\ mover.reason = ca.ms.reason
    /\ ca.finish = "okay" /\ Unstopped =>
           /\ ca.stage \in {"stop_data", "stop_mover"}
           /\ ca.ds.state = "HALTED" /\ ca.ds.reason = "SUCCESSFUL"
           /\ ca.ms.state = "HALTED" /\ ca.ms.reason = "CONNECT_CLOSED"
           /\ ca.stage = "stop_mover" => past.data = "SUCCESSFUL"
    /\ OkayMeansDone

Sound == ~past.faulty /\ Before

\* What holds of the agents when a request for one of them is on its way
Fits ==
    /\ RequestsFit
    /\ ca.stage = "decide" /\ Before /\ ca.ms.state = "PAUSED" => mover.state = "PAUSED"
    /\ mover.state = "LISTEN" => ca.loop = "startup" /\ ca.stage \in {"data", "mover"}
    /\ Sound =>
        /\ kind = "recover" /\ mover.state = "PAUSED" => mover.reading
        /\ Left("data_read") = 1 =>
               data.state = "ACTIVE" /\ mover.state \in {"LISTEN", "ACTIVE"}
        /\ kind = "recover" /\ mover.state = "HALTED" =>
               data.state # "ACTIVE" \/ mover.reading
        /\ data.state # "IDLE" /\ mover.state # "IDLE" /\ ~ca.failed

\* The turns before the count means anything
EarlyTurns ==
    Sound =>
      /\ ca.loop = "startup" =>
             /\ ca.count <= 1 /\ (ca.stage = "wait" => ca.count = 0)
             /\ ca.count = 1 => mover.state # "LISTEN"
             /\ ca.count = 1 /\ ca.stage = "decide" => ca.ms.state # "LISTEN"
             /\ mover.state = "HALTED" => Left("mover_paused") = 0
      /\ kind = "recover" /\ (ca.loop = "startup" \/ ca.count = 0) =>
             /\ ~mover.reading /\ mover.state \in {"LISTEN", "ACTIVE"}
             /\ ca.stage = "decide" => ca.ms.state \in {"LISTEN", "ACTIVE"}
      /\ ca.stage \in {"mover", "decide"} => ca.ds.state \in {"ACTIVE", "HALTED"}
      /\ ca.stage = "decide" => ca.ms.state \in AgentStates \ {"IDLE"}
      /\ ca.stage = "decide" /\ ca.loop = "monitor" => ca.ms.state # "LISTEN"

DataHeard == data.state = "HALTED" /\ ~data.notify /\ Left("data_halted") = 0

MoverHeard == mover.state = "HALTED" /\ ~mover.notify /\ Left("mover_halted") = 0

\* What was known before the states were asked for, the copies show
CopiesFresh ==
    Sound /\ ca.loop = "monitor" =>
      /\ ca.stage \in {"mover", "decide"} /\ DataHeard => ca.ds.state = "HALTED"
      /\ ca.stage = "decide" /\ MoverHeard => ca.ms.state = "HALTED"
      /\ ca.stage = "decide" /\ mover.state = "PAUSED" /\ ca.pend["mover_paused"] = 1 =>
             ca.ms.state = "PAUSED"
      /\ ca.pend["data_read"] = 1 =>
             /\ ca.stage = "top" => ca.count <= 1
             /\ ca.stage \in {"mover", "decide"} => ca.ds.state = "ACTIVE"
             /\ ca.stage = "decide" => ca.ms.state = "ACTIVE"
      /\ mover.state = "HALTED" /\ Left("mover_paused") = 1 =>
             /\ data.state = "HALTED"
             /\ ca.stage \in {"mover", "decide"} => ca.ds.state = "HALTED"
             /\ ca.stage = "decide" => ca.ms.state = "HALTED"

(***************************************************************************)
(* Every turn that is counted is paid for: by a read that was passed on, a  *)
(* pause that was dealt with, the news of a halt, or a wait that expired.   *)
(* A turn is paid for when the wait before it ends.                         *)
(***************************************************************************)
InTurn == ca.stage \in {"data", "mover", "decide"}

One(p) == IF p THEN 1 ELSE 0

ReadsPassed == Reads - data.reads - Left("data_read")

\* A pause that has not been dealt with, and may not even be known
PauseOpen == mover.state = "PAUSED" \/ Left("mover_paused") = 1

PausesSpent ==
    Pauses - mover.pauses - One(PauseOpen /\ ~(InTurn /\ ca.pend["mover_paused"] = 1))

HaltsSpent == One(DataHeard) + One(MoverHeard)

Paid ==
    ca.count + One(InTurn) <= 1 + ReadsPassed + PausesSpent + HaltsSpent + past.expired

\* A request that waits to be passed on will set the count back
ReadWaits == ca.pend["data_read"] = 1 /\ ca.stage # "top"

TurnsPaid ==
    /\ GivenUpOnlyWhenSlow
    /\ Sound =>
         /\ 0 <= ReadsPassed /\ mover.pauses + One(PauseOpen) <= Pauses
         /\ ca.loop = "monitor" => past.expired >= Slow \/ Paid \/ ReadWaits

WatchInv == TypeOK /\ StagesFit /\ Unsaid /\ CopiesStand /\ Fits

MonitorInv == WatchInv /\ EarlyTurns /\ CopiesFresh /\ TurnsPaid

-----------------------------------------------------------------------------
(* Counting notices.                                                        *)

LEMMA CountType ==
    ASSUME NEW S, NEW s \in Seq(S), NEW n
    PROVE  /\ IsFiniteSet({i \in DOMAIN s : s[i] = n})
           /\ Count(s, n) \in Nat
           /\ n \notin S => Count(s, n) = 0
<1> DEFINE here == {i \in DOMAIN s : s[i] = n}
<1>1. Len(s) \in Nat /\ DOMAIN s = 1 .. Len(s)
  OBVIOUS
<1>2. IsFiniteSet(1 .. Len(s))
  BY <1>1, FS_Interval
<1>3. IsFiniteSet(here)
  BY <1>1, <1>2, FS_Subset
<1>4. Count(s, n) \in Nat
  BY <1>3, FS_CardinalityType DEF Count
<1>5. ASSUME n \notin S
      PROVE  Count(s, n) = 0
  <2>1. \A i \in DOMAIN s : s[i] \in S
    BY <1>1
  <2>2. here = {}
    BY <2>1, <1>5
  <2> QED BY <2>2, FS_EmptySet DEF Count
<1> QED BY <1>3, <1>4, <1>5

LEMMA CountEmpty ==
    ASSUME NEW n
    PROVE  Count(<<>>, n) = 0
<1>1. {i \in DOMAIN <<>> : <<>>[i] = n} = {}
  OBVIOUS
<1> QED BY <1>1, FS_EmptySet DEF Count

LEMMA CountAppend ==
    ASSUME NEW S, NEW s \in Seq(S), NEW x \in S, NEW n
    PROVE  Count(Append(s, x), n) = Count(s, n) + One(x = n)
<1> DEFINE here == {i \in DOMAIN s : s[i] = n}
           t == Append(s, x)
           there == {i \in DOMAIN t : t[i] = n}
           last == Len(s) + 1
<1>1. /\ Len(s) \in Nat /\ DOMAIN s = 1 .. Len(s) /\ DOMAIN t = 1 .. last
      /\ t[last] = x
      /\ \A i \in DOMAIN s : t[i] = s[i]
  OBVIOUS
<1>2. IsFiniteSet(here) /\ Cardinality(here) \in Nat
  BY CountType, FS_CardinalityType
<1>3. CASE x = n
  <2>1. there = here \cup {last} /\ last \notin here
    BY <1>1, <1>3
  <2>2. Cardinality(there) = Cardinality(here) + 1
    BY <2>1, <1>2, FS_AddElement
  <2> QED BY <2>2, <1>3 DEF Count, One
<1>4. CASE x # n
  <2>1. there = here
    BY <1>1, <1>4
  <2>2. Count(t, n) = Count(s, n)
    BY <2>1 DEF Count
  <2>3. Count(s, n) \in Nat
    BY CountType
  <2> QED BY <2>2, <2>3, <1>4 DEF One
<1> QED BY <1>3, <1>4

LEMMA CountTail ==
    ASSUME NEW S, NEW s \in Seq(S), s # <<>>, NEW n
    PROVE  Count(s, n) = Count(Tail(s), n) + One(Head(s) = n)
<1> DEFINE here == {i \in DOMAIN s : s[i] = n}
           t == Tail(s)
           there == {i \in DOMAIN t : t[i] = n}
           later == here \ {1}
           f == [i \in there |-> i + 1]
<1>1. /\ Len(s) \in Nat \ {0} /\ DOMAIN s = 1 .. Len(s)
      /\ t \in Seq(S) /\ DOMAIN t = 1 .. Len(s) - 1
      /\ \A i \in DOMAIN t : t[i] = s[i + 1]
      /\ Head(s) = s[1]
  OBVIOUS
<1>2. IsFiniteSet(here) /\ IsFiniteSet(there) /\ IsFiniteSet(later)
      /\ Cardinality(here) \in Nat /\ Cardinality(there) \in Nat
  <2>1. IsFiniteSet(here)
    BY CountType
  <2>2. IsFiniteSet(there)
    <3>1. \A u \in Seq(S) : IsFiniteSet({i \in DOMAIN u : u[i] = n})
      BY CountType
    <3>2. t \in Seq(S)
      BY <1>1
    <3> HIDE DEF t
    <3> QED BY <3>1, <3>2, Zenon
  <2>3. IsFiniteSet(later)
    BY <2>1, FS_RemoveElement
  <2> HIDE DEF here, there, later
  <2> QED BY <2>1, <2>2, <2>3, FS_CardinalityType
<1>3. f \in Bijection(there, later)
  <2>1. f \in [there -> later]
    BY <1>1
  <2>2. \A i, j \in there : f[i] = f[j] => i = j
    BY <1>1
  <2>3. \A k \in later : \E i \in there : f[i] = k
    <3>1. TAKE k \in later
    <3>2. k \in 2 .. Len(s) /\ s[k] = n
      BY <1>1
    <3>3. k - 1 \in there /\ f[k - 1] = k
      BY <3>2, <1>1
    <3> QED BY <3>3
  <2> QED BY <2>1, <2>2, <2>3, Fun_IsBij
<1>4. Cardinality(later) = Cardinality(there)
  BY <1>2, <1>3, FS_Bijection DEF ExistsBijection
<1>5. CASE s[1] = n
  <2>1. here = later \cup {1} /\ 1 \notin later
    BY <1>1, <1>5
  <2>2. Cardinality(here) = Cardinality(later) + 1
    BY <2>1, <1>2, FS_AddElement
  <2> QED BY <2>2, <1>1, <1>4, <1>5 DEF Count, One
<1>6. CASE s[1] # n
  <2>1. here = later
    BY <1>1, <1>6
  <2>2. Count(s, n) = Count(t, n)
    <3>1. Cardinality(here) = Cardinality(there)
      BY <2>1, <1>4
    <3> QED BY <3>1 DEF Count
  <2>3. Count(t, n) \in Nat
    BY <1>1, CountType
  <2> QED BY <2>2, <2>3, <1>1, <1>6 DEF One
<1> QED BY <1>5, <1>6

\* The first notices of the connections that have one
LEMMA CountHeads ==
    ASSUME NEW w \in Wires,
           NEW ready \in SUBSET {a \in Agents : w[a] # <<>>},
           NEW n \in Notices
    PROVE  LET heads == [i \in 1 .. Cardinality(ready) |->
                           Head(w[IF i = 1 /\ "data" \in ready THEN "data" ELSE "mover"])]
           IN  Count(heads, n) = One(From(n) \in ready /\ Head(w[From(n)]) = n)
<1> DEFINE heads == [i \in 1 .. Cardinality(ready) |->
                       Head(w[IF i = 1 /\ "data" \in ready THEN "data" ELSE "mover"])]
           here == {i \in DOMAIN heads : heads[i] = n}
<1>1. \A a \in ready : Head(w[a]) \in NoticesOf(a)
  <2>1. TAKE a \in ready
  <2>2. w[a] \in Seq(NoticesOf(a)) /\ w[a] # <<>>
    BY DEF Wires, Agents
  <2> QED BY <2>2
<1>2. \A a \in ready : Head(w[a]) = n => From(n) = a
  BY <1>1 DEF NoticesOf
<1>3. From(n) \in Agents
  BY DEF From, Agents
<1>4. CASE ready = {}
  <2>1. Cardinality(ready) = 0
    BY <1>4, FS_EmptySet
  <2>2. here = {}
    BY <2>1
  <2> QED BY <2>2, <1>4, FS_EmptySet DEF Count, One
<1>5. ASSUME NEW a \in Agents, ready = {a}
      PROVE  Count(heads, n) = One(From(n) \in ready /\ Head(w[From(n)]) = n)
  <2>1. Cardinality(ready) = 1
    BY <1>5, FS_Singleton
  <2>2. DOMAIN heads = {1} /\ heads[1] = Head(w[a])
    BY <2>1, <1>5 DEF Agents
  <2>3. here = IF Head(w[a]) = n THEN {1} ELSE {}
    BY <2>2
  <2>4. Cardinality(here) = One(Head(w[a]) = n)
    BY <2>3, FS_EmptySet, FS_Singleton DEF One
  <2> QED BY <2>4, <1>2, <1>5 DEF Count, One
<1>6. CASE ready = {"data", "mover"}
  <2>1. Cardinality(ready) = 2
    <3>1. ready = {"data"} \cup {"mover"} /\ "mover" \notin {"data"}
      BY <1>6
    <3>2. IsFiniteSet({"data"}) /\ Cardinality({"data"}) = 1
      BY FS_Singleton
    <3>3. Cardinality({"data"} \cup {"mover"}) = 2
      BY <3>1, <3>2, FS_AddElement
    <3> QED BY <3>1, <3>3
  <2>2. /\ DOMAIN heads = {1, 2}
        /\ heads[1] = Head(w["data"]) /\ heads[2] = Head(w["mover"])
    BY <2>1, <1>6
  <2>3. CASE From(n) = "data"
    <3>1. here = IF Head(w["data"]) = n THEN {1} ELSE {}
      BY <2>2, <2>3, <1>2, <1>6
    <3> QED BY <3>1, <2>3, <1>6, FS_EmptySet, FS_Singleton DEF Count, One
  <2>4. CASE From(n) = "mover"
    <3>1. here = IF Head(w["mover"]) = n THEN {2} ELSE {}
      BY <2>2, <2>4, <1>2, <1>6
    <3> QED BY <3>1, <2>4, <1>6, FS_EmptySet, FS_Singleton DEF Count, One
  <2> QED BY <2>3, <2>4, <1>3 DEF Agents
<1>7. ready = {} \/ ready = {"data"} \/ ready = {"mover"} \/ ready = {"data", "mover"}
  BY DEF Agents
<1> QED BY <1>4, <1>5, <1>6, <1>7 DEF Agents

-----------------------------------------------------------------------------
(* What is left of each kind of notice, as the bits and the wires change.    *)

LEMMA LeftType ==
    ASSUME NEW pend \in Bits, NEW w \in Wires, NEW n \in Notices
    PROVE  /\ From(n) \in Agents
           /\ pend[n] \in {0, 1}
           /\ Count(w[From(n)], n) \in Nat
           /\ LeftOf(pend, w, n) \in Nat
<1>1. From(n) \in Agents
  BY DEF From, Agents
<1>2. w[From(n)] \in Seq(Notices)
  BY <1>1 DEF Wires
<1>3. Count(w[From(n)], n) \in Nat
  BY <1>2, CountType
<1>4. pend[n] \in {0, 1}
  BY DEF Bits
<1> QED BY <1>1, <1>3, <1>4 DEF LeftOf

LEMMA ForeignCount ==
    ASSUME NEW w \in Wires, NEW a \in Agents, NEW n \in Notices, From(n) # a
    PROVE  Count(w[a], n) = 0
<1>1. w[a] \in Seq(NoticesOf(a))
  BY DEF Wires
<1>2. n \notin NoticesOf(a)
  BY DEF NoticesOf
<1> QED BY <1>1, <1>2, CountType

LEMMA Emptied ==
    ASSUME NEW w \in Wires, NEW a \in Agents
    PROVE  /\ [w EXCEPT ![a] = <<>>] \in Wires
           /\ \A n \in Notices :
                Count([w EXCEPT ![a] = <<>>][From(n)], n)
                  = IF From(n) = a THEN 0 ELSE Count(w[From(n)], n)
<1> DEFINE v == [w EXCEPT ![a] = <<>>]
<1>1. w \in [Agents -> Seq(Notices)]
  BY DEF Wires
<1>2. v \in Wires
  <2>1. v \in [Agents -> Seq(Notices)]
    BY <1>1
  <2>2. \A b \in Agents : v[b] \in Seq(NoticesOf(b))
    BY <1>1 DEF Wires
  <2> QED BY <2>1, <2>2 DEF Wires
<1>3. ASSUME NEW n \in Notices
      PROVE  Count(v[From(n)], n) = IF From(n) = a THEN 0 ELSE Count(w[From(n)], n)
  <2>1. From(n) \in Agents
    BY DEF From, Agents
  <2>2. CASE From(n) = a
    BY <1>1, <2>1, <2>2, CountEmpty
  <2>3. CASE From(n) # a
    BY <1>1, <2>1, <2>3
  <2> QED BY <2>2, <2>3
<1> QED BY <1>2, <1>3

\* Reading a connection moves its notices into the bits and loses none
LEMMA Heard ==
    ASSUME NEW pend \in Bits, NEW w \in Wires, NEW a \in Agents,
           \A n \in Notices : LeftOf(pend, w, n) <= 1
    PROVE  LET heard == Noticed(pend, w[a])
               v == [w EXCEPT ![a] = <<>>]
           IN  /\ heard \in Bits /\ v \in Wires
               /\ ~Wraps(pend, w[a])
               /\ \A n \in Notices :
                    /\ LeftOf(heard, v, n) = LeftOf(pend, w, n)
                    /\ heard[n] = IF From(n) = a THEN LeftOf(pend, w, n) ELSE pend[n]
<1> DEFINE heard == Noticed(pend, w[a])
           v == [w EXCEPT ![a] = <<>>]
<1>1. v \in Wires
  BY Emptied
<1>2. ASSUME NEW n \in Notices
      PROVE  /\ heard[n] = IF From(n) = a THEN LeftOf(pend, w, n) ELSE pend[n]
             /\ heard[n] \in {0, 1}
             /\ LeftOf(heard, v, n) = LeftOf(pend, w, n)
             /\ pend[n] + Count(w[a], n) <= 1
  <2>1. heard[n] = (pend[n] + Count(w[a], n)) % 2
    BY DEF Noticed, Count
  <2>2. pend[n] \in {0, 1} /\ LeftOf(pend, w, n) \in Nat /\ LeftOf(pend, w, n) <= 1
        /\ Count(w[From(n)], n) \in Nat
    BY LeftType
  <2>3. CASE From(n) = a
    <3>1. pend[n] + Count(w[a], n) = LeftOf(pend, w, n)
      BY <2>3 DEF LeftOf
    <3>2. heard[n] = LeftOf(pend, w, n)
      BY <2>1, <2>2, <3>1
    <3>3. Count(v[From(n)], n) = 0
      BY <2>3, Emptied
    <3> QED BY <2>2, <2>3, <3>1, <3>2, <3>3 DEF LeftOf
  <2>4. CASE From(n) # a
    <3>1. Count(w[a], n) = 0
      BY <2>4, ForeignCount
    <3>2. heard[n] = pend[n]
      BY <2>1, <2>2, <3>1
    <3>3. Count(v[From(n)], n) = Count(w[From(n)], n)
      BY <2>4, Emptied
    <3> QED BY <2>2, <2>4, <3>1, <3>2, <3>3 DEF LeftOf
  <2> QED BY <2>3, <2>4
<1>3. heard \in Bits
  BY <1>2 DEF Noticed, Bits
<1>4. ~Wraps(pend, w[a])
  <2>1. \A n \in Notices : pend[n] + Count(w[a], n) \in Int
    <3>1. TAKE n \in Notices
    <3>2. w[a] \in Seq(Notices)
      BY DEF Wires
    <3>3. Count(w[a], n) \in Nat
      BY <3>2, CountType
    <3> QED BY <3>3, LeftType
  <2>2. \A n \in Notices : ~(pend[n] + Count(w[a], n) > 1)
    BY <1>2, <2>1
  <2> QED BY <2>2 DEF Wraps, Count
<1> QED BY <1>1, <1>2, <1>3, <1>4

LEMMA Taken ==
    ASSUME NEW pend \in Bits, NEW w \in Wires, NEW t \in Notices
    PROVE  LET p == [pend EXCEPT ![t] = 0]
           IN  /\ p \in Bits
               /\ \A n \in Notices :
                    /\ p[n] = IF n = t THEN 0 ELSE pend[n]
                    /\ LeftOf(p, w, n)
                         = IF n = t THEN LeftOf(pend, w, n) - pend[n] ELSE LeftOf(pend, w, n)
<1>1. \A n \in Notices : pend[n] \in {0, 1} /\ Count(w[From(n)], n) \in Nat
  BY LeftType
<1> QED BY <1>1 DEF Bits, LeftOf

LEMMA Sent ==
    ASSUME NEW pend \in Bits, NEW w \in Wires, NEW a \in Agents, NEW t \in NoticesOf(a),
           NEW v, v = [w EXCEPT ![a] = Append(@, t)]
    PROVE  /\ v \in Wires
           /\ \A n \in Notices :
                LeftOf(pend, v, n) = LeftOf(pend, w, n) + (IF n = t THEN 1 ELSE 0)
<1>1. w \in [Agents -> Seq(Notices)] /\ t \in Notices /\ From(t) = a
  BY DEF Wires, NoticesOf
<1>2. v \in Wires
  <2>1. v \in [Agents -> Seq(Notices)]
    BY <1>1
  <2>2. \A b \in Agents : v[b] \in Seq(NoticesOf(b))
    BY <1>1 DEF Wires
  <2> QED BY <2>1, <2>2 DEF Wires
<1>3. ASSUME NEW n \in Notices
      PROVE  LeftOf(pend, v, n) = LeftOf(pend, w, n) + (IF n = t THEN 1 ELSE 0)
  <2>1. From(n) \in Agents /\ pend[n] \in {0, 1} /\ Count(w[From(n)], n) \in Nat
    BY LeftType
  <2>2. CASE From(n) = a
    <3>1. v[From(n)] = Append(w[a], t)
      BY <1>1, <2>2
    <3>2. w[a] \in Seq(Notices)
      BY <1>1
    <3>3. Count(Append(w[a], t), n) = Count(w[a], n) + One(t = n)
      BY <3>2, <1>1, CountAppend
    <3> QED BY <2>1, <2>2, <3>1, <3>3 DEF LeftOf, One
  <2>3. CASE From(n) # a
    <3>1. v[From(n)] = w[From(n)] /\ n # t
      BY <1>1, <2>1, <2>3
    <3> QED BY <2>1, <3>1 DEF LeftOf, One
  <2> QED BY <2>2, <2>3
<1> QED BY <1>2, <1>3

\* A turn of the wait forgets the halts it was woken by, and loses nothing else
LEMMA Waited ==
    ASSUME NEW pend \in Bits, NEW w \in Wires,
           \A n \in Notices : LeftOf(pend, w, n) <= 1,
           NEW ready \in SUBSET {a \in Agents : w[a] # <<>>}
    PROVE  LET heads == [i \in 1 .. Cardinality(ready) |->
                           Head(w[IF i = 1 /\ "data" \in ready THEN "data" ELSE "mover"])]
               p == Noticed(Woken(pend), heads)
               v == [a \in Agents |-> IF a \in ready THEN Tail(w[a]) ELSE w[a]]
           IN  /\ p \in Bits /\ v \in Wires
               /\ ~Wraps(Woken(pend), heads)
               /\ \A n \in {"data_halted", "mover_halted"} :
                    LeftOf(p, v, n) = LeftOf(pend, w, n) - pend[n]
               /\ \A n \in {"data_read", "mover_paused"} :
                    LeftOf(p, v, n) = LeftOf(pend, w, n) /\ (pend[n] = 1 => p[n] = 1)
<1> DEFINE heads == [i \in 1 .. Cardinality(ready) |->
                       Head(w[IF i = 1 /\ "data" \in ready THEN "data" ELSE "mover"])]
           p == Noticed(Woken(pend), heads)
           v == [a \in Agents |-> IF a \in ready THEN Tail(w[a]) ELSE w[a]]
           gone == {"data_halted", "mover_halted"}
<1>1. w \in [Agents -> Seq(Notices)]
  BY DEF Wires
<1>2. v \in Wires
  <2>1. ASSUME NEW a \in ready, NEW S, w[a] \in Seq(S)
        PROVE  Tail(w[a]) \in Seq(S)
    <3>1. w[a] # <<>>
      OBVIOUS
    <3> QED BY <2>1, <3>1
  <2>2. v \in [Agents -> Seq(Notices)]
    BY <1>1, <2>1
  <2>3. \A b \in Agents : v[b] \in Seq(NoticesOf(b))
    BY <2>1 DEF Wires
  <2> QED BY <2>2, <2>3 DEF Wires
<1>3. ASSUME NEW n \in Notices
      PROVE  /\ p[n] = (Woken(pend)[n] + Count(heads, n)) % 2
             /\ Woken(pend)[n] = IF n \in gone THEN 0 ELSE pend[n]
             /\ pend[n] \in {0, 1}
             /\ Count(heads, n) \in {0, 1}
             /\ Woken(pend)[n] + Count(heads, n) <= 1
             /\ p[n] = Woken(pend)[n] + Count(heads, n)
             /\ Count(w[From(n)], n) = Count(v[From(n)], n) + Count(heads, n)
             /\ Count(v[From(n)], n) \in Nat
  <2> DEFINE a == From(n)
  <2>1. a \in Agents /\ pend[n] \in {0, 1} /\ Count(w[a], n) \in Nat
        /\ pend[n] + Count(w[a], n) <= 1
    BY LeftType DEF LeftOf
  <2>2. Count(heads, n) = One(a \in ready /\ Head(w[a]) = n)
    BY CountHeads
  <2>3. Woken(pend)[n] = IF n \in gone THEN 0 ELSE pend[n]
    BY DEF Woken
  <2>4. p[n] = (Woken(pend)[n] + Count(heads, n)) % 2
    BY DEF Noticed, Count
  <2>5. Count(v[a], n) \in Nat
    BY <1>2, LeftType
  <2>6. Count(w[a], n) = Count(v[a], n) + Count(heads, n)
    <3>1. CASE a \in ready
      <4>1. w[a] \in Seq(Notices) /\ w[a] # <<>> /\ v[a] = Tail(w[a])
        BY <1>1, <2>1, <3>1
      <4>2. Count(w[a], n) = Count(v[a], n) + One(Head(w[a]) = n)
        BY <4>1, CountTail
      <4> QED BY <4>2, <2>2, <3>1 DEF One
    <3>2. CASE a \notin ready
      <4>1. v[a] = w[a]
        BY <2>1, <3>2
      <4> QED BY <4>1, <2>1, <2>2, <3>2 DEF One
    <3> QED BY <3>1, <3>2
  <2>7. Count(heads, n) \in {0, 1}
    BY <2>2 DEF One
  <2>8. Woken(pend)[n] \in {0, 1} /\ Woken(pend)[n] <= pend[n]
    BY <2>1, <2>3
  <2>9. Woken(pend)[n] + Count(heads, n) <= 1
    <3> HIDE DEF a, heads, v
    <3> QED BY <2>1, <2>5, <2>6, <2>7, <2>8
  <2>10. p[n] = Woken(pend)[n] + Count(heads, n)
    <3> HIDE DEF heads, p
    <3> QED BY <2>4, <2>7, <2>8, <2>9
  <2> QED BY <2>1, <2>3, <2>4, <2>5, <2>6, <2>7, <2>9, <2>10
<1>4. p \in Bits
  <2>1. p = [n \in Notices |-> p[n]]
    BY DEF Noticed
  <2>2. \A n \in Notices : p[n] \in {0, 1}
    <3>1. TAKE n \in Notices
    <3> HIDE DEF heads, p, v
    <3> QED BY <1>3
  <2> HIDE DEF p
  <2> QED BY <2>1, <2>2 DEF Bits
<1>5. ~Wraps(Woken(pend), heads)
  <2>1. \A n \in Notices : ~(Woken(pend)[n] + Count(heads, n) > 1)
    <3>1. TAKE n \in Notices
    <3> HIDE DEF heads, p, v
    <3> QED BY <1>3
  <2> QED BY <2>1 DEF Wraps, Count
<1>6. ASSUME NEW n \in Notices
      PROVE  /\ n \in gone => LeftOf(p, v, n) = LeftOf(pend, w, n) - pend[n]
             /\ n \notin gone =>
                  LeftOf(p, v, n) = LeftOf(pend, w, n) /\ (pend[n] = 1 => p[n] = 1)
  <2> DEFINE c == Count(heads, n)
             wk == Woken(pend)[n]
  <2>1. /\ wk = IF n \in gone THEN 0 ELSE pend[n]
        /\ pend[n] \in {0, 1} /\ c \in {0, 1}
        /\ wk + c <= 1 /\ p[n] = wk + c
        /\ Count(w[From(n)], n) = Count(v[From(n)], n) + c
        /\ Count(v[From(n)], n) \in Nat
    BY <1>3
  <2> HIDE DEF heads, p, v, c, wk, gone
  <2>2. CASE n \in gone
    BY <2>1, <2>2 DEF LeftOf
  <2>3. CASE n \notin gone
    BY <2>1, <2>3 DEF LeftOf
  <2> QED BY <2>2, <2>3
<1>7. {"data_halted", "mover_halted"} \subseteq Notices
      /\ {"data_read", "mover_paused"} \subseteq Notices \ gone
  BY DEF Notices
<1>8. \A n \in {"data_halted", "mover_halted"} :
         LeftOf(p, v, n) = LeftOf(pend, w, n) - pend[n]
  BY <1>6, <1>7
<1>9. \A n \in {"data_read", "mover_paused"} :
         LeftOf(p, v, n) = LeftOf(pend, w, n) /\ (pend[n] = 1 => p[n] = 1)
  BY <1>6, <1>7
<1> QED BY <1>2, <1>4, <1>5, <1>8, <1>9, Zenon

-----------------------------------------------------------------------------
(* What a turn of a loop makes of the CONTROL agent.                         *)

SameCopies(c, d) ==
    d.ds = c.ds /\ d.ms = c.ms /\ d.pend = c.pend /\ d.lost = c.lost

TurnBegins(c, d) ==
    /\ d.loop = c.loop /\ d.stage = First(c.loop) /\ d.count = c.count + 1
    /\ d.rc = c.rc /\ d.finish = c.finish /\ ~d.failed

GivenUp(c, d) ==
    /\ d.loop = "shutdown" /\ d.stage = "wait"
    /\ d.rc = "failed" /\ d.finish = c.finish

StopBegins(c, d) ==
    /\ c.loop = "shutdown" /\ d.loop = "shutdown" /\ d.stage = "stop_data"
    /\ d.rc = c.rc /\ d.finish = Ending(c)

LoopEnds(c, d) ==
    /\ c.loop \in {"stopping", "ended"} /\ d.loop = "ended" /\ d.stage = c.stage
    /\ d.rc = c.rc /\ d.finish \in {c.finish, "failure"}

LEMMA FirstStages ==
    ASSUME NEW loop \in Loops
    PROVE  /\ First(loop) \in Stages
           /\ loop = "monitor" => First(loop) = IF kind = "recover" THEN "top" ELSE "wait"
           /\ loop = "shutdown" => First(loop) = "wait"
           /\ loop \in {"startup", "stopping", "ended"} => First(loop) = "data"
BY DEF First, Loops, Stages

LEMMA EntersIs ==
    ASSUME NEW c \in Cas, NEW loop \in Loops
    PROVE  LET d == Enter(c, loop)
           IN  /\ d \in Cas /\ SameCopies(c, d)
               /\ d.loop = loop /\ d.stage = First(loop) /\ d.count = 0
               /\ d.rc = c.rc /\ d.finish = c.finish /\ ~d.failed
<1>1. First(loop) \in Stages /\ 0 \in 0 .. Turns - 1
  BY FirstStages DEF Turns
<1> QED BY <1>1 DEF Enter, Cas, SameCopies

LEMMA EndingIs ==
    ASSUME NEW c \in Cas
    PROVE  /\ Ending(c) \in {"okay", "questionable", "failure"}
           /\ Ending(c) = "okay" =>
                /\ c.ds.state = "HALTED" /\ c.ds.reason = "SUCCESSFUL"
                /\ c.ms.state = "HALTED" /\ c.ms.reason = "CONNECT_CLOSED"
BY DEF Ending

LEMMA GivesUpIs ==
    ASSUME NEW c \in Cas
    PROVE  LET d == GivesUp(c)
           IN  d \in Cas /\ SameCopies(c, d) /\ GivenUp(c, d)
<1> DEFINE e == [c EXCEPT !.rc = "failed"]
<1>1. e \in Cas /\ SameCopies(c, e) /\ e.rc = "failed" /\ e.finish = c.finish
  BY DEF Cas, SameCopies
<1>2. "shutdown" \in Loops /\ First("shutdown") = "wait"
  BY DEF Loops, First
<1>3. LET d == Enter(e, "shutdown")
      IN  /\ d \in Cas /\ SameCopies(e, d)
          /\ d.loop = "shutdown" /\ d.stage = First("shutdown")
          /\ d.rc = e.rc /\ d.finish = e.finish
  BY <1>1, <1>2, EntersIs
<1>4. GivesUp(c) = Enter(e, "shutdown")
  BY DEF GivesUp
<1> HIDE DEF e
<1> QED BY <1>1, <1>2, <1>3, <1>4 DEF GivenUp, SameCopies

LEMMA StopsIs ==
    ASSUME NEW c \in Cas, c.loop = "shutdown"
    PROVE  LET d == Stops(c)
           IN  d \in Cas /\ SameCopies(c, d) /\ StopBegins(c, d)
BY EndingIs DEF Stops, Cas, SameCopies, StopBegins, Stages

LEMMA EndsIs ==
    ASSUME NEW c \in Cas, c.loop \in {"stopping", "ended"}
    PROVE  \A d \in {[c EXCEPT !.loop = "ended"],
                     [c EXCEPT !.loop = "ended", !.finish = "failure"]} :
             d \in Cas /\ SameCopies(c, d) /\ LoopEnds(c, d)
BY DEF Cas, SameCopies, LoopEnds, Loops

LEMMA BrokenOffIs ==
    ASSUME NEW c \in Cas
    PROVE  LET d == BrokenOff(c)
           IN  /\ d \in Cas /\ SameCopies(c, d)
               /\ \/ c.loop \notin {"shutdown", "stopping"} /\ GivenUp(c, d)
                  \/ StopBegins(c, d)
                  \/ LoopEnds(c, d)
BY GivesUpIs, StopsIs, EndsIs DEF BrokenOff

LEMMA AgainIs ==
    ASSUME NEW c \in Cas
    PROVE  LET d == Again(c)
           IN  /\ d \in Cas /\ SameCopies(c, d)
               /\ \/ TurnBegins(c, d)
                  \/ c.loop \in {"startup", "monitor"} /\ c.count = Turns - 1 /\ GivenUp(c, d)
                  \/ StopBegins(c, d)
                  \/ LoopEnds(c, d)
<1>1. CASE c.count + 1 < Turns
  <2>1. c.loop \in Loops /\ c.count \in 0 .. Turns - 1
    BY DEF Cas
  <2>2. First(c.loop) \in Stages /\ c.count + 1 \in 0 .. Turns - 1
    BY <1>1, <2>1, FirstStages DEF Turns
  <2> QED BY <1>1, <2>1, <2>2 DEF Again, Cas, SameCopies, TurnBegins
<1>2. CASE ~(c.count + 1 < Turns)
  <2>1. c.count = Turns - 1 /\ c.loop \in Loops
    BY <1>2 DEF Cas, Turns
  <2>2. Again(c) = Exhausted(c)
    BY <1>2 DEF Again
  <2>3. CASE c.loop \in {"startup", "monitor"}
    BY <2>1, <2>2, <2>3, GivesUpIs DEF Exhausted
  <2>4. CASE c.loop = "shutdown"
    BY <2>1, <2>2, <2>4, StopsIs DEF Exhausted
  <2>5. CASE c.loop \in {"stopping", "ended"}
    BY <2>1, <2>2, <2>5, EndsIs DEF Exhausted
  <2> QED BY <2>1, <2>3, <2>4, <2>5 DEF Loops
<1> QED BY <1>1, <1>2

\* The CONTROL agent has read the connection `a`
LEMMA Listened ==
    ASSUME TypeOK, Unsaid, NEW a \in Agents
    PROVE  LET c == Listens(ca, a)
               v == [wire EXCEPT ![a] = <<>>]
           IN  /\ c \in Cas /\ v \in Wires
               /\ ~Wraps(ca.pend, wire[a])
               /\ c = [ca EXCEPT !.pend = c.pend]
               /\ \A n \in Notices :
                    /\ LeftOf(c.pend, v, n) = Left(n)
                    /\ c.pend[n] = IF From(n) = a THEN Left(n) ELSE ca.pend[n]
<1>1. ca \in Cas /\ ca.pend \in Bits /\ wire \in Wires
      /\ \A n \in Notices : LeftOf(ca.pend, wire, n) <= 1
  BY DEF TypeOK, Cas, Unsaid, Left
<1>2. LET heard == Noticed(ca.pend, wire[a])
          v == [wire EXCEPT ![a] = <<>>]
      IN  /\ heard \in Bits /\ v \in Wires
          /\ ~Wraps(ca.pend, wire[a])
          /\ \A n \in Notices :
               /\ LeftOf(heard, v, n) = LeftOf(ca.pend, wire, n)
               /\ heard[n] = IF From(n) = a THEN LeftOf(ca.pend, wire, n) ELSE ca.pend[n]
  BY <1>1, Heard
<1>3. LET c == Listens(ca, a) IN c.pend = Noticed(ca.pend, wire[a])
  BY <1>1 DEF Listens, Cas
<1>4. LET c == Listens(ca, a) IN c \in Cas /\ c = [ca EXCEPT !.pend = c.pend]
  BY <1>1, <1>2 DEF Listens, Cas
<1> QED BY <1>2, <1>3, <1>4 DEF Left

LEMMA LeftNat ==
    ASSUME TypeOK, NEW n \in Notices
    PROVE  Left(n) \in Nat /\ ca.pend[n] \in {0, 1} /\ ca.pend[n] <= Left(n)
<1>1. ca.pend \in Bits /\ wire \in Wires
  BY DEF TypeOK, Cas
<1>2. ca.pend[n] \in {0, 1} /\ Count(wire[From(n)], n) \in Nat
  BY <1>1, LeftType
<1> QED BY <1>2 DEF Left, LeftOf

-----------------------------------------------------------------------------
(* The agents' steps.  The CONTROL agent does not take part in them.        *)

LEMMA InvParts ==
    ASSUME MonitorInv
    PROVE  /\ TypeOK /\ StagesFit /\ Unsaid /\ CopiesStand /\ Fits
           /\ EarlyTurns /\ CopiesFresh /\ TurnsPaid
           /\ data \in Datas /\ mover \in Movers /\ past \in Pasts /\ ca \in Cas
           /\ kind \in {"backup", "recover"}
           /\ \A n \in Notices :
                Left(n) \in Nat /\ ca.pend[n] \in {0, 1} /\ ca.pend[n] <= Left(n)
BY LeftNat DEF MonitorInv, WatchInv, TypeOK

\* What is past for the CONTROL agent does not count as slow any more
LEMMA StillSlow ==
    ASSUME MonitorInv, ca'.rc = ca.rc \/ ca'.rc # "failed",
           past'.expired >= past.expired, past'.expired \in Nat,
           past.faulty => past'.faulty
    PROVE  GivenUpOnlyWhenSlow'
<1>1. past.expired \in Nat /\ Slow \in Int
  BY InvParts, MonitorAssumption DEF Pasts, Slow, Turns
<1> QED BY <1>1, InvParts DEF TurnsPaid, GivenUpOnlyWhenSlow

LEMMA QuietStep ==
    ASSUME MonitorInv, UNCHANGED <<kind, wire, ca>>
    PROVE  /\ \A n \in Notices : Left(n)' = Left(n)
           /\ StagesFit'
BY InvParts DEF Left, StagesFit, Before, Unstopped

\* The DATA agent halts: it has done, has failed, or the stream has ended
DataHalts ==
    /\ data.state = "ACTIVE" /\ data' \in Datas
    /\ data'.state = "HALTED" /\ data'.notify /\ data'.reads = data.reads
    /\ past' \in {past, [past EXCEPT !.faulty = TRUE]}
    /\ \/ past'.faulty
       \/ ~data.asking \/ mover.reading
       \/ kind = "recover" /\ mover.state = "HALTED"
    /\ UNCHANGED <<kind, mover, wire, ca>>

LEMMA DataHaltsShape ==
    ASSUME MonitorInv,
           DataEnds \/ DataEndsEarly \/ DataFails \/ DataSeesEnd
    PROVE  DataHalts
<1>1. data \in Datas /\ past \in Pasts
  BY InvParts
<1>2. \A reason \in Reasons :
        LET d == Halt(data, reason)
        IN  /\ d \in Datas /\ d.state = "HALTED" /\ d.notify /\ d.reads = data.reads
            /\ [d EXCEPT !.asking = FALSE] \in Datas
            /\ LET e == [d EXCEPT !.asking = FALSE]
               IN  e.state = "HALTED" /\ e.notify /\ e.reads = data.reads
  BY <1>1 DEF Halt, Datas
<1>3. {"SUCCESSFUL", "INTERNAL_ERROR"} \subseteq Reasons
  BY DEF Reasons
<1>4. [past EXCEPT !.faulty = TRUE].faulty
  BY <1>1 DEF Pasts
<1>5. CASE DataEnds
  BY <1>2, <1>3, <1>5 DEF DataEnds, DataHalts
<1>6. CASE DataEndsEarly
  BY <1>2, <1>3, <1>6 DEF DataEndsEarly, DataHalts
<1>7. CASE DataFails
  BY <1>2, <1>3, <1>4, <1>7 DEF DataFails, DataHalts
<1>8. CASE DataSeesEnd
  BY <1>2, <1>3, <1>8 DEF DataSeesEnd, DataHalts
<1> QED BY <1>5, <1>6, <1>7, <1>8

LEMMA DataHaltsStep ==
    ASSUME MonitorInv, DataHalts
    PROVE  MonitorInv'
<1> USE InvParts DEF DataHalts, Sound, Before, Unstopped, Notices
<1>1. /\ past' \in Pasts /\ past'.data = past.data /\ past'.mover = past.mover
      /\ past'.expired = past.expired /\ past'.wrapped = past.wrapped
      /\ past'.refused = past.refused /\ (past.faulty => past'.faulty)
  BY DEF Pasts
<1>2. (\A n \in Notices : Left(n)' = Left(n)) /\ StagesFit'
  BY QuietStep
<1>3. TypeOK'
  BY <1>1 DEF TypeOK
<1>4. Unsaid'
  BY <1>1, <1>2 DEF Unsaid
<1>5. CopiesStand'
  BY <1>1 DEF CopiesStand, OkayMeansDone
<1>6. Fits'
  BY <1>1, <1>2 DEF Fits, RequestsFit, Unsaid
<1>7. EarlyTurns'
  BY <1>1, <1>2 DEF EarlyTurns
<1>8. CopiesFresh'
  BY <1>1, <1>2 DEF CopiesFresh, DataHeard, MoverHeard
<1>9. TurnsPaid'
  <2>1. GivenUpOnlyWhenSlow'
    BY <1>1, StillSlow DEF Pasts
  <2>2. /\ ReadsPassed' = ReadsPassed /\ PausesSpent' = PausesSpent
        /\ PauseOpen' = PauseOpen
    BY <1>2 DEF ReadsPassed, PausesSpent, PauseOpen, InTurn
  <2>3. HaltsSpent' = HaltsSpent
    BY <1>2 DEF HaltsSpent, DataHeard, MoverHeard, Unsaid
  <2> QED BY <1>1, <2>1, <2>2, <2>3 DEF TurnsPaid, Paid, ReadWaits, InTurn
<1> QED BY <1>2, <1>3, <1>4, <1>5, <1>6, <1>7, <1>8, <1>9 DEF MonitorInv, WatchInv

\* The mover waits for another tape, or has lost its own
MoverHolds ==
    /\ mover.state = "ACTIVE" /\ mover' \in Movers
    /\ mover'.state = "PAUSED" /\ mover'.notify /\ mover'.reading = mover.reading
    /\ \/ /\ kind = "recover" => mover.reading
          /\ mover'.pauses = mover.pauses - 1 /\ past' = past
       \/ past' = [past EXCEPT !.faulty = TRUE]
    /\ UNCHANGED <<kind, data, wire, ca>>

LEMMA MoverHoldsShape ==
    ASSUME MonitorInv, MoverPauses \/ MediaFails
    PROVE  MoverHolds
<1>1. mover \in Movers
  BY InvParts
<1>2. "PAUSED" \in AgentStates /\ {"EOM", "EOF", "SEEK", "MEDIA_ERROR"} \subseteq Reasons
  BY DEF AgentStates, Reasons
<1>3. CASE MoverPauses
  <2>1. PICK reason \in {"EOM", "EOF", "SEEK"} :
           mover' = [mover EXCEPT !.state = "PAUSED", !.reason = reason, !.notify = TRUE,
                                  !.pauses = @ - 1]
    BY <1>3 DEF MoverPauses
  <2>2. /\ mover.state = "ACTIVE" /\ mover.pauses > 0
        /\ kind = "recover" => mover.reading
        /\ UNCHANGED <<kind, data, wire, ca, past>>
    BY <1>3 DEF MoverPauses
  <2>3. mover.pauses - 1 \in Nat
    BY <1>1, <2>2 DEF Movers
  <2> QED BY <1>1, <1>2, <2>1, <2>2, <2>3 DEF MoverHolds, Movers
<1>4. CASE MediaFails
  BY <1>1, <1>2, <1>4 DEF MediaFails, MoverHolds, Movers
<1> QED BY <1>3, <1>4

LEMMA MoverHoldsStep ==
    ASSUME MonitorInv, MoverHolds
    PROVE  MonitorInv'
<1> USE InvParts DEF MoverHolds, Sound, Before, Unstopped, Notices
<1>1. /\ past' \in Pasts /\ past'.data = past.data /\ past'.mover = past.mover
      /\ past'.expired = past.expired /\ past'.wrapped = past.wrapped
      /\ past'.refused = past.refused /\ (past.faulty => past'.faulty)
      /\ ~past'.faulty =>
           /\ ~past.faulty /\ mover'.pauses = mover.pauses - 1
           /\ kind = "recover" => mover.reading
  BY DEF Pasts
<1>2. (\A n \in Notices : Left(n)' = Left(n)) /\ StagesFit'
  BY QuietStep
<1>3. TypeOK'
  BY <1>1 DEF TypeOK
<1>4. Unsaid'
  BY <1>1, <1>2 DEF Unsaid
<1>5. CopiesStand'
  BY <1>1 DEF CopiesStand, OkayMeansDone
<1>6. Fits'
  BY <1>1, <1>2 DEF Fits, RequestsFit, Unsaid
<1>7. EarlyTurns'
  BY <1>1, <1>2 DEF EarlyTurns, Unsaid
<1>8. CopiesFresh'
  BY <1>1, <1>2 DEF CopiesFresh, DataHeard, MoverHeard, Unsaid
<1>9. TurnsPaid'
  <2>1. GivenUpOnlyWhenSlow'
    BY <1>1, StillSlow DEF Pasts
  <2>2. ReadsPassed' = ReadsPassed /\ HaltsSpent' = HaltsSpent
    BY <1>2 DEF ReadsPassed, HaltsSpent, DataHeard, MoverHeard
  <2>3. ~past'.faulty => PausesSpent' = PausesSpent
          /\ mover'.pauses + One(PauseOpen') = mover.pauses + One(PauseOpen)
    <3>1. ca.pend["mover_paused"] = 0 /\ Left("mover_paused") = 0
      BY DEF Unsaid
    <3>2. mover.pauses \in Nat
      BY DEF Movers
    <3> QED BY <1>1, <1>2, <3>1, <3>2, MonitorAssumption DEF PausesSpent, PauseOpen, InTurn, One
  <2> QED BY <1>1, <2>1, <2>2, <2>3 DEF TurnsPaid, Paid, ReadWaits, InTurn
<1> QED BY <1>2, <1>3, <1>4, <1>5, <1>6, <1>7, <1>8, <1>9 DEF MonitorInv, WatchInv

LEMMA MoverAcceptsStep ==
    ASSUME MonitorInv, MoverAccepts
    PROVE  MonitorInv'
<1> USE InvParts DEF Sound, Before, Unstopped, Notices
<1>1. /\ UNCHANGED <<kind, data, wire, ca, past>> /\ mover.state = "LISTEN"
      /\ mover' \in Movers /\ mover'.state = "ACTIVE" /\ mover'.notify = mover.notify
      /\ mover'.reading = mover.reading /\ mover'.pauses = mover.pauses
  BY DEF MoverAccepts, Accepted, Movers, AgentStates
<1>2. (\A n \in Notices : Left(n)' = Left(n)) /\ StagesFit'
  BY <1>1, QuietStep
<1>3. TypeOK'
  BY <1>1 DEF TypeOK
<1>4. Unsaid'
  BY <1>1, <1>2 DEF Unsaid
<1>5. CopiesStand'
  BY <1>1 DEF CopiesStand, OkayMeansDone
<1>6. Fits'
  BY <1>1, <1>2 DEF Fits, RequestsFit
<1>7. EarlyTurns'
  BY <1>1, <1>2 DEF EarlyTurns, Unsaid
<1>8. CopiesFresh'
  BY <1>1, <1>2 DEF CopiesFresh, DataHeard, MoverHeard
<1>9. TurnsPaid'
  <2>1. GivenUpOnlyWhenSlow'
    BY <1>1, StillSlow DEF Pasts
  <2>2. /\ ReadsPassed' = ReadsPassed /\ HaltsSpent' = HaltsSpent
        /\ PausesSpent' = PausesSpent /\ PauseOpen' = PauseOpen
    BY <1>1, <1>2
       DEF ReadsPassed, HaltsSpent, DataHeard, MoverHeard, PausesSpent, PauseOpen, InTurn
  <2> QED BY <1>1, <2>1, <2>2 DEF TurnsPaid, Paid, ReadWaits, InTurn
<1> QED BY <1>2, <1>3, <1>4, <1>5, <1>6, <1>7, <1>8, <1>9 DEF MonitorInv, WatchInv

LEMMA MoverServesStep ==
    ASSUME MonitorInv, MoverServes
    PROVE  MonitorInv'
<1> USE InvParts DEF Sound, Before, Unstopped, Notices
<1>1. /\ UNCHANGED <<kind, wire, ca, past>> /\ mover.state = "ACTIVE" /\ mover.reading
      /\ mover' \in Movers /\ mover'.state = "ACTIVE" /\ mover'.notify = mover.notify
      /\ ~mover'.reading /\ mover'.pauses = mover.pauses
      /\ data' \in Datas /\ data'.state = data.state /\ data'.notify = data.notify
      /\ data'.reason = data.reason /\ data'.reads = data.reads
  BY DEF MoverServes, Movers, Datas
<1>2. (\A n \in Notices : Left(n)' = Left(n)) /\ StagesFit'
  BY <1>1, QuietStep
<1>3. TypeOK'
  BY <1>1 DEF TypeOK
<1>4. Unsaid'
  BY <1>1, <1>2 DEF Unsaid
<1>5. CopiesStand'
  BY <1>1 DEF CopiesStand, OkayMeansDone
<1>6. Fits'
  BY <1>1, <1>2 DEF Fits, RequestsFit, Unsaid
<1>7. EarlyTurns'
  BY <1>1, <1>2 DEF EarlyTurns, Unsaid
<1>8. CopiesFresh'
  BY <1>1, <1>2 DEF CopiesFresh, DataHeard, MoverHeard
<1>9. TurnsPaid'
  <2>1. GivenUpOnlyWhenSlow'
    BY <1>1, StillSlow DEF Pasts
  <2>2. /\ ReadsPassed' = ReadsPassed /\ HaltsSpent' = HaltsSpent
        /\ PausesSpent' = PausesSpent /\ PauseOpen' = PauseOpen
    BY <1>1, <1>2
       DEF ReadsPassed, HaltsSpent, DataHeard, MoverHeard, PausesSpent, PauseOpen, InTurn
  <2> QED BY <1>1, <2>1, <2>2 DEF TurnsPaid, Paid, ReadWaits, InTurn
<1> QED BY <1>2, <1>3, <1>4, <1>5, <1>6, <1>7, <1>8, <1>9 DEF MonitorInv, WatchInv

LEMMA MoverSeesEndStep ==
    ASSUME MonitorInv, MoverSeesEnd
    PROVE  MonitorInv'
<1> USE InvParts DEF Sound, Before, Unstopped, Notices
<1>1. /\ UNCHANGED <<kind, data, wire, ca, past>> /\ mover.state = "ACTIVE"
      /\ data.state = "HALTED" /\ (kind = "recover" => mover.reading)
      /\ mover' \in Movers /\ mover'.state = "HALTED" /\ mover'.notify
      /\ mover'.reading = mover.reading /\ mover'.pauses = mover.pauses
  BY DEF MoverSeesEnd, Halt, Movers, AgentStates, Reasons
<1>2. (\A n \in Notices : Left(n)' = Left(n)) /\ StagesFit'
  BY <1>1, QuietStep
<1>3. TypeOK'
  BY <1>1 DEF TypeOK
<1>4. Unsaid'
  BY <1>1, <1>2 DEF Unsaid
<1>5. CopiesStand'
  BY <1>1 DEF CopiesStand, OkayMeansDone
<1>6. Fits'
  BY <1>1, <1>2 DEF Fits, RequestsFit, Unsaid
<1>7. EarlyTurns'
  BY <1>1, <1>2 DEF EarlyTurns, Unsaid
<1>8. CopiesFresh'
  BY <1>1, <1>2 DEF CopiesFresh, DataHeard, MoverHeard, Unsaid
<1>9. TurnsPaid'
  <2>1. GivenUpOnlyWhenSlow'
    BY <1>1, StillSlow DEF Pasts
  <2>2. /\ ReadsPassed' = ReadsPassed /\ HaltsSpent' = HaltsSpent
        /\ PausesSpent' = PausesSpent /\ PauseOpen' = PauseOpen
    BY <1>1, <1>2
       DEF ReadsPassed, HaltsSpent, DataHeard, MoverHeard, PausesSpent, PauseOpen, InTurn
  <2> QED BY <1>1, <2>1, <2>2 DEF TurnsPaid, Paid, ReadWaits, InTurn
<1> QED BY <1>2, <1>3, <1>4, <1>5, <1>6, <1>7, <1>8, <1>9 DEF MonitorInv, WatchInv

\* A notice is sent
LEMMA SentStep ==
    ASSUME MonitorInv, NEW a \in Agents, NEW t \in NoticesOf(a),
           wire' = [wire EXCEPT ![a] = Append(@, t)],
           UNCHANGED <<kind, ca, past>>
    PROVE  /\ wire' \in Wires
           /\ \A n \in Notices : Left(n)' = Left(n) + (IF n = t THEN 1 ELSE 0)
           /\ StagesFit' /\ GivenUpOnlyWhenSlow'
<1>1. ca.pend \in Bits /\ wire \in Wires
  BY InvParts DEF TypeOK, Cas
<1>2. wire' \in Wires
      /\ \A n \in Notices : LeftOf(ca.pend, wire', n) = LeftOf(ca.pend, wire, n) + (IF n = t THEN 1 ELSE 0)
  <2>1. \A pend \in Bits, w \in Wires : \A v :
           v = [w EXCEPT ![a] = Append(@, t)] =>
             /\ v \in Wires
             /\ \A n \in Notices :
                  LeftOf(pend, v, n) = LeftOf(pend, w, n) + (IF n = t THEN 1 ELSE 0)
    BY Sent
  <2> QED BY <1>1, <2>1
<1>3. StagesFit'
  BY InvParts DEF StagesFit, Before, Unstopped
<1>4. GivenUpOnlyWhenSlow'
  BY InvParts, StillSlow DEF Pasts
<1> QED BY <1>2, <1>3, <1>4 DEF Left

LEMMA DataNotifiesStep ==
    ASSUME MonitorInv, DataNotifies
    PROVE  MonitorInv'
<1> USE InvParts DEF Sound, Before, Unstopped, Notices
<1>1. /\ UNCHANGED <<kind, mover, ca, past>> /\ data.state = "HALTED" /\ data.notify
      /\ data' \in Datas /\ data'.state = "HALTED" /\ ~data'.notify
      /\ data'.reason = data.reason
      /\ data'.reads = data.reads /\ data'.asking = data.asking
  <2>1. data.state = "HALTED" /\ data.notify
    BY DEF DataNotifies, Datas, Unsaid
  <2> QED BY <2>1 DEF DataNotifies, Datas
<1>2. /\ wire' \in Wires /\ StagesFit' /\ GivenUpOnlyWhenSlow'
      /\ Left("data_halted")' = Left("data_halted") + 1
      /\ Left("data_read")' = Left("data_read")
      /\ Left("mover_halted")' = Left("mover_halted")
      /\ Left("mover_paused")' = Left("mover_paused")
      /\ \A n \in Notices : n # "data_halted" => Left(n)' = Left(n)
  <2>1. "data_halted" \in NoticesOf("data") /\ "data" \in Agents
    BY DEF NoticesOf, From, Agents
  <2>2. wire' = [wire EXCEPT !["data"] = Append(@, "data_halted")]
    BY DEF DataNotifies
  <2>3. \A n \in Notices : Left(n)' = Left(n) + (IF n = "data_halted" THEN 1 ELSE 0)
    BY <1>1, <2>1, <2>2, SentStep
  <2>4. wire' \in Wires /\ StagesFit' /\ GivenUpOnlyWhenSlow'
    BY <1>1, <2>1, <2>2, SentStep
  <2> QED BY <2>3, <2>4 DEF One
<1>3. TypeOK'
  BY <1>1, <1>2 DEF TypeOK
<1>4. Unsaid'
  BY <1>1, <1>2 DEF Unsaid
<1>5. CopiesStand'
  BY <1>1 DEF CopiesStand, OkayMeansDone
<1>6. Fits'
  BY <1>1, <1>2 DEF Fits, RequestsFit
<1>7. EarlyTurns'
  BY <1>1, <1>2 DEF EarlyTurns
<1>8. CopiesFresh'
  BY <1>1, <1>2 DEF CopiesFresh, DataHeard, MoverHeard
<1>9. TurnsPaid'
  BY <1>1, <1>2
     DEF TurnsPaid, Paid, ReadWaits, ReadsPassed, HaltsSpent, DataHeard, MoverHeard,
         PausesSpent, PauseOpen, InTurn
<1> QED BY <1>2, <1>3, <1>4, <1>5, <1>6, <1>7, <1>8, <1>9 DEF MonitorInv, WatchInv

LEMMA MoverNotifiesStep ==
    ASSUME MonitorInv, MoverNotifies
    PROVE  MonitorInv'
<1> USE InvParts DEF Sound, Before, Unstopped, Notices
<1>1. /\ UNCHANGED <<kind, data, ca, past>>
      /\ mover.state \in {"PAUSED", "HALTED"} /\ mover.notify
      /\ mover' \in Movers /\ mover'.state = mover.state /\ ~mover'.notify
      /\ mover'.reason = mover.reason
      /\ mover'.pauses = mover.pauses /\ mover'.reading = mover.reading
  BY DEF MoverNotifies, Movers
<1>2. /\ wire' \in Wires /\ StagesFit' /\ GivenUpOnlyWhenSlow'
      /\ Left("data_halted")' = Left("data_halted")
      /\ Left("data_read")' = Left("data_read")
      /\ Left("mover_halted")' = Left("mover_halted") + One(mover.state = "HALTED")
      /\ Left("mover_paused")' = Left("mover_paused") + One(mover.state = "PAUSED")
  <2> DEFINE t == IF mover.state = "PAUSED" THEN "mover_paused" ELSE "mover_halted"
  <2>1. t \in NoticesOf("mover") /\ "mover" \in Agents
    BY DEF NoticesOf, From, Agents
  <2>2. wire' = [wire EXCEPT !["mover"] = Append(@, t)]
    BY DEF MoverNotifies
  <2>3. \A n \in Notices : Left(n)' = Left(n) + (IF n = t THEN 1 ELSE 0)
    <3> HIDE DEF t
    <3> QED BY <1>1, <2>1, <2>2, SentStep
  <2>4. wire' \in Wires /\ StagesFit' /\ GivenUpOnlyWhenSlow'
    <3> HIDE DEF t
    <3> QED BY <1>1, <2>1, <2>2, SentStep
  <2> QED BY <1>1, <2>3, <2>4 DEF One
<1>3. TypeOK'
  BY <1>1, <1>2 DEF TypeOK
<1>4. Unsaid'
  BY <1>1, <1>2 DEF Unsaid, One
<1>5. CopiesStand'
  BY <1>1 DEF CopiesStand, OkayMeansDone
<1>6. Fits'
  BY <1>1, <1>2 DEF Fits, RequestsFit
<1>7. EarlyTurns'
  BY <1>1, <1>2 DEF EarlyTurns, One
<1>8. CopiesFresh'
  BY <1>1, <1>2 DEF CopiesFresh, DataHeard, MoverHeard, Unsaid, One
<1>9. TurnsPaid'
  BY <1>1, <1>2
     DEF TurnsPaid, Paid, ReadWaits, ReadsPassed, HaltsSpent, DataHeard, MoverHeard,
         PausesSpent, PauseOpen, InTurn, One, Unsaid
<1> QED BY <1>2, <1>3, <1>4, <1>5, <1>6, <1>7, <1>8, <1>9 DEF MonitorInv, WatchInv

LEMMA DataAsksStep ==
    ASSUME MonitorInv, DataAsks
    PROVE  MonitorInv'
<1> USE InvParts DEF Sound, Before, Unstopped, Notices
<1>1. /\ UNCHANGED <<kind, mover, ca, past>> /\ kind = "recover"
      /\ data.state = "ACTIVE" /\ ~data.asking
      /\ data' \in Datas /\ data'.state = "ACTIVE" /\ data'.asking
      /\ data'.notify = data.notify /\ data'.reason = data.reason
      /\ data'.reads = data.reads - 1
  <2>1. data.reads - 1 \in Nat
    BY DEF DataAsks, Datas
  <2> QED BY <2>1 DEF DataAsks, Datas
<1>2. /\ wire' \in Wires /\ StagesFit' /\ GivenUpOnlyWhenSlow'
      /\ Left("data_halted")' = Left("data_halted")
      /\ Left("data_read")' = Left("data_read") + 1
      /\ Left("mover_halted")' = Left("mover_halted")
      /\ Left("mover_paused")' = Left("mover_paused")
  <2>1. "data_read" \in NoticesOf("data") /\ "data" \in Agents
    BY DEF NoticesOf, From, Agents
  <2>2. wire' = [wire EXCEPT !["data"] = Append(@, "data_read")]
    BY DEF DataAsks
  <2>3. \A n \in Notices : Left(n)' = Left(n) + (IF n = "data_read" THEN 1 ELSE 0)
    BY <1>1, <2>1, <2>2, SentStep
  <2>4. wire' \in Wires /\ StagesFit' /\ GivenUpOnlyWhenSlow'
    BY <1>1, <2>1, <2>2, SentStep
  <2> QED BY <2>3, <2>4 DEF One
<1>3. TypeOK'
  BY <1>1, <1>2 DEF TypeOK
<1>4. Unsaid'
  BY <1>1, <1>2 DEF Unsaid
<1>5. CopiesStand'
  BY <1>1 DEF CopiesStand, OkayMeansDone
<1>6. Fits'
  BY <1>1, <1>2 DEF Fits, RequestsFit, Unsaid, Movers, AgentStates
<1>7. EarlyTurns'
  BY <1>1, <1>2 DEF EarlyTurns
<1>8. CopiesFresh'
  BY <1>1, <1>2 DEF CopiesFresh, DataHeard, MoverHeard
<1>9. TurnsPaid'
  <2>1. ReadsPassed' = ReadsPassed
    <3>1. data.reads \in Nat /\ Left("data_read") \in Nat
      BY DEF Datas
    <3> QED BY <1>1, <1>2, <3>1, MonitorAssumption DEF ReadsPassed
  <2>2. HaltsSpent' = HaltsSpent /\ PausesSpent' = PausesSpent /\ PauseOpen' = PauseOpen
    BY <1>1, <1>2 DEF HaltsSpent, DataHeard, MoverHeard, PausesSpent, PauseOpen, InTurn
  <2> QED BY <1>1, <1>2, <2>1, <2>2 DEF TurnsPaid, Paid, ReadWaits, InTurn
<1> QED BY <1>2, <1>3, <1>4, <1>5, <1>6, <1>7, <1>8, <1>9 DEF MonitorInv, WatchInv

-----------------------------------------------------------------------------
(* The CONTROL agent once it has stopped watching.                          *)

LEMMA Hearing ==
    ASSUME MonitorInv, NEW a \in Agents,
           wire' = [wire EXCEPT ![a] = <<>>], ca'.pend = Listens(ca, a).pend
    PROVE  /\ wire' \in Wires
           /\ \A n \in Notices : Left(n)' = Left(n)
<1> DEFINE p == Listens(ca, a).pend
           v == [wire EXCEPT ![a] = <<>>]
<1>1. TypeOK /\ Unsaid
  BY InvParts
<1>2. v \in Wires /\ \A n \in Notices : LeftOf(p, v, n) = Left(n)
  BY <1>1, Listened
<1>3. ca'.pend = p /\ wire' = v
  OBVIOUS
<1> HIDE DEF p, v
<1>4. \A n \in Notices : Left(n)' = LeftOf(p, v, n)
  BY <1>3 DEF Left
<1> QED BY <1>2, <1>3, <1>4

LEMMA Hearsay ==
    ASSUME MonitorInv, NEW a \in Agents, NEW outcome
    PROVE  /\ ~Wraps(ca.pend, wire[a])
           /\ Hears(a) => past' = past
           /\ HearsWith(a, outcome) =>
                past' = [past EXCEPT !.faulty = @ \/ outcome # "ok"]
<1>1. ~Wraps(ca.pend, wire[a])
  BY InvParts, Listened
<1>2. past \in Pasts /\ ~past.wrapped
  BY InvParts DEF Unsaid
<1> QED BY <1>1, <1>2 DEF Hears, HearsWith, Pasts

LEMMA HearsayPast ==
    ASSUME MonitorInv, NEW a \in Agents, NEW outcome, HearsWith(a, outcome)
    PROVE  /\ past' \in Pasts /\ past'.faulty = (past.faulty \/ outcome # "ok")
           /\ past'.data = past.data /\ past'.mover = past.mover
           /\ past'.expired = past.expired /\ past'.wrapped = past.wrapped
           /\ past'.refused = past.refused
<1> DEFINE f == past.faulty \/ outcome # "ok"
<1>1. past \in Pasts /\ f \in BOOLEAN
  BY InvParts
<1>2. past' = [past EXCEPT !.faulty = f]
  BY Hearsay
<1> HIDE DEF f
<1>3. /\ past' \in Pasts /\ past'.faulty = f
      /\ past'.data = past.data /\ past'.mover = past.mover /\ past'.expired = past.expired
      /\ past'.wrapped = past.wrapped /\ past'.refused = past.refused
  BY <1>1, <1>2 DEF Pasts
<1> QED BY <1>3 DEF f

\* What an agent may do at the CONTROL agent's request
DataObeys ==
    \/ data' = data
    \/ data.state = "ACTIVE" /\ data'.state = "HALTED" /\ data'.notify
    \/ data'.state = "IDLE"

MoverObeys ==
    \/ mover' = mover
    \/ /\ mover.state \in {"LISTEN", "ACTIVE", "PAUSED"}
       /\ mover'.state = "HALTED" /\ mover'.notify /\ mover'.reading = mover.reading
    \/ mover'.state = "IDLE" /\ mover'.reading = mover.reading
    \/ /\ mover.state = "LISTEN" /\ mover'.state = "ACTIVE"
       /\ mover'.reading = mover.reading

LEMMA UnsaidKept ==
    ASSUME MonitorInv, DataObeys, MoverObeys, kind' = kind,
           \A n \in Notices : Left(n)' = Left(n), past'.wrapped = past.wrapped
    PROVE  Unsaid'
BY InvParts DEF Unsaid, DataObeys, MoverObeys, Notices

LEMMA NotWatching ==
    ASSUME MonitorInv, ca'.loop \notin {"startup", "monitor"},
           ca'.rc = ca.rc \/ ca'.rc # "failed",
           past'.expired >= past.expired, past'.expired \in Nat,
           past.faulty => past'.faulty
    PROVE  EarlyTurns' /\ CopiesFresh' /\ TurnsPaid'
<1>1. GivenUpOnlyWhenSlow'
  BY StillSlow
<1>2. ~Sound'
  BY DEF Sound, Before
<1> QED BY <1>1, <1>2 DEF EarlyTurns, CopiesFresh, TurnsPaid

LEMMA HaltIs ==
    ASSUME NEW reason \in Reasons
    PROVE  /\ \A d \in Datas :
                /\ Halt(d, reason) \in Datas
                /\ LET h == Halt(d, reason)
                   IN  h.state = "HALTED" /\ h.notify /\ h.reads = d.reads
                         /\ h.reason = reason /\ h.asking = d.asking
           /\ \A m \in Movers :
                /\ Halt(m, reason) \in Movers
                /\ LET h == Halt(m, reason)
                   IN  h.state = "HALTED" /\ h.notify /\ h.pauses = m.pauses
                         /\ h.reason = reason /\ h.reading = m.reading
BY DEF Halt, Datas, Movers, AgentStates

\* A step of the shutdown before the agents are stopped
ShutdownGoes ==
    /\ ca.loop = "shutdown" /\ ca.stage \notin {"stop_data", "stop_mover"}
    /\ ca' \in Cas /\ ca'.loop = "shutdown" /\ ca'.ds = ca.ds /\ ca'.ms = ca.ms
    /\ ca'.rc = ca.rc
    /\ \/ ca'.finish = ca.finish /\ ca'.stage \in {"wait", "abort_data", "abort_mover"}
       \/ StopBegins(ca, ca')
    /\ (DataObeys /\ data'.state # "IDLE") \/ data' = data
    /\ (MoverObeys /\ mover'.state # "IDLE") \/ mover' = mover
    /\ data' \in Datas /\ mover' \in Movers /\ wire' \in Wires
    /\ \A n \in Notices : Left(n)' = Left(n)
    /\ UNCHANGED <<kind, past>>

LEMMA ShutdownGoesStep ==
    ASSUME MonitorInv, ShutdownGoes
    PROVE  MonitorInv'
<1> USE InvParts DEF ShutdownGoes
<1>1. TypeOK'
  BY DEF TypeOK
<1>2. StagesFit'
  BY DEF StagesFit, Before, Unstopped, StopBegins
<1>3. Unsaid'
  <2>1. DataObeys /\ MoverObeys
    BY DEF DataObeys, MoverObeys
  <2> QED BY <2>1, UnsaidKept
<1>4. CopiesStand'
  BY EndingIs DEF CopiesStand, Unstopped, OkayMeansDone, StopBegins, DataObeys, MoverObeys
<1>5. Fits'
  BY DEF Fits, RequestsFit, Before, Sound, MoverObeys
<1>6. EarlyTurns' /\ CopiesFresh' /\ TurnsPaid'
  BY NotWatching DEF Pasts
<1> QED BY <1>1, <1>2, <1>3, <1>4, <1>5, <1>6 DEF MonitorInv, WatchInv

LEMMA ShutdownShape ==
    ASSUME MonitorInv, ShutdownDecides \/ AbortsData \/ AbortsMover
    PROVE  ShutdownGoes
<1> USE InvParts
<1>1. \A c \in Cas :
        c.loop = "shutdown" =>
          /\ Again(c) \in Cas /\ SameCopies(c, Again(c))
          /\ \/ TurnBegins(c, Again(c)) /\ Again(c).stage = "wait"
             \/ StopBegins(c, Again(c))
  BY AgainIs, FirstStages DEF GivenUp, LoopEnds, TurnBegins, Cas
<1>2. \A s \in Stages : LET c == [ca EXCEPT !.stage = s]
                        IN  /\ c \in Cas /\ c.stage = s /\ c.loop = ca.loop /\ c.ds = ca.ds
                            /\ c.ms = ca.ms /\ c.rc = ca.rc /\ c.finish = ca.finish
                            /\ c.pend = ca.pend
  BY DEF Cas
<1>3. {"abort_data", "abort_mover"} \subseteq Stages
  BY DEF Stages
<1>4. "ABORTED" \in Reasons
  BY DEF Reasons
<1>5. wire \in Wires
  BY DEF TypeOK
<1>6. CASE ShutdownDecides
  <2>1. UNCHANGED <<kind, data, mover, wire, past>>
        /\ ca.loop = "shutdown" /\ ca.stage = "decide"
    BY <1>6 DEF ShutdownDecides
  <2>2. /\ ca' \in Cas /\ ca'.pend = ca.pend /\ ca'.ds = ca.ds /\ ca'.ms = ca.ms
        /\ ca'.loop = "shutdown" /\ ca'.rc = ca.rc
        /\ \/ ca'.finish = ca.finish /\ ca'.stage \in {"wait", "abort_data", "abort_mover"}
           \/ StopBegins(ca, ca')
    <3>1. ca' \in {Stops(ca), [ca EXCEPT !.stage = "abort_data"], Again(ca)}
      BY <1>6 DEF ShutdownDecides
    <3>2. CASE ca' = Stops(ca)
      BY <3>2, <2>1, StopsIs DEF SameCopies, StopBegins
    <3>3. CASE ca' = [ca EXCEPT !.stage = "abort_data"]
      BY <3>3, <2>1, <1>2, <1>3
    <3>4. CASE ca' = Again(ca)
      BY <3>4, <2>1, <1>1 DEF SameCopies, StopBegins, TurnBegins
    <3> QED BY <3>1, <3>2, <3>3, <3>4
  <2>3. \A n \in Notices : Left(n)' = Left(n)
    BY <2>1, <2>2 DEF Left
  <2> QED BY <1>5, <2>1, <2>2, <2>3 DEF ShutdownGoes
<1>7. CASE AbortsData
  <2>1. ca.loop = "shutdown" /\ ca.stage = "abort_data" /\ UNCHANGED <<kind, mover>>
    BY <1>7 DEF AbortsData, StagesFit
  <2>2. CASE ca.ds.state # "HALTED"
    <3>1. Hears("data") /\ "data" \in Agents /\ "abort_mover" \in Stages
      BY <1>7, <2>2 DEF AbortsData, Agents, Stages
    <3>2. past' = past /\ wire' = [wire EXCEPT !["data"] = <<>>]
      BY <3>1, Hearsay DEF Hears
    <3>3. ca' = [Listens(ca, "data") EXCEPT !.stage = "abort_mover"]
      BY <1>7, <2>2 DEF AbortsData
    <3>4. /\ ca' \in Cas /\ ca'.pend = Listens(ca, "data").pend
          /\ ca'.loop = "shutdown" /\ ca'.ds = ca.ds /\ ca'.ms = ca.ms
          /\ ca'.rc = ca.rc /\ ca'.finish = ca.finish /\ ca'.stage = "abort_mover"
      <4>1. Listens(ca, "data") \in Cas
            /\ Listens(ca, "data") = [ca EXCEPT !.pend = Listens(ca, "data").pend]
        BY <3>1, Listened
      <4> QED BY <3>1, <3>3, <4>1, <2>1 DEF Cas
    <3>5. (\A n \in Notices : Left(n)' = Left(n)) /\ wire' \in Wires
      BY <3>1, <3>2, <3>4, Hearing
    <3>6. data' = data \/ (data' = Halt(data, "ABORTED") /\ data.state = "ACTIVE")
      BY <1>7, <2>2 DEF AbortsData
    <3>7. data' \in Datas /\ ((DataObeys /\ data'.state # "IDLE") \/ data' = data)
      BY <3>6, <1>4, HaltIs DEF DataObeys
    <3> QED BY <2>1, <3>2, <3>4, <3>5, <3>7 DEF ShutdownGoes
  <2>3. CASE ca.ds.state = "HALTED"
    <3>1. UNCHANGED <<data, wire, past>> /\ ca' = [ca EXCEPT !.stage = "abort_mover"]
      BY <1>7, <2>3 DEF AbortsData
    <3>2. \A n \in Notices : Left(n)' = Left(n)
      BY <1>2, <1>3, <3>1 DEF Left
    <3> QED BY <1>2, <1>3, <1>5, <2>1, <3>1, <3>2 DEF ShutdownGoes
  <2> QED BY <2>2, <2>3
<1>8. CASE AbortsMover
  <2>1. ca.loop = "shutdown" /\ ca.stage = "abort_mover" /\ UNCHANGED <<kind, data>>
    BY <1>8 DEF AbortsMover, StagesFit
  <2>2. ASSUME NEW c \in Cas, c.loop = "shutdown", c.ds = ca.ds, c.ms = ca.ms, c.rc = ca.rc,
               c.finish = ca.finish, ca' = Again(c)
        PROVE  /\ ca' \in Cas /\ ca'.pend = c.pend /\ ca'.ds = ca.ds /\ ca'.ms = ca.ms
               /\ ca'.loop = "shutdown" /\ ca'.rc = ca.rc
               /\ \/ ca'.finish = ca.finish
                       /\ ca'.stage \in {"wait", "abort_data", "abort_mover"}
                  \/ StopBegins(ca, ca')
    <3>1. Ending(c) = Ending(ca)
      BY <2>2 DEF Ending
    <3> QED BY <1>1, <2>1, <2>2, <3>1 DEF SameCopies, StopBegins, TurnBegins
  <2>3. CASE ca.ms.state # "HALTED"
    <3>1. Hears("mover") /\ "mover" \in Agents
      BY <1>8, <2>3 DEF AbortsMover, Agents
    <3>2. past' = past /\ wire' = [wire EXCEPT !["mover"] = <<>>]
      BY <3>1, Hearsay DEF Hears
    <3>3. ca' = Again(Listens(ca, "mover"))
      BY <1>8, <2>3 DEF AbortsMover
    <3>4. LET c == Listens(ca, "mover")
          IN  c \in Cas /\ c.loop = "shutdown" /\ c.ds = ca.ds /\ c.ms = ca.ms /\ c.rc = ca.rc
                /\ c.finish = ca.finish
      <4>1. Listens(ca, "mover") \in Cas
            /\ Listens(ca, "mover") = [ca EXCEPT !.pend = Listens(ca, "mover").pend]
        BY <3>1, Listened
      <4> QED BY <4>1, <2>1 DEF Cas
    <3>5. /\ ca' \in Cas /\ ca'.pend = Listens(ca, "mover").pend /\ ca'.ds = ca.ds
          /\ ca'.ms = ca.ms
          /\ ca'.loop = "shutdown" /\ ca'.rc = ca.rc
          /\ \/ ca'.finish = ca.finish
                  /\ ca'.stage \in {"wait", "abort_data", "abort_mover"}
             \/ StopBegins(ca, ca')
      BY <2>2, <3>3, <3>4
    <3>6. (\A n \in Notices : Left(n)' = Left(n)) /\ wire' \in Wires
      BY <3>1, <3>2, <3>5, Hearing
    <3>7. mover' = mover
          \/ /\ mover' = Halt(mover, "ABORTED")
             /\ mover.state \in {"LISTEN", "ACTIVE", "PAUSED"}
      BY <1>8, <2>3 DEF AbortsMover, Aborted
    <3>8. mover' \in Movers /\ ((MoverObeys /\ mover'.state # "IDLE") \/ mover' = mover)
      BY <3>7, <1>4, HaltIs DEF MoverObeys
    <3> QED BY <2>1, <3>2, <3>5, <3>6, <3>8 DEF ShutdownGoes
  <2>4. CASE ca.ms.state = "HALTED"
    <3>1. UNCHANGED <<mover, wire, past>> /\ ca' = Again(ca)
      BY <1>8, <2>4 DEF AbortsMover
    <3>2. /\ ca' \in Cas /\ ca'.pend = ca.pend /\ ca'.ds = ca.ds /\ ca'.ms = ca.ms
          /\ ca'.loop = "shutdown" /\ ca'.rc = ca.rc
          /\ \/ ca'.finish = ca.finish
                  /\ ca'.stage \in {"wait", "abort_data", "abort_mover"}
             \/ StopBegins(ca, ca')
      BY <2>1, <2>2, <3>1
    <3>3. \A n \in Notices : Left(n)' = Left(n)
      BY <3>1, <3>2 DEF Left
    <3> QED BY <1>5, <2>1, <3>1, <3>2, <3>3 DEF ShutdownGoes
  <2> QED BY <2>3, <2>4
<1> QED BY <1>6, <1>7, <1>8

LEMMA StoppedIs ==
    /\ \A d \in Datas : Stopped(d) \in Datas /\ (Stopped(d) = d \/ Stopped(d).state = "IDLE")
    /\ \A m \in Movers :
         /\ Stopped(m) \in Movers
         /\ Stopped(m) = m \/ (Stopped(m).state = "IDLE" /\ Stopped(m).reading = m.reading)
<1>1. "NA" \in Reasons /\ "IDLE" \in AgentStates
  BY DEF Reasons, AgentStates
<1>2. \A d \in Datas : Stopped(d) \in Datas /\ (Stopped(d) = d \/ Stopped(d).state = "IDLE")
  BY <1>1 DEF Stopped, Datas
<1>3. \A m \in Movers :
        /\ Stopped(m) \in Movers
        /\ Stopped(m) = m \/ (Stopped(m).state = "IDLE" /\ Stopped(m).reading = m.reading)
  BY <1>1 DEF Stopped, Movers
<1> QED BY <1>2, <1>3

\* The CONTROL agent's record once a connection has been read
LEMMA ListenedFields ==
    ASSUME MonitorInv, NEW a \in Agents
    PROVE  LET c == Listens(ca, a)
           IN  /\ c \in Cas /\ c.loop = ca.loop /\ c.stage = ca.stage /\ c.count = ca.count
               /\ c.ds = ca.ds /\ c.ms = ca.ms /\ c.rc = ca.rc /\ c.finish = ca.finish
               /\ c.failed = ca.failed /\ c.lost = ca.lost
               /\ \A n \in Notices : c.pend[n] = IF From(n) = a THEN Left(n) ELSE ca.pend[n]
<1>1. /\ Listens(ca, a) \in Cas
      /\ Listens(ca, a) = [ca EXCEPT !.pend = Listens(ca, a).pend]
      /\ \A n \in Notices :
           Listens(ca, a).pend[n] = IF From(n) = a THEN Left(n) ELSE ca.pend[n]
  BY InvParts, Listened
<1>2. ca \in Cas
  BY InvParts
<1> QED BY <1>1, <1>2 DEF Cas

LEMMA StopsDataStep ==
    ASSUME MonitorInv, StopsData
    PROVE  MonitorInv'
<1> USE InvParts
<1> DEFINE c == Listens(ca, "data")
<1>1. /\ ca.stage = "stop_data" /\ ca.loop = "shutdown" /\ UNCHANGED <<kind, mover>>
      /\ ca' = [c EXCEPT !.stage = "stop_mover"]
      /\ wire' = [wire EXCEPT !["data"] = <<>>]
  BY DEF StopsData, StagesFit
<1>2. "data" \in Agents /\ "stop_mover" \in Stages
  BY DEF Agents, Stages
<1>3. /\ c \in Cas /\ c.loop = ca.loop /\ c.ds = ca.ds /\ c.ms = ca.ms /\ c.rc = ca.rc
      /\ c.finish = ca.finish
  BY <1>2, ListenedFields
<1>4. /\ ca' \in Cas /\ ca'.pend = c.pend /\ ca'.loop = "shutdown" /\ ca'.stage = "stop_mover"
      /\ ca'.ds = ca.ds /\ ca'.ms = ca.ms /\ ca'.rc = ca.rc /\ ca'.finish = ca.finish
  <2> HIDE DEF c
  <2> QED BY <1>1, <1>2, <1>3 DEF Cas
<1>5. (\A n \in Notices : Left(n)' = Left(n)) /\ wire' \in Wires
  BY <1>1, <1>2, <1>4, Hearing
<1>6. data' \in Datas /\ (data' = data \/ data'.state = "IDLE")
  BY StoppedIs DEF StopsData
<1>7. /\ past' \in Pasts /\ past'.wrapped = past.wrapped /\ past'.mover = past.mover
      /\ past'.expired = past.expired /\ past'.refused = past.refused
      /\ past'.faulty = past.faulty
      /\ data.state = "HALTED" => past'.data = data.reason
  <2>1. ~Wraps(ca.pend, wire["data"])
    BY <1>2, Hearsay
  <2>2. data.reason \in Reasons
    BY DEF Datas
  <2> QED BY <2>1, <2>2 DEF StopsData, Pasts, Unsaid
<1> HIDE DEF c
<1>8. TypeOK'
  BY <1>1, <1>4, <1>5, <1>6, <1>7 DEF TypeOK
<1>9. StagesFit'
  BY <1>1, <1>4 DEF StagesFit, Before, Unstopped
<1>10. Unsaid'
  <2>1. DataObeys /\ MoverObeys
    BY <1>1, <1>6 DEF DataObeys, MoverObeys
  <2> QED BY <2>1, <1>1, <1>5, <1>7, UnsaidKept
<1>11. CopiesStand'
  BY <1>1, <1>4, <1>7 DEF CopiesStand, Unstopped, OkayMeansDone
<1>12. Fits'
  BY <1>1, <1>4, <1>7 DEF Fits, RequestsFit, Before, Sound
<1>13. EarlyTurns' /\ CopiesFresh' /\ TurnsPaid'
  BY <1>4, <1>7, NotWatching DEF Pasts
<1> QED BY <1>8, <1>9, <1>10, <1>11, <1>12, <1>13 DEF MonitorInv, WatchInv

LEMMA StopsMoverStep ==
    ASSUME MonitorInv, StopsMover
    PROVE  MonitorInv'
<1> USE InvParts
<1> DEFINE c == Listens(ca, "mover")
<1>1. /\ ca.stage = "stop_mover" /\ ca.loop = "shutdown" /\ UNCHANGED <<kind, data>>
      /\ ca' = Enter(c, "stopping")
      /\ wire' = [wire EXCEPT !["mover"] = <<>>]
  BY DEF StopsMover, StagesFit
<1>2. "mover" \in Agents /\ "stopping" \in Loops
  BY DEF Agents, Loops
<1>3. /\ c \in Cas /\ c.loop = ca.loop /\ c.ds = ca.ds /\ c.ms = ca.ms /\ c.rc = ca.rc
      /\ c.finish = ca.finish
  BY <1>2, ListenedFields
<1>4. /\ ca' \in Cas /\ ca'.pend = c.pend /\ ca'.loop = "stopping" /\ ca'.stage = "data"
      /\ ca'.ds = ca.ds /\ ca'.ms = ca.ms /\ ca'.rc = ca.rc /\ ca'.finish = ca.finish
  <2> HIDE DEF c
  <2> QED BY <1>1, <1>2, <1>3, EntersIs, FirstStages DEF SameCopies
<1>5. (\A n \in Notices : Left(n)' = Left(n)) /\ wire' \in Wires
  BY <1>1, <1>2, <1>4, Hearing
<1>6. /\ mover' \in Movers
      /\ mover' = mover \/ (mover'.state = "IDLE" /\ mover'.reading = mover.reading)
  BY StoppedIs DEF StopsMover
<1>7. /\ past' \in Pasts /\ past'.wrapped = past.wrapped /\ past'.data = past.data
      /\ past'.expired = past.expired /\ past'.refused = past.refused
      /\ past'.faulty = past.faulty
      /\ mover.state = "HALTED" => past'.mover = mover.reason
  <2>1. ~Wraps(ca.pend, wire["mover"])
    BY <1>2, Hearsay
  <2>2. mover.reason \in Reasons
    BY DEF Movers
  <2> QED BY <2>1, <2>2 DEF StopsMover, Pasts, Unsaid
<1> HIDE DEF c
<1>8. TypeOK'
  BY <1>1, <1>4, <1>5, <1>6, <1>7 DEF TypeOK
<1>9. StagesFit'
  BY <1>1, <1>4 DEF StagesFit, Before, Unstopped
<1>10. Unsaid'
  <2>1. DataObeys /\ MoverObeys
    BY <1>1, <1>6 DEF DataObeys, MoverObeys
  <2> QED BY <2>1, <1>1, <1>5, <1>7, UnsaidKept
<1>11. CopiesStand'
  BY <1>1, <1>4, <1>7 DEF CopiesStand, Unstopped, OkayMeansDone
<1>12. Fits'
  BY <1>1, <1>4, <1>6, <1>7 DEF Fits, RequestsFit, Before, Sound
<1>13. EarlyTurns' /\ CopiesFresh' /\ TurnsPaid'
  BY <1>4, <1>7, NotWatching DEF Pasts
<1> QED BY <1>8, <1>9, <1>10, <1>11, <1>12, <1>13 DEF MonitorInv, WatchInv

LEMMA StoppingDecidesStep ==
    ASSUME MonitorInv, StoppingDecides
    PROVE  MonitorInv'
<1> USE InvParts
<1>1. /\ UNCHANGED <<kind, data, mover, wire, past>>
      /\ ca.loop = "stopping" /\ ca.stage = "decide"
  BY DEF StoppingDecides
<1>2. /\ ca' \in Cas /\ ca'.pend = ca.pend /\ ca'.loop \in {"stopping", "ended"}
      /\ ca'.stage \in {"data", "decide"}
      /\ ca'.rc = ca.rc /\ ca'.finish \in {ca.finish, "failure"}
  <2>1. ca' \in {[ca EXCEPT !.loop = "ended"], Again(ca)}
    BY DEF StoppingDecides
  <2>2. CASE ca' = [ca EXCEPT !.loop = "ended"]
    BY <2>2, <1>1 DEF Cas, Loops
  <2>3. CASE ca' = Again(ca)
    BY <2>3, <1>1, AgainIs, FirstStages
       DEF SameCopies, TurnBegins, GivenUp, StopBegins, LoopEnds, Cas
  <2> QED BY <2>1, <2>2, <2>3
<1>3. \A n \in Notices : Left(n)' = Left(n)
  BY <1>1, <1>2 DEF Left
<1>4. TypeOK'
  BY <1>1, <1>2 DEF TypeOK
<1>5. StagesFit'
  BY <1>1, <1>2 DEF StagesFit, Before, Unstopped
<1>6. Unsaid'
  BY <1>1, <1>3, UnsaidKept DEF DataObeys, MoverObeys
<1>7. CopiesStand'
  BY <1>1, <1>2 DEF CopiesStand, Unstopped, OkayMeansDone
<1>8. Fits'
  BY <1>1, <1>2 DEF Fits, RequestsFit, Before, Sound
<1>9. EarlyTurns' /\ CopiesFresh' /\ TurnsPaid'
  BY <1>1, <1>2, NotWatching DEF Pasts
<1> QED BY <1>4, <1>5, <1>6, <1>7, <1>8, <1>9 DEF MonitorInv, WatchInv

-----------------------------------------------------------------------------
(* The states are asked for.                                                *)

\* What a call leaves of a copy, and of the connection
LEMMA CallIs ==
    ASSUME NEW c \in Cas, NEW a \in Agents, NEW outcome
    PROVE  LET d == Losing(c, a, outcome)
           IN  d \in Cas /\ d.pend = c.pend /\ d.loop = c.loop /\ d.stage = c.stage
               /\ d.count = c.count /\ d.ds = c.ds /\ d.ms = c.ms /\ d.rc = c.rc
               /\ d.finish = c.finish /\ d.failed = c.failed
<1>1. c.lost \cup {a} \in SUBSET Agents
  BY DEF Cas
<1> QED BY <1>1 DEF Losing, Cas

LEMMA CopyIs ==
    ASSUME NEW x, x.state \in AgentStates, x.reason \in Reasons, NEW outcome
    PROVE  /\ Copy(x, outcome) \in Copies
           /\ outcome = "ok" =>
                Copy(x, outcome).state = x.state /\ Copy(x, outcome).reason = x.reason
           /\ outcome # "ok" => Copy(x, outcome).state = "UNKNOWN"
BY DEF Copy, Unknown, Copies, AgentStates, Reasons

LEMMA GetsDataStep ==
    ASSUME MonitorInv, GetsData
    PROVE  MonitorInv'
<1> USE InvParts
<1>1. /\ ca.stage = "data" /\ ca.loop # "ended" /\ UNCHANGED <<kind, data, mover>>
      /\ "data" \in Agents /\ "mover" \in Stages
  BY DEF GetsData, Agents, Stages
<1>2. PICK outcome :
        /\ ca' = [Losing(Listens(ca, "data"), "data", outcome) EXCEPT
                    !.ds = Copy(data, outcome), !.failed = outcome = "gone", !.stage = "mover"]
        /\ HearsWith("data", outcome)
  BY DEF GetsData
<1>3. /\ past' \in Pasts /\ past'.faulty = (past.faulty \/ outcome # "ok")
      /\ past'.data = past.data /\ past'.mover = past.mover /\ past'.expired = past.expired
      /\ past'.wrapped = past.wrapped /\ past'.refused = past.refused
  BY <1>1, <1>2, HearsayPast
<1>4. /\ Copy(data, outcome) \in Copies
      /\ outcome = "ok" =>
           Copy(data, outcome).state = data.state /\ Copy(data, outcome).reason = data.reason
      /\ outcome # "ok" => Copy(data, outcome).state = "UNKNOWN"
  <2>1. data.state \in AgentStates /\ data.reason \in Reasons
    BY DEF Datas, AgentStates
  <2> QED BY <2>1, CopyIs
<1>5. /\ ca' \in Cas /\ ca'.stage = "mover" /\ ca'.ds = Copy(data, outcome)
      /\ ca'.failed = (outcome = "gone") /\ ca'.pend = Listens(ca, "data").pend
      /\ ca'.loop = ca.loop /\ ca'.count = ca.count /\ ca'.ms = ca.ms /\ ca'.rc = ca.rc
      /\ ca'.finish = ca.finish
      /\ \A n \in Notices : ca'.pend[n] = IF From(n) = "data" THEN Left(n) ELSE ca.pend[n]
  <2> DEFINE c == Listens(ca, "data")
             d == Losing(c, "data", outcome)
  <2>1. /\ c \in Cas /\ c.loop = ca.loop /\ c.count = ca.count /\ c.ms = ca.ms
        /\ c.rc = ca.rc /\ c.finish = ca.finish
        /\ \A n \in Notices : c.pend[n] = IF From(n) = "data" THEN Left(n) ELSE ca.pend[n]
    BY <1>1, ListenedFields
  <2>2. /\ d \in Cas /\ d.pend = c.pend /\ d.loop = c.loop /\ d.count = c.count
        /\ d.ms = c.ms /\ d.rc = c.rc /\ d.finish = c.finish
    <3> HIDE DEF c
    <3> QED BY <1>1, <2>1, CallIs
  <2>3. ca' = [d EXCEPT !.ds = Copy(data, outcome), !.failed = outcome = "gone",
                        !.stage = "mover"]
    BY <1>2
  <2> HIDE DEF c, d
  <2>4. /\ ca' \in Cas /\ ca'.stage = "mover" /\ ca'.ds = Copy(data, outcome)
        /\ ca'.failed = (outcome = "gone") /\ ca'.pend = d.pend /\ ca'.loop = d.loop
        /\ ca'.count = d.count /\ ca'.ms = d.ms /\ ca'.rc = d.rc /\ ca'.finish = d.finish
    BY <1>1, <1>4, <2>2, <2>3 DEF Cas
  <2>5. ca'.pend = c.pend
    BY <2>2, <2>4
  <2> QED BY <2>1, <2>2, <2>4, <2>5 DEF c
<1>6. (\A n \in Notices : Left(n)' = Left(n)) /\ wire' \in Wires
  BY <1>1, <1>2, <1>5, Hearing DEF HearsWith
<1> USE DEF Before, Unstopped, Sound
<1>7. TypeOK'
  BY <1>1, <1>3, <1>5, <1>6 DEF TypeOK
<1>8. StagesFit'
  BY <1>1, <1>5 DEF StagesFit
<1>9. Unsaid'
  BY <1>1, <1>3, <1>6, UnsaidKept DEF DataObeys, MoverObeys
<1>10. CopiesStand'
  BY <1>1, <1>3, <1>4, <1>5 DEF CopiesStand, OkayMeansDone
<1>11. Fits'
  BY <1>1, <1>3, <1>5, <1>6 DEF Fits, RequestsFit, Notices
<1>12. EarlyTurns'
  BY <1>1, <1>3, <1>4, <1>5, <1>6 DEF EarlyTurns, Fits, Datas, Notices
<1>13. CopiesFresh'
  BY <1>1, <1>3, <1>4, <1>5, <1>6
     DEF CopiesFresh, DataHeard, MoverHeard, Fits, Unsaid, Notices, From
<1>14. TurnsPaid'
  <2>1. GivenUpOnlyWhenSlow'
    BY <1>3, <1>5, StillSlow DEF Pasts
  <2>2. /\ ReadsPassed' = ReadsPassed /\ HaltsSpent' = HaltsSpent
        /\ PausesSpent' = PausesSpent /\ PauseOpen' = PauseOpen
    BY <1>1, <1>5, <1>6 DEF ReadsPassed, HaltsSpent, DataHeard, MoverHeard, PausesSpent,
       PauseOpen, InTurn, Notices, From
  <2>3. ReadWaits => ReadWaits'
    BY <1>1, <1>5 DEF ReadWaits, Unsaid, Notices, From
  <2>4. InTurn /\ InTurn'
    BY <1>1, <1>5 DEF InTurn
  <2>5. Paid => Paid'
    BY <1>3, <1>5, <2>2, <2>4 DEF Paid, One
  <2> QED BY <1>1, <1>3, <1>5, <2>1, <2>2, <2>3, <2>5 DEF TurnsPaid
<1> QED BY <1>7, <1>8, <1>9, <1>10, <1>11, <1>12, <1>13, <1>14 DEF MonitorInv, WatchInv

LEMMA AcceptedIs ==
    ASSUME NEW m \in Movers
    PROVE  /\ Accepted(m) \in Movers
           /\ Accepted(m).reading = m.reading /\ Accepted(m).pauses = m.pauses
           /\ Accepted(m).notify = m.notify /\ Accepted(m).reason = m.reason
           /\ Accepted(m).state # "LISTEN"
           /\ \/ Accepted(m) = m
              \/ m.state = "LISTEN" /\ Accepted(m).state = "ACTIVE"
BY DEF Accepted, Movers, AgentStates

\* The call for the mover's state, before what becomes of it is decided
MoverCalled(c, outcome) ==
    /\ ca.stage = "mover" /\ ca.loop # "ended" /\ UNCHANGED <<kind, data>>
    /\ c \in Cas /\ c.stage = "mover" /\ c.ms = Copy(mover, outcome)
    /\ c.loop = ca.loop /\ c.count = ca.count /\ c.ds = ca.ds /\ c.rc = ca.rc
    /\ c.finish = ca.finish /\ c.failed = ca.failed
    /\ \A n \in Notices : c.pend[n] = IF From(n) = "mover" THEN Left(n) ELSE ca.pend[n]
    /\ \A n \in Notices : LeftOf(c.pend, wire', n) = Left(n)
    /\ Copy(mover, outcome) \in Copies
    /\ outcome = "ok" =>
         Copy(mover, outcome).state = mover.state /\ Copy(mover, outcome).reason = mover.reason
    /\ outcome # "ok" => Copy(mover, outcome).state = "UNKNOWN"
    /\ past' \in Pasts /\ past'.faulty = (past.faulty \/ outcome # "ok")
    /\ past'.data = past.data /\ past'.mover = past.mover /\ past'.expired = past.expired
    /\ past'.wrapped = past.wrapped /\ past'.refused = past.refused
    /\ wire' \in Wires
    /\ mover' = Accepted(mover)
    /\ ca' = IF c.failed \/ outcome = "gone" THEN BrokenOff(c)
             ELSE [c EXCEPT !.stage = "decide"]

LEMMA GetsMoverShape ==
    ASSUME MonitorInv, GetsMover
    PROVE  \E c, outcome : MoverCalled(c, outcome)
<1> USE InvParts
<1>1. /\ ca.stage = "mover" /\ ca.loop # "ended" /\ UNCHANGED <<kind, data>>
      /\ mover' = Accepted(mover) /\ "mover" \in Agents
  BY DEF GetsMover, Agents
<1>2. PICK outcome :
        /\ LET c == [Losing(Listens(ca, "mover"), "mover", outcome)
                       EXCEPT !.ms = Copy(mover, outcome)]
           IN ca' = IF c.failed \/ outcome = "gone" THEN BrokenOff(c)
                    ELSE [c EXCEPT !.stage = "decide"]
        /\ HearsWith("mover", outcome)
  BY DEF GetsMover
<1> DEFINE l == Listens(ca, "mover")
           d == Losing(l, "mover", outcome)
           c == [d EXCEPT !.ms = Copy(mover, outcome)]
<1>3. /\ past' \in Pasts /\ past'.faulty = (past.faulty \/ outcome # "ok")
      /\ past'.data = past.data /\ past'.mover = past.mover /\ past'.expired = past.expired
      /\ past'.wrapped = past.wrapped /\ past'.refused = past.refused
  BY <1>1, <1>2, HearsayPast
<1>4. /\ Copy(mover, outcome) \in Copies
      /\ outcome = "ok" =>
           Copy(mover, outcome).state = mover.state /\ Copy(mover, outcome).reason = mover.reason
      /\ outcome # "ok" => Copy(mover, outcome).state = "UNKNOWN"
  <2>1. mover.state \in AgentStates /\ mover.reason \in Reasons
    BY DEF Movers
  <2> QED BY <2>1, CopyIs
<1>5. /\ l \in Cas /\ l.loop = ca.loop /\ l.stage = ca.stage /\ l.count = ca.count
      /\ l.ds = ca.ds /\ l.rc = ca.rc /\ l.finish = ca.finish /\ l.failed = ca.failed
      /\ \A n \in Notices : l.pend[n] = IF From(n) = "mover" THEN Left(n) ELSE ca.pend[n]
  BY <1>1, ListenedFields
<1>6. /\ d \in Cas /\ d.pend = l.pend /\ d.loop = l.loop /\ d.stage = l.stage
      /\ d.count = l.count /\ d.ds = l.ds /\ d.rc = l.rc /\ d.finish = l.finish
      /\ d.failed = l.failed
  <2> HIDE DEF l
  <2> QED BY <1>1, <1>5, CallIs
<1>7. /\ c \in Cas /\ c.pend = d.pend /\ c.loop = d.loop /\ c.stage = d.stage
      /\ c.count = d.count /\ c.ds = d.ds /\ c.rc = d.rc /\ c.finish = d.finish
      /\ c.failed = d.failed /\ c.ms = Copy(mover, outcome)
  <2> HIDE DEF d
  <2> QED BY <1>4, <1>6 DEF Cas
<1>8. ca' = IF c.failed \/ outcome = "gone" THEN BrokenOff(c)
            ELSE [c EXCEPT !.stage = "decide"]
  BY <1>2
<1>9. /\ wire' = [wire EXCEPT !["mover"] = <<>>] /\ wire' \in Wires
      /\ \A n \in Notices : LeftOf(l.pend, wire', n) = Left(n)
  <2>1. wire' = [wire EXCEPT !["mover"] = <<>>]
    BY <1>2 DEF HearsWith
  <2> QED BY <1>1, <2>1, Listened
<1>10. c.pend = l.pend
  <2> HIDE DEF c, d, l
  <2> QED BY <1>6, <1>7
<1> HIDE DEF c, d, l
<1>11. MoverCalled(c, outcome)
  BY <1>1, <1>3, <1>4, <1>5, <1>6, <1>7, <1>8, <1>9, <1>10 DEF MoverCalled
<1> QED BY <1>11

\* A loop whose states cannot be had breaks off
LEMMA GetsMoverFails ==
    ASSUME MonitorInv, NEW c, NEW outcome, MoverCalled(c, outcome), ca' = BrokenOff(c),
           c.failed \/ outcome = "gone"
    PROVE  MonitorInv'
<1> USE InvParts DEF MoverCalled
<1>1. /\ ca' \in Cas /\ ca'.ds = ca.ds /\ ca'.ms = c.ms /\ ca'.pend = c.pend
      /\ \/ ca.loop \in {"startup", "monitor"} /\ GivenUp(c, ca')
         \/ StopBegins(c, ca')
         \/ LoopEnds(c, ca')
  <2>1. c.loop \in Loops
    BY DEF Cas
  <2> QED BY <2>1, BrokenOffIs DEF SameCopies, Loops
<1>2. /\ mover' \in Movers /\ mover'.state # "LISTEN"
      /\ mover'.reading = mover.reading
      /\ mover' = mover \/ (mover.state = "LISTEN" /\ mover'.state = "ACTIVE")
  BY AcceptedIs
<1>3. \A n \in Notices : Left(n)' = Left(n)
  BY <1>1 DEF Left
<1> USE DEF Before, Unstopped, GivenUp, StopBegins, LoopEnds
<1>4. TypeOK'
  BY <1>1, <1>2 DEF TypeOK
<1>5. StagesFit'
  BY <1>1 DEF StagesFit
<1>6. Unsaid'
  <2>1. DataObeys /\ MoverObeys
    BY <1>2 DEF DataObeys, MoverObeys
  <2> QED BY <1>3, <2>1, UnsaidKept
<1>7. CopiesStand'
  BY <1>1, <1>2, EndingIs DEF CopiesStand, OkayMeansDone
<1>8. Fits'
  BY <1>1, <1>2 DEF Fits, RequestsFit, Sound
<1>9. EarlyTurns' /\ CopiesFresh' /\ TurnsPaid'
  <2>1. ca'.loop \notin {"startup", "monitor"}
    BY <1>1
  <2>2. CASE ca'.rc = ca.rc
    BY <2>1, <2>2, NotWatching DEF Pasts
  <2>3. CASE ca'.rc # ca.rc
    <3>1. ca.loop \in {"startup", "monitor"}
      BY <1>1, <2>3
    <3>2. past'.faulty
      BY <3>1 DEF Fits, Sound
    <3>3. GivenUpOnlyWhenSlow'
      BY <3>2 DEF GivenUpOnlyWhenSlow
    <3> QED BY <2>1, <3>3 DEF EarlyTurns, CopiesFresh, TurnsPaid, Sound
  <2> QED BY <2>2, <2>3
<1> QED BY <1>4, <1>5, <1>6, <1>7, <1>8, <1>9 DEF MonitorInv, WatchInv

LEMMA GetsMoverGoesOn ==
    ASSUME MonitorInv, NEW c, NEW outcome, MoverCalled(c, outcome),
           ca' = [c EXCEPT !.stage = "decide"]
    PROVE  MonitorInv'
<1> USE InvParts
<1>1. /\ ca.stage = "mover" /\ ca.loop # "ended" /\ UNCHANGED <<kind, data>>
      /\ ca' \in Cas /\ ca'.ds = ca.ds /\ ca'.stage = "decide" /\ ca'.loop = ca.loop
      /\ ca'.count = ca.count /\ ca'.pend = c.pend
      /\ ca'.rc = ca.rc /\ ca'.finish = ca.finish /\ ca'.failed = ca.failed
      /\ past' \in Pasts /\ (past.faulty => past'.faulty)
      /\ past'.data = past.data /\ past'.mover = past.mover /\ past'.expired = past.expired
      /\ past'.wrapped = past.wrapped /\ past'.refused = past.refused
      /\ wire' \in Wires
      /\ \/ past'.faulty /\ ca'.ms.state = "UNKNOWN"
         \/ ca'.ms.state = mover.state /\ ca'.ms.reason = mover.reason
  <2>1. c \in Cas /\ "decide" \in Stages
    BY DEF MoverCalled, Stages
  <2>2. /\ ca' \in Cas /\ ca'.stage = "decide" /\ ca'.ds = c.ds /\ ca'.loop = c.loop
        /\ ca'.count = c.count /\ ca'.pend = c.pend /\ ca'.ms = c.ms
        /\ ca'.rc = c.rc /\ ca'.finish = c.finish /\ ca'.failed = c.failed
    BY <2>1 DEF Cas
  <2>3. \/ past'.faulty /\ c.ms.state = "UNKNOWN"
        \/ c.ms.state = mover.state /\ c.ms.reason = mover.reason
    BY DEF MoverCalled
  <2> QED BY <2>2, <2>3 DEF MoverCalled
<1>2. /\ mover' \in Movers /\ mover'.state # "LISTEN"
      /\ mover'.reading = mover.reading /\ mover'.pauses = mover.pauses
      /\ mover'.notify = mover.notify
      /\ mover' = mover \/ (mover.state = "LISTEN" /\ mover'.state = "ACTIVE")
  BY AcceptedIs DEF MoverCalled
<1>3. \A n \in Notices : Left(n)' = Left(n)
  BY <1>1 DEF Left, MoverCalled
<1>4. \A n \in Notices :
        ca'.pend[n] = IF From(n) = "mover" THEN Left(n) ELSE ca.pend[n]
  BY <1>1 DEF MoverCalled
<1> USE DEF Before, Unstopped, Sound
<1>5. TypeOK'
  BY <1>1, <1>2 DEF TypeOK
<1>6. StagesFit'
  BY <1>1 DEF StagesFit
<1>7. Unsaid'
  <2>1. DataObeys /\ MoverObeys
    BY <1>1, <1>2 DEF DataObeys, MoverObeys
  <2> QED BY <1>1, <1>3, <2>1, UnsaidKept
<1>8. CopiesStand'
  BY <1>1, <1>2 DEF CopiesStand, OkayMeansDone
<1>9. Fits'
  BY <1>1, <1>2, <1>3 DEF Fits, RequestsFit, Notices
<1>10. EarlyTurns'
  BY <1>1, <1>2, <1>3 DEF EarlyTurns, Fits, Movers, Notices
<1>11. CopiesFresh'
  BY <1>1, <1>2, <1>3, <1>4
     DEF CopiesFresh, DataHeard, MoverHeard, Fits, Unsaid, Notices, From
<1>12. TurnsPaid'
  <2>1. GivenUpOnlyWhenSlow'
    BY <1>1, StillSlow DEF Pasts
  <2>2. ReadsPassed' = ReadsPassed /\ HaltsSpent' = HaltsSpent /\ PauseOpen' = PauseOpen
    BY <1>1, <1>2, <1>3 DEF ReadsPassed, HaltsSpent, DataHeard, MoverHeard, PauseOpen, Notices
  <2>3. InTurn /\ InTurn'
    BY <1>1 DEF InTurn
  <2>4. PausesSpent' >= PausesSpent /\ PausesSpent' \in Int /\ PausesSpent \in Int
    <3>1. ca.pend["mover_paused"] = 1 => ca'.pend["mover_paused"] = 1
      BY <1>4 DEF Unsaid, Notices, From
    <3>2. mover.pauses \in Nat
      BY DEF Movers
    <3> QED BY <1>2, <2>2, <2>3, <3>1, <3>2, MonitorAssumption DEF PausesSpent, One
  <2>5. Paid => Paid'
    <3>1. ReadsPassed \in Int /\ HaltsSpent \in Int
      BY MonitorAssumption DEF ReadsPassed, HaltsSpent, One, Datas, Notices
    <3>2. ca.count \in Nat /\ past.expired \in Nat
      BY DEF Cas, Pasts, Turns
    <3> HIDE DEF ReadsPassed, HaltsSpent, PausesSpent
    <3> QED BY <1>1, <2>2, <2>3, <2>4, <3>1, <3>2 DEF Paid, One
  <2>6. ReadWaits => ReadWaits'
    BY <1>1, <1>4 DEF ReadWaits, Notices, From
  <2> QED BY <1>1, <1>2, <2>1, <2>2, <2>5, <2>6 DEF TurnsPaid
<1> QED BY <1>5, <1>6, <1>7, <1>8, <1>9, <1>10, <1>11, <1>12 DEF MonitorInv, WatchInv

LEMMA GetsMoverStep ==
    ASSUME MonitorInv, GetsMover
    PROVE  MonitorInv'
<1>1. PICK c, outcome : MoverCalled(c, outcome)
  BY GetsMoverShape
<1>2. CASE c.failed \/ outcome = "gone"
  BY <1>1, <1>2, GetsMoverFails DEF MoverCalled
<1>3. CASE ~(c.failed \/ outcome = "gone")
  BY <1>1, <1>3, GetsMoverGoesOn DEF MoverCalled
<1> QED BY <1>2, <1>3

-----------------------------------------------------------------------------
(* The waits.                                                               *)

\* What ends a wait pays for the turn that it begins
WaitPaid ==
    \/ past'.expired >= Slow \/ past'.expired = past.expired + 1
    \/ ca.pend["data_read"] = 1 \/ ca.pend["mover_paused"] = 1
    \/ ca.pend["data_halted"] = 1 /\ Left("data_halted")' = 0
    \/ ca.pend["mover_halted"] = 1 /\ Left("mover_halted")' = 0

WaitEnds ==
    /\ ca.stage = "wait" /\ UNCHANGED <<kind, data, mover>>
    /\ ca' \in Cas /\ ca'.ds = ca.ds /\ ca'.ms = ca.ms
    /\ \/ /\ ca.loop \in {"monitor", "shutdown"} /\ ca'.loop = ca.loop
          /\ ca'.stage = "data" /\ ca'.count = ca.count /\ ca'.rc = ca.rc
          /\ ca'.finish = ca.finish /\ ca'.failed = ca.failed
       \/ /\ ca.loop = "startup" /\ ca'.loop = ca.loop
          /\ ca'.stage = "data" /\ ca'.count = ca.count + 1 /\ ca'.rc = ca.rc
          /\ ca'.finish = ca.finish /\ ~ca'.failed
       \/ ca.loop = "startup" /\ ca.count = Turns - 1 /\ GivenUp(ca, ca')
    /\ wire' \in Wires
    /\ \A n \in {"data_read", "mover_paused"} :
         Left(n)' = Left(n) /\ (ca.pend[n] = 1 => ca'.pend[n] = 1)
    /\ \A n \in {"data_halted", "mover_halted"} :
         Left(n)' \in {Left(n), Left(n) - ca.pend[n]}
    /\ past' \in Pasts /\ past'.data = past.data /\ past'.mover = past.mover
    /\ past'.faulty = past.faulty /\ past'.wrapped = past.wrapped
    /\ past'.refused = past.refused /\ past'.expired >= past.expired
    /\ ca.loop = "monitor" => WaitPaid

LEMMA WaitEndsPaid ==
    ASSUME MonitorInv, WaitEnds, Sound, ca.loop = "monitor",
           past.expired >= Slow \/ Paid \/ ReadWaits
    PROVE  past'.expired >= Slow \/ Paid' \/ ReadWaits'
<1> USE InvParts DEF Notices
<1>1. /\ ca.stage = "wait" /\ UNCHANGED <<kind, data, mover>> /\ WaitPaid
      /\ ca'.stage = "data" /\ ca'.count = ca.count
      /\ past'.expired >= past.expired
      /\ past.expired \in Nat /\ past'.expired \in Nat /\ ca.count \in Nat
      /\ Slow \in Int
  BY MonitorAssumption DEF WaitEnds, Pasts, Cas, Turns, Slow
<1>2. Left("data_read")' = Left("data_read") /\ Left("mover_paused")' = Left("mover_paused")
      /\ (ca.pend["data_read"] = 1 => ca'.pend["data_read"] = 1)
      /\ (ca.pend["mover_paused"] = 1 => ca'.pend["mover_paused"] = 1)
      /\ Left("data_halted")' \in {Left("data_halted"), Left("data_halted") - ca.pend["data_halted"]}
      /\ Left("mover_halted")' \in
           {Left("mover_halted"), Left("mover_halted") - ca.pend["mover_halted"]}
  BY DEF WaitEnds
<1>3. ReadsPassed' = ReadsPassed /\ ReadsPassed \in Int
  BY <1>1, <1>2, MonitorAssumption DEF ReadsPassed, Datas
<1>4. ~InTurn /\ InTurn'
  BY <1>1 DEF InTurn
<1>5. /\ PausesSpent \in Int /\ PausesSpent' \in Int /\ PausesSpent' >= PausesSpent
      /\ ca.pend["mover_paused"] = 1 => PausesSpent' = PausesSpent + 1
  <2>1. PauseOpen' = PauseOpen /\ (ca.pend["mover_paused"] = 1 => PauseOpen)
    BY <1>1, <1>2 DEF PauseOpen, Unsaid
  <2>2. mover.pauses \in Nat
    BY DEF Movers
  <2> HIDE DEF PauseOpen
  <2> QED BY <1>1, <1>2, <1>4, <2>1, <2>2, MonitorAssumption DEF PausesSpent, One
<1>6. /\ HaltsSpent \in Int /\ HaltsSpent' \in Int /\ HaltsSpent' >= HaltsSpent
      /\ ca.pend["data_halted"] = 1 /\ Left("data_halted")' = 0 =>
           HaltsSpent' >= HaltsSpent + 1
      /\ ca.pend["mover_halted"] = 1 /\ Left("mover_halted")' = 0 =>
           HaltsSpent' >= HaltsSpent + 1
  <2>1. (DataHeard => DataHeard') /\ (MoverHeard => MoverHeard')
    BY <1>1, <1>2 DEF DataHeard, MoverHeard
  <2>2. ca.pend["data_halted"] = 1 /\ Left("data_halted")' = 0 => ~DataHeard /\ DataHeard'
    BY <1>1, <1>2 DEF DataHeard, Unsaid, Fits, Datas
  <2>3. ca.pend["mover_halted"] = 1 /\ Left("mover_halted")' = 0 => ~MoverHeard /\ MoverHeard'
    BY <1>1, <1>2 DEF MoverHeard, Unsaid, Fits, Movers, AgentStates
  <2> HIDE DEF DataHeard, MoverHeard
  <2> QED BY <2>1, <2>2, <2>3 DEF HaltsSpent, One
<1>7. CASE past.expired >= Slow
  BY <1>1, <1>7
<1>8. CASE ReadWaits
  BY <1>1, <1>2, <1>8 DEF ReadWaits
<1>9. CASE Paid
  <2>1. ca.count <= 1 + ReadsPassed + PausesSpent + HaltsSpent + past.expired
    <3>1. One(InTurn) = 0
      BY <1>4 DEF One
    <3> HIDE DEF ReadsPassed, PausesSpent, HaltsSpent, InTurn, One
    <3> QED BY <1>1, <1>9, <3>1 DEF Paid
  <2>2. ca.count + 1 <= 1 + ReadsPassed' + PausesSpent' + HaltsSpent' + past'.expired
          => Paid'
    BY <1>1, <1>4 DEF Paid, One
  <2>3. CASE ca.pend["data_read"] = 1
    BY <1>1, <1>2, <2>3 DEF ReadWaits
  <2>4. CASE past'.expired >= Slow
    BY <2>4
  <2>5. CASE \/ past'.expired = past.expired + 1 \/ ca.pend["mover_paused"] = 1
             \/ ca.pend["data_halted"] = 1 /\ Left("data_halted")' = 0
             \/ ca.pend["mover_halted"] = 1 /\ Left("mover_halted")' = 0
    <3>1. ca.count + 1 <= 1 + ReadsPassed' + PausesSpent' + HaltsSpent' + past'.expired
      <4> HIDE DEF ReadsPassed, PausesSpent, HaltsSpent
      <4> QED BY <1>1, <1>3, <1>5, <1>6, <2>1, <2>5
    <3> QED BY <2>2, <3>1
  <2> QED BY <1>1, <2>3, <2>4, <2>5 DEF WaitPaid
<1> QED BY <1>7, <1>8, <1>9

LEMMA WaitEndsStep ==
    ASSUME MonitorInv, WaitEnds
    PROVE  MonitorInv'
<1> USE InvParts DEF Sound, Before, Unstopped
<1>1. /\ ca.stage = "wait" /\ UNCHANGED <<kind, data, mover>>
      /\ ca' \in Cas /\ ca'.ds = ca.ds /\ ca'.ms = ca.ms /\ wire' \in Wires
      /\ past' \in Pasts /\ past'.data = past.data /\ past'.mover = past.mover
      /\ past'.faulty = past.faulty /\ past'.wrapped = past.wrapped
      /\ past'.refused = past.refused /\ past'.expired >= past.expired
  BY DEF WaitEnds
<1>2. \/ /\ ca.loop \in {"monitor", "shutdown"} /\ ca'.loop = ca.loop
         /\ ca'.stage = "data" /\ ca'.count = ca.count /\ ca'.rc = ca.rc
         /\ ca'.finish = ca.finish /\ ca'.failed = ca.failed
      \/ /\ ca.loop = "startup" /\ ca'.loop = ca.loop
         /\ ca'.stage = "data" /\ ca'.count = ca.count + 1 /\ ca'.rc = ca.rc
         /\ ca'.finish = ca.finish /\ ~ca'.failed
      \/ /\ ca.loop = "startup" /\ ca.count = Turns - 1 /\ ca'.loop = "shutdown"
         /\ ca'.stage = "wait" /\ ca'.rc = "failed" /\ ca'.finish = ca.finish
  BY DEF WaitEnds, GivenUp
<1>3. /\ Left("data_read")' = Left("data_read")
      /\ Left("mover_paused")' = Left("mover_paused")
      /\ Left("data_halted")' <= Left("data_halted") /\ Left("data_halted")' \in Nat
      /\ Left("mover_halted")' <= Left("mover_halted") /\ Left("mover_halted")' \in Nat
  BY DEF WaitEnds, Notices
<1>4. TypeOK'
  BY <1>1 DEF TypeOK
<1>5. StagesFit'
  BY <1>1, <1>2 DEF StagesFit
<1>6. Unsaid'
  BY <1>1, <1>3 DEF Unsaid, Notices
<1>7. CopiesStand'
  BY <1>1, <1>2 DEF CopiesStand, OkayMeansDone
<1>8. Fits'
  BY <1>1, <1>2, <1>3 DEF Fits, RequestsFit
<1>9. EarlyTurns'
  BY <1>1, <1>2, <1>3 DEF EarlyTurns, Fits
<1>10. CopiesFresh'
  BY <1>1, <1>2, <1>3 DEF CopiesFresh
<1>11. TurnsPaid'
  <2>1. GivenUpOnlyWhenSlow'
    <3>1. CASE ca'.rc = ca.rc
      BY <1>1, <3>1, StillSlow DEF Pasts
    <3>2. CASE ca'.rc # ca.rc
      <4>1. ca.loop = "startup" /\ ca.count = Turns - 1
        BY <1>2, <3>2
      <4>2. past'.faulty
        BY <1>1, <4>1 DEF EarlyTurns, Turns
      <4> QED BY <4>2 DEF GivenUpOnlyWhenSlow
    <3> QED BY <3>1, <3>2
  <2>2. /\ ReadsPassed' = ReadsPassed /\ PauseOpen' = PauseOpen
        /\ mover'.pauses = mover.pauses
    BY <1>1, <1>3 DEF ReadsPassed, PauseOpen
  <2>3. Sound' => Sound /\ ca.loop = ca'.loop
    BY <1>1, <1>2
  <2>4. Sound' /\ ca'.loop = "monitor" => past'.expired >= Slow \/ Paid' \/ ReadWaits'
    BY <2>3, WaitEndsPaid DEF TurnsPaid
  <2> QED BY <2>1, <2>2, <2>3, <2>4 DEF TurnsPaid
<1> QED BY <1>4, <1>5, <1>6, <1>7, <1>8, <1>9, <1>10, <1>11 DEF MonitorInv, WatchInv

\* A wait that has ended leads to the states being asked for, or in the startup to a turn
LEMMA AfterWaitIs ==
    ASSUME NEW c \in Cas, c.loop \in {"startup", "monitor", "shutdown"}
    PROVE  LET d == AfterWait(c)
           IN  /\ d \in Cas /\ SameCopies(c, d)
               /\ \/ /\ c.loop \in {"monitor", "shutdown"} /\ d.loop = c.loop
                     /\ d.stage = "data" /\ d.count = c.count /\ d.rc = c.rc
                     /\ d.finish = c.finish /\ d.failed = c.failed
                  \/ /\ c.loop = "startup" /\ d.loop = c.loop
                     /\ d.stage = "data" /\ d.count = c.count + 1 /\ d.rc = c.rc
                     /\ d.finish = c.finish /\ ~d.failed
                  \/ c.loop = "startup" /\ c.count = Turns - 1 /\ GivenUp(c, d)
<1>1. "data" \in Stages
  BY DEF Stages
<1>2. CASE c.loop = "startup"
  BY <1>2, AgainIs, FirstStages DEF AfterWait, TurnBegins, StopBegins, LoopEnds, Loops
<1>3. CASE c.loop # "startup"
  BY <1>1, <1>3 DEF AfterWait, Cas, SameCopies
<1> QED BY <1>2, <1>3

\* A turn of the wait dispatches at most one message of each connection
LEMMA WaitTurnsShape ==
    ASSUME MonitorInv, WaitTurns
    PROVE  \E c \in Cas :
             /\ ca.stage = "wait" /\ UNCHANGED <<kind, data, mover, past>>
             /\ wire' \in Wires
             /\ c = [ca EXCEPT !.pend = c.pend, !.turned = TRUE]
             /\ \A n \in {"data_halted", "mover_halted"} :
                  LeftOf(c.pend, wire', n) = Left(n) - ca.pend[n]
             /\ \A n \in {"data_read", "mover_paused"} :
                  LeftOf(c.pend, wire', n) = Left(n) /\ (ca.pend[n] = 1 => c.pend[n] = 1)
             /\ ca' = IF Pending THEN AfterWait(c) ELSE c
<1> USE InvParts
<1>1. PICK ready \in SUBSET {a \in Agents : wire[a] # <<>>} :
        LET heads == [i \in 1 .. Cardinality(ready) |->
                        Head(wire[IF i = 1 /\ "data" \in ready THEN "data" ELSE "mover"])]
            c == [ca EXCEPT !.pend = Noticed(Woken(@), heads), !.turned = TRUE]
        IN /\ Pending \/ ready # {}
           /\ ca' = IF Pending THEN AfterWait(c) ELSE c
           /\ wire' = [a \in Agents |-> IF a \in ready THEN Tail(wire[a]) ELSE wire[a]]
           /\ past' = [past EXCEPT !.wrapped = @ \/ Wraps(Woken(ca.pend), heads)]
  BY DEF WaitTurns
<1> DEFINE heads == [i \in 1 .. Cardinality(ready) |->
                       Head(wire[IF i = 1 /\ "data" \in ready THEN "data" ELSE "mover"])]
           p == Noticed(Woken(ca.pend), heads)
           v == [a \in Agents |-> IF a \in ready THEN Tail(wire[a]) ELSE wire[a]]
           c == [ca EXCEPT !.pend = p, !.turned = TRUE]
<1>2. ca.pend \in Bits /\ wire \in Wires /\ \A n \in Notices : LeftOf(ca.pend, wire, n) <= 1
  BY DEF TypeOK, Cas, Unsaid, Left
<1>3. /\ p \in Bits /\ v \in Wires /\ ~Wraps(Woken(ca.pend), heads)
      /\ \A n \in {"data_halted", "mover_halted"} :
           LeftOf(p, v, n) = LeftOf(ca.pend, wire, n) - ca.pend[n]
      /\ \A n \in {"data_read", "mover_paused"} :
           LeftOf(p, v, n) = LeftOf(ca.pend, wire, n) /\ (ca.pend[n] = 1 => p[n] = 1)
  BY <1>2, Waited
<1>4. /\ ca' = IF Pending THEN AfterWait(c) ELSE c
      /\ wire' = v
      /\ past' = [past EXCEPT !.wrapped = @ \/ Wraps(Woken(ca.pend), heads)]
  BY <1>1
<1>5. ca.stage = "wait" /\ UNCHANGED <<kind, data, mover>>
  BY DEF WaitTurns
<1> HIDE DEF heads, p, v
<1>6. past' = past
  BY <1>3, <1>4 DEF Pasts, Unsaid
<1>7. c \in Cas /\ c.pend = p /\ c = [ca EXCEPT !.pend = c.pend, !.turned = TRUE]
  BY <1>3 DEF Cas
<1> HIDE DEF c
<1> QED BY <1>3, <1>4, <1>5, <1>6, <1>7 DEF Left

LEMMA WaitTurnsEnds ==
    ASSUME MonitorInv, WaitTurns, Pending
    PROVE  WaitEnds
<1> USE InvParts
<1>1. PICK c \in Cas :
        /\ ca.stage = "wait" /\ UNCHANGED <<kind, data, mover, past>>
        /\ wire' \in Wires
        /\ c = [ca EXCEPT !.pend = c.pend, !.turned = TRUE]
        /\ \A n \in {"data_halted", "mover_halted"} :
             LeftOf(c.pend, wire', n) = Left(n) - ca.pend[n]
        /\ \A n \in {"data_read", "mover_paused"} :
             LeftOf(c.pend, wire', n) = Left(n) /\ (ca.pend[n] = 1 => c.pend[n] = 1)
        /\ ca' = IF Pending THEN AfterWait(c) ELSE c
  BY WaitTurnsShape
<1>2. /\ c.loop = ca.loop /\ c.stage = "wait" /\ c.count = ca.count /\ c.rc = ca.rc
      /\ c.finish = ca.finish /\ c.failed = ca.failed /\ c.ds = ca.ds /\ c.ms = ca.ms
  BY <1>1 DEF Cas
<1>3. ca.loop \in {"startup", "monitor", "shutdown"}
  BY <1>1 DEF StagesFit, Unstopped
<1>4. ca' = AfterWait(c)
  BY <1>1
<1>5. /\ ca' \in Cas /\ ca'.ds = ca.ds /\ ca'.ms = ca.ms /\ ca'.pend = c.pend
      /\ \/ /\ ca.loop \in {"monitor", "shutdown"} /\ ca'.loop = ca.loop
            /\ ca'.stage = "data" /\ ca'.count = ca.count /\ ca'.rc = ca.rc
            /\ ca'.finish = ca.finish /\ ca'.failed = ca.failed
         \/ /\ ca.loop = "startup" /\ ca'.loop = ca.loop
            /\ ca'.stage = "data" /\ ca'.count = ca.count + 1 /\ ca'.rc = ca.rc
            /\ ca'.finish = ca.finish /\ ~ca'.failed
         \/ ca.loop = "startup" /\ ca.count = Turns - 1 /\ GivenUp(ca, ca')
  BY <1>2, <1>3, <1>4, AfterWaitIs DEF SameCopies, GivenUp
<1>6. WaitPaid
  <2>1. \A n \in {"data_halted", "mover_halted"} :
           ca.pend[n] = 1 => Left(n)' = 0
    <3>1. \A n \in {"data_halted", "mover_halted"} :
             /\ Left(n)' = Left(n) - ca.pend[n] /\ Left(n) \in Nat /\ Left(n) <= 1
             /\ ca.pend[n] <= Left(n)
      BY <1>1, <1>5 DEF Left, Unsaid, Notices
    <3> QED BY <3>1
  <2>2. /\ ca.pend["data_halted"] = 1 => Left("data_halted")' = 0
        /\ ca.pend["mover_halted"] = 1 => Left("mover_halted")' = 0
    BY <2>1
  <2>3. \E n \in Notices : ca.pend[n] = 1
    BY DEF Pending
  <2>4. \/ ca.pend["data_read"] = 1 \/ ca.pend["mover_paused"] = 1
        \/ ca.pend["data_halted"] = 1 \/ ca.pend["mover_halted"] = 1
    BY <2>3 DEF Notices
  <2> QED BY <2>2, <2>4, Zenon DEF WaitPaid
<1>7. /\ \A n \in {"data_read", "mover_paused"} :
           Left(n)' = Left(n) /\ (ca.pend[n] = 1 => ca'.pend[n] = 1)
      /\ \A n \in {"data_halted", "mover_halted"} : Left(n)' = Left(n) - ca.pend[n]
  BY <1>1, <1>5 DEF Left
<1>8. past' = past /\ past' \in Pasts /\ past.expired \in Nat
  BY <1>1 DEF Pasts
<1>9. past'.expired >= past.expired
  BY <1>8
<1> QED BY <1>1, <1>5, <1>6, <1>7, <1>8, <1>9 DEF WaitEnds

LEMMA WaitExpiresEnds ==
    ASSUME MonitorInv, WaitExpires
    PROVE  WaitEnds
<1> USE InvParts
<1>1. ca.stage = "wait" /\ UNCHANGED <<kind, data, mover, wire>> /\ ca' = AfterWait(ca)
      /\ past' = [past EXCEPT !.expired = IF ca.rc = "none" /\ @ < Slow THEN @ + 1 ELSE @]
  BY DEF WaitExpires
<1>2. ca.loop \in {"startup", "monitor", "shutdown"}
  BY <1>1 DEF StagesFit, Unstopped
<1>3. /\ ca' \in Cas /\ ca'.ds = ca.ds /\ ca'.ms = ca.ms /\ ca'.pend = ca.pend
      /\ \/ /\ ca.loop \in {"monitor", "shutdown"} /\ ca'.loop = ca.loop
            /\ ca'.stage = "data" /\ ca'.count = ca.count /\ ca'.rc = ca.rc
            /\ ca'.finish = ca.finish /\ ca'.failed = ca.failed
         \/ /\ ca.loop = "startup" /\ ca'.loop = ca.loop
            /\ ca'.stage = "data" /\ ca'.count = ca.count + 1 /\ ca'.rc = ca.rc
            /\ ca'.finish = ca.finish /\ ~ca'.failed
         \/ ca.loop = "startup" /\ ca.count = Turns - 1 /\ GivenUp(ca, ca')
  BY <1>1, <1>2, AfterWaitIs DEF SameCopies
<1>4. /\ past' \in Pasts /\ past'.data = past.data /\ past'.mover = past.mover
      /\ past'.faulty = past.faulty /\ past'.wrapped = past.wrapped
      /\ past'.refused = past.refused /\ past'.expired >= past.expired
      /\ ca.rc = "none" => past'.expired >= Slow \/ past'.expired = past.expired + 1
  <2>1. Slow \in Int
    BY MonitorAssumption DEF Slow, Turns
  <2> HIDE DEF Slow
  <2> QED BY <1>1, <2>1 DEF Pasts
<1>5. ca.loop = "monitor" => WaitPaid
  BY <1>4 DEF WaitPaid, StagesFit, Before
<1>6. \A n \in Notices : Left(n)' = Left(n)
  BY <1>1, <1>3 DEF Left
<1>7. wire \in Wires
  BY DEF TypeOK
<1> QED BY <1>1, <1>3, <1>4, <1>5, <1>6, <1>7 DEF WaitEnds, Notices

\* Nothing was pending: what has come is noted, and the wait goes on
LEMMA WaitGoesOn ==
    ASSUME MonitorInv, WaitTurns, ~Pending
    PROVE  MonitorInv'
<1> USE InvParts
<1>1. PICK c \in Cas :
        /\ ca.stage = "wait" /\ UNCHANGED <<kind, data, mover, past>>
        /\ wire' \in Wires
        /\ c = [ca EXCEPT !.pend = c.pend, !.turned = TRUE]
        /\ \A n \in {"data_halted", "mover_halted"} :
             LeftOf(c.pend, wire', n) = Left(n) - ca.pend[n]
        /\ \A n \in {"data_read", "mover_paused"} :
             LeftOf(c.pend, wire', n) = Left(n) /\ (ca.pend[n] = 1 => c.pend[n] = 1)
        /\ ca' = IF Pending THEN AfterWait(c) ELSE c
  BY WaitTurnsShape
<1>2. /\ ca' \in Cas /\ ca'.pend = c.pend /\ ca'.loop = ca.loop /\ ca'.stage = "wait"
      /\ ca'.count = ca.count
      /\ ca'.rc = ca.rc /\ ca'.finish = ca.finish /\ ca'.failed = ca.failed
      /\ ca'.ds = ca.ds /\ ca'.ms = ca.ms
  BY <1>1 DEF Cas
<1>3. \A n \in Notices : Left(n)' = Left(n)
  <2>1. \A n \in Notices : ca.pend[n] = 0
    BY DEF Pending
  <2>2. \A n \in Notices : Left(n)' = LeftOf(c.pend, wire', n)
    BY <1>2 DEF Left
  <2> QED BY <1>1, <2>1, <2>2 DEF Notices
<1> USE DEF Sound, Before, Unstopped
<1>4. TypeOK'
  BY <1>1, <1>2 DEF TypeOK
<1>5. StagesFit'
  BY <1>1, <1>2 DEF StagesFit
<1>6. Unsaid'
  BY <1>1, <1>3 DEF Unsaid, Notices
<1>7. CopiesStand'
  BY <1>1, <1>2 DEF CopiesStand, OkayMeansDone
<1>8. Fits'
  BY <1>1, <1>2, <1>3 DEF Fits, RequestsFit, Notices
<1>9. EarlyTurns'
  BY <1>1, <1>2, <1>3 DEF EarlyTurns, Notices
<1>10. CopiesFresh'
  BY <1>1, <1>2, <1>3 DEF CopiesFresh, Notices
<1>11. TurnsPaid'
  <2>1. GivenUpOnlyWhenSlow'
    BY <1>1, <1>2, StillSlow DEF Pasts
  <2>2. ~InTurn /\ ~InTurn' /\ PauseOpen' = PauseOpen
    BY <1>1, <1>2, <1>3 DEF InTurn, PauseOpen, Notices
  <2>3. ReadsPassed' = ReadsPassed /\ HaltsSpent' = HaltsSpent /\ PausesSpent' = PausesSpent
    BY <1>1, <1>3, <2>2
       DEF ReadsPassed, HaltsSpent, DataHeard, MoverHeard, PausesSpent, Notices
  <2>4. ~ReadWaits
    BY DEF ReadWaits, Pending, Notices
  <2>5. Paid => Paid'
    BY <1>1, <1>2, <2>2, <2>3 DEF Paid, One
  <2> QED BY <1>1, <1>2, <2>1, <2>2, <2>3, <2>4, <2>5 DEF TurnsPaid
<1> QED BY <1>4, <1>5, <1>6, <1>7, <1>8, <1>9, <1>10, <1>11 DEF MonitorInv, WatchInv

LEMMA WaitStep ==
    ASSUME MonitorInv, WaitTurns \/ WaitExpires
    PROVE  MonitorInv'
BY WaitEndsStep, WaitTurnsEnds, WaitExpiresEnds, WaitGoesOn

LEMMA StartupDecidesStep ==
    ASSUME MonitorInv, StartupDecides
    PROVE  MonitorInv'
<1> USE InvParts
<1>1. /\ ca.loop = "startup" /\ ca.stage = "decide"
      /\ UNCHANGED <<kind, data, mover, wire, past>>
  BY DEF StartupDecides
<1>2. /\ ca' \in Cas /\ ca'.pend = ca.pend /\ ca'.ds = ca.ds /\ ca'.ms = ca.ms
      /\ ca'.rc = ca.rc /\ ca'.finish = ca.finish
      /\ ~Sound \/ ~ca'.failed
      /\ \/ /\ ca'.loop = "monitor" /\ ca'.count = 0
            /\ ca'.stage = IF kind = "recover" THEN "top" ELSE "wait"
         \/ ~Started(ca) /\ ca'.loop = "startup" /\ ca'.stage = "wait" /\ ca'.count = ca.count
  <2>1. CASE Started(ca)
    <3>1. "monitor" \in Loops
      BY DEF Loops
    <3> QED BY <2>1, <3>1, EntersIs, FirstStages DEF StartupDecides, SameCopies
  <2>2. CASE ~Started(ca)
    BY <1>1, <2>2 DEF StartupDecides, Cas, Stages, Fits
  <2> QED BY <2>1, <2>2
<1>3. \A n \in Notices : Left(n)' = Left(n)
  BY <1>1, <1>2 DEF Left
<1> USE DEF Sound, Before, Unstopped
<1>4. TypeOK'
  BY <1>1, <1>2 DEF TypeOK
<1>5. StagesFit'
  BY <1>1, <1>2 DEF StagesFit
<1>6. Unsaid'
  BY <1>1, <1>3, UnsaidKept DEF DataObeys, MoverObeys
<1>7. CopiesStand'
  BY <1>1, <1>2 DEF CopiesStand, OkayMeansDone
<1>8. Fits'
  BY <1>1, <1>2, <1>3 DEF Fits, RequestsFit, Notices
<1>9. EarlyTurns'
  <2>1. Sound /\ ~Started(ca) => ca.count = 0
    BY <1>1 DEF EarlyTurns, Started, AgentStates, Cas, Turns
  <2> QED BY <1>1, <1>2, <1>3, <2>1 DEF EarlyTurns, Fits, Notices
<1>10. CopiesFresh'
  BY <1>1, <1>2, <1>3 DEF CopiesFresh, EarlyTurns, Notices
<1>11. TurnsPaid'
  <2>1. GivenUpOnlyWhenSlow'
    BY <1>1, <1>2, StillSlow DEF Pasts
  <2>2. ReadsPassed' = ReadsPassed /\ PauseOpen' = PauseOpen
    BY <1>1, <1>3 DEF ReadsPassed, PauseOpen, Notices
  <2>3. Sound /\ ca'.loop = "monitor" => Paid'
    <3>1. ASSUME Sound, ca'.loop = "monitor" PROVE Paid'
      <4>1. ca'.count = 0 /\ ~InTurn' /\ past'.expired \in Nat
        BY <1>1, <1>2, <3>1 DEF InTurn, Pasts
      <4>2. 0 <= ReadsPassed' /\ ReadsPassed' \in Int
        BY <1>1, <2>2, <3>1, MonitorAssumption DEF TurnsPaid, ReadsPassed, Datas, Notices
      <4>3. PausesSpent' \in Nat
        <5>1. PausesSpent' = Pauses - mover.pauses - One(PauseOpen)
          BY <1>1, <2>2, <4>1 DEF PausesSpent, One
        <5>2. mover.pauses + One(PauseOpen) <= Pauses
          BY <3>1 DEF TurnsPaid
        <5>3. mover.pauses \in Nat /\ One(PauseOpen) \in Nat
          BY DEF Movers, One
        <5> HIDE DEF One, PauseOpen, PausesSpent
        <5> QED BY <5>1, <5>2, <5>3, MonitorAssumption
      <4>4. HaltsSpent' \in Nat
        BY DEF HaltsSpent, One
      <4>5. One(InTurn') = 0
        BY <4>1 DEF One
      <4> HIDE DEF PausesSpent, ReadsPassed, HaltsSpent, One, InTurn
      <4> QED BY <4>1, <4>2, <4>3, <4>4, <4>5 DEF Paid
    <3> QED BY <3>1
  <2> QED BY <1>1, <1>2, <2>1, <2>2, <2>3 DEF TurnsPaid
<1> QED BY <1>4, <1>5, <1>6, <1>7, <1>8, <1>9, <1>10, <1>11 DEF MonitorInv, WatchInv

-----------------------------------------------------------------------------
(* The decisions of the monitor.                                            *)

\* What a decision may do to the mover, and what it leaves of the notices
MoverTurned ==
    /\ mover' \in Movers
    /\ mover'.reading = mover.reading /\ mover'.pauses = mover.pauses
    /\ \/ mover' = mover
       \/ /\ mover.state \in {"ACTIVE", "PAUSED"}
          /\ mover'.state = "HALTED" /\ mover'.notify
       \/ mover.state = "PAUSED" /\ mover'.state = "ACTIVE" /\ Left("mover_paused")' = 0
    /\ Left("data_halted")' = Left("data_halted")
    /\ Left("data_read")' \in {Left("data_read"), 0}
    /\ Left("mover_halted")' = Left("mover_halted")
    /\ Left("mover_paused")' \in {Left("mover_paused"), 0}

LEMMA TurnedUnsaid ==
    ASSUME MonitorInv, MoverTurned, UNCHANGED <<kind, data>>, past'.wrapped = past.wrapped
    PROVE  Unsaid'
BY InvParts DEF Unsaid, MoverTurned, Notices

\* The monitor gives the operation up
GivesItUp ==
    /\ ca.loop = "monitor" /\ UNCHANGED <<kind, data>>
    /\ ca' \in Cas /\ ca'.ds = ca.ds /\ ca'.ms = ca.ms /\ GivenUp(ca, ca')
    /\ wire' \in Wires /\ MoverTurned
    /\ past' \in Pasts /\ past'.data = past.data /\ past'.mover = past.mover
    /\ past'.expired = past.expired /\ past'.wrapped = past.wrapped
    /\ past.faulty => past'.faulty
    /\ past'.refused => past'.faulty
    /\ past'.faulty \/ past'.expired >= Slow

LEMMA GivesItUpStep ==
    ASSUME MonitorInv, GivesItUp
    PROVE  MonitorInv'
<1> USE InvParts DEF GivesItUp, GivenUp, Before, Unstopped, Sound
<1>1. TypeOK'
  BY DEF TypeOK, MoverTurned
<1>2. StagesFit'
  BY DEF StagesFit
<1>3. Unsaid'
  BY TurnedUnsaid
<1>4. CopiesStand'
  BY DEF CopiesStand, OkayMeansDone, MoverTurned, StagesFit
<1>5. Fits'
  BY DEF Fits, RequestsFit, MoverTurned
<1>6. EarlyTurns' /\ CopiesFresh' /\ TurnsPaid'
  BY DEF EarlyTurns, CopiesFresh, TurnsPaid, GivenUpOnlyWhenSlow
<1> QED BY <1>1, <1>2, <1>3, <1>4, <1>5, <1>6 DEF MonitorInv, WatchInv

\* The news of both halts never leaves the monitor with a decision but Done, so the
\* last turn comes only when waits have expired
LEMMA LastTurnIsSlow ==
    ASSUME MonitorInv, Deciding, Sound, ~BothActive, ~(DataHeard /\ MoverHeard),
           ca.count = Turns - 1
    PROVE  past.expired >= Slow
<1> USE InvParts
<1>1. ca.loop = "monitor" /\ ca.stage = "decide"
  BY DEF Deciding
<1>2. past.expired >= Slow \/ Paid \/ ReadWaits
  BY <1>1 DEF TurnsPaid
<1>3. ~ReadWaits
  BY <1>1 DEF ReadWaits, CopiesFresh, BothActive
<1>4. CASE Paid
  <2>1. One(InTurn) = 1
    BY <1>1 DEF One, InTurn
  <2>2. HaltsSpent \in Int /\ HaltsSpent <= 1
    BY DEF HaltsSpent, One
  <2>3. ReadsPassed \in Int /\ ReadsPassed <= Reads
    BY MonitorAssumption DEF ReadsPassed, Datas, Notices
  <2>4. PausesSpent \in Int /\ PausesSpent <= Pauses
    BY MonitorAssumption DEF PausesSpent, Movers, One
  <2>5. past.expired \in Nat
    BY DEF Pasts
  <2>6. ca.count = 9
    BY DEF Turns
  <2>7. 9 + 1 <= 1 + ReadsPassed + PausesSpent + HaltsSpent + past.expired
    BY <1>4, <2>1, <2>6 DEF Paid
  <2>8. Slow = 8 - Pauses - Reads
    BY MonitorAssumption DEF Slow, Turns
  <2> HIDE DEF ReadsPassed, PausesSpent, HaltsSpent, Slow
  <2> QED BY <2>2, <2>3, <2>4, <2>5, <2>7, <2>8, MonitorAssumption
<1> QED BY <1>2, <1>3, <1>4

\* A turn of the monitor ends and the next begins
NextTurn ==
    /\ Deciding /\ UNCHANGED <<kind, data, past>>
    /\ ca' \in Cas /\ ca'.ds = ca.ds /\ ca'.ms = ca.ms
    /\ ca'.pend["data_read"] = ca.pend["data_read"]
    /\ ca'.loop = ca.loop /\ ca'.rc = ca.rc /\ ca'.finish = ca.finish /\ ~ca'.failed
    /\ ca'.stage = IF kind = "recover" THEN "top" ELSE "wait"
    /\ ca'.count = IF BothActive THEN 1 ELSE ca.count + 1
    /\ wire' \in Wires /\ MoverTurned
    /\ Left("data_read")' = Left("data_read")
    /\ mover' # mover /\ mover'.state = "HALTED" =>
         \/ ca.ds.state = "HALTED"
         \/ mover.state = "PAUSED" /\ Left("mover_paused")' = 0
    /\ Sound /\ ~BothActive => ~(ca.pend["mover_paused"] = 1 /\ PauseOpen')

LEMMA NextTurnPaid ==
    ASSUME MonitorInv, NextTurn, Sound
    PROVE  /\ ReadsPassed' = ReadsPassed /\ One(PauseOpen)' <= One(PauseOpen)
           /\ past.expired >= Slow \/ Paid'
<1> USE InvParts DEF NextTurn, Deciding
<1>1. ReadsPassed' = ReadsPassed /\ 0 <= ReadsPassed /\ ReadsPassed \in Int
  BY MonitorAssumption DEF ReadsPassed, TurnsPaid, Datas, Notices
<1>2. One(PauseOpen)' <= One(PauseOpen)
  BY DEF One, PauseOpen, MoverTurned
<1>3. ~InTurn' /\ InTurn /\ ca.loop = "monitor"
  BY DEF InTurn
<1>4. PausesSpent' = Pauses - mover.pauses - One(PauseOpen)' /\ mover.pauses \in Nat
      /\ One(PauseOpen) \in {0, 1} /\ One(PauseOpen)' \in {0, 1}
      /\ mover.pauses + One(PauseOpen) <= Pauses
  BY <1>3 DEF PausesSpent, One, MoverTurned, Movers, TurnsPaid
<1>5. PausesSpent' \in Nat
  <2> HIDE DEF PauseOpen, One, PausesSpent
  <2> QED BY <1>2, <1>4, MonitorAssumption
<1>6. HaltsSpent' \in Nat /\ HaltsSpent \in Nat /\ HaltsSpent' >= HaltsSpent
  <2>1. (DataHeard => DataHeard') /\ (MoverHeard => MoverHeard')
    BY DEF DataHeard, MoverHeard, MoverTurned
  <2> QED BY <2>1 DEF HaltsSpent, One
<1>7. past.expired \in Nat /\ ca.count \in Nat /\ One(InTurn)' = 0 /\ One(InTurn) = 1
  BY <1>3 DEF Pasts, Cas, Turns, One
<1>8. CASE BothActive
  <2> HIDE DEF ReadsPassed, PausesSpent, HaltsSpent, One, InTurn
  <2> QED BY <1>1, <1>2, <1>5, <1>6, <1>7, <1>8 DEF Paid
<1>9. CASE ~BothActive
  <2>1. past.expired >= Slow \/ Paid
    BY <1>3, <1>9 DEF TurnsPaid, ReadWaits, CopiesFresh, BothActive
  <2>2. PausesSpent \in Int /\ PausesSpent' >= PausesSpent
    <3>1. CASE ca.pend["mover_paused"] = 1
      <4>1. One(PauseOpen)' = 0
        BY <1>9, <3>1 DEF One
      <4>2. PausesSpent = Pauses - mover.pauses
        BY <1>3, <3>1, <1>4, MonitorAssumption DEF PausesSpent, One
      <4> QED BY <1>4, <4>1, <4>2, MonitorAssumption
    <3>2. CASE ca.pend["mover_paused"] # 1
      <4>1. PausesSpent = Pauses - mover.pauses - One(PauseOpen)
        BY <3>2 DEF PausesSpent, One
      <4> HIDE DEF PauseOpen, One, PausesSpent
      <4> QED BY <1>2, <1>4, <4>1, MonitorAssumption
    <3> QED BY <3>1, <3>2
  <2> HIDE DEF ReadsPassed, PausesSpent, HaltsSpent, One, InTurn
  <2>3. CASE Paid
    <3>1. ca.count + 1 <= 1 + ReadsPassed + PausesSpent + HaltsSpent + past.expired
      BY <1>7, <2>3 DEF Paid
    <3>2. ca'.count = ca.count + 1 /\ past'.expired = past.expired
      BY <1>9
    <3> HIDE InvParts, <1>9 DEF NextTurn, Deciding
    <3>3. ca'.count <= 1 + ReadsPassed' + PausesSpent' + HaltsSpent' + past'.expired
      BY <1>1, <1>5, <1>6, <1>7, <2>2, <3>1, <3>2
    <3>4. ca'.count + One(InTurn)' = ca'.count
      BY <1>7, <3>2
    <3> QED BY <1>1, <1>2, <3>3, <3>4 DEF Paid
  <2>4. CASE past.expired >= Slow
    BY <1>1, <1>2, <2>4
  <2> QED BY <2>1, <2>3, <2>4
<1> QED BY <1>8, <1>9

LEMMA NextTurnStep ==
    ASSUME MonitorInv, NextTurn
    PROVE  MonitorInv'
<1> USE InvParts DEF NextTurn, Deciding, Before, Unstopped, Sound
<1>1. TypeOK'
  BY DEF TypeOK, MoverTurned
<1>2. StagesFit'
  BY DEF StagesFit
<1>3. Unsaid'
  BY TurnedUnsaid
<1>4. CopiesStand'
  BY DEF CopiesStand, OkayMeansDone, MoverTurned
<1>5. Fits'
  BY DEF Fits, RequestsFit, MoverTurned, CopiesStand
<1>6. EarlyTurns'
  BY DEF EarlyTurns, Cas, Turns
<1>7. CopiesFresh'
  BY DEF CopiesFresh, MoverTurned, BothActive, CopiesStand, Unsaid, Notices
<1>8. TurnsPaid'
  <2>1. GivenUpOnlyWhenSlow'
    BY StillSlow DEF Pasts
  <2>2. CASE Sound
    <3>1. /\ ReadsPassed' = ReadsPassed /\ One(PauseOpen)' <= One(PauseOpen)
          /\ past.expired >= Slow \/ Paid'
      BY <2>2, NextTurnPaid
    <3>2. mover'.pauses + One(PauseOpen)' <= Pauses
      <4>1. mover'.pauses = mover.pauses /\ mover.pauses \in Nat
            /\ mover.pauses + One(PauseOpen) <= Pauses
            /\ One(PauseOpen) \in {0, 1} /\ One(PauseOpen)' \in {0, 1}
        BY <2>2 DEF MoverTurned, Movers, TurnsPaid, One
      <4> HIDE DEF PauseOpen, One
      <4> QED BY <3>1, <4>1, MonitorAssumption
    <3> QED BY <2>1, <2>2, <3>1, <3>2 DEF TurnsPaid
  <2>3. CASE ~Sound
    BY <2>1, <2>3 DEF TurnsPaid
  <2> QED BY <2>2, <2>3
<1> QED BY <1>1, <1>2, <1>3, <1>4, <1>5, <1>6, <1>7, <1>8 DEF MonitorInv, WatchInv

LEMMA AgainInMonitor ==
    ASSUME NEW c \in Cas, c.loop = "monitor"
    PROVE  LET d == Again(c)
           IN  /\ d \in Cas /\ SameCopies(c, d)
               /\ \/ /\ d.loop = c.loop /\ d.count = c.count + 1 /\ d.rc = c.rc
                     /\ d.finish = c.finish /\ ~d.failed
                     /\ d.stage = IF kind = "recover" THEN "top" ELSE "wait"
                  \/ c.count = Turns - 1 /\ GivenUp(c, d)
BY AgainIs, FirstStages DEF TurnBegins, StopBegins, LoopEnds, Loops

\* A decision that ends the turn, whether or not another one is left
LEMMA DecidedStep ==
    ASSUME MonitorInv, Deciding, ~BothActive, UNCHANGED <<kind, data, past>>,
           NEW c \in Cas, ca' = Again(c),
           c.loop = ca.loop /\ c.count = ca.count /\ c.ds = ca.ds /\ c.ms = ca.ms
             /\ c.rc = ca.rc /\ c.finish = ca.finish
             /\ c.pend["data_read"] = ca.pend["data_read"],
           wire' \in Wires, MoverTurned, Left("data_read")' = Left("data_read"),
           mover' # mover /\ mover'.state = "HALTED" =>
             \/ ca.ds.state = "HALTED"
             \/ mover.state = "PAUSED" /\ Left("mover_paused")' = 0,
           Sound => ~(ca.pend["mover_paused"] = 1 /\ PauseOpen'),
           Sound => ~(DataHeard /\ MoverHeard)
    PROVE  MonitorInv'
<1> USE InvParts
<1>1. c.loop = "monitor"
  BY DEF Deciding
<1>2. /\ ca' \in Cas /\ SameCopies(c, ca')
      /\ \/ /\ ca'.loop = c.loop /\ ca'.count = c.count + 1 /\ ca'.rc = c.rc
            /\ ca'.finish = c.finish /\ ~ca'.failed
            /\ ca'.stage = IF kind = "recover" THEN "top" ELSE "wait"
         \/ c.count = Turns - 1 /\ GivenUp(c, ca')
  BY <1>1, AgainInMonitor
<1>3. ca'.ds = ca.ds /\ ca'.ms = ca.ms /\ ca'.pend["data_read"] = ca.pend["data_read"]
  BY <1>2 DEF SameCopies
<1>4. CASE /\ ca'.loop = c.loop /\ ca'.count = c.count + 1 /\ ca'.rc = c.rc
           /\ ca'.finish = c.finish /\ ~ca'.failed
           /\ ca'.stage = IF kind = "recover" THEN "top" ELSE "wait"
  <2>1. NextTurn
    BY <1>2, <1>3, <1>4 DEF NextTurn
  <2> QED BY <2>1, NextTurnStep
<1>5. CASE c.count = Turns - 1 /\ GivenUp(c, ca')
  <2>1. past.faulty \/ past.expired >= Slow
    BY <1>1, <1>5, LastTurnIsSlow DEF Sound, Before
  <2>2. past.refused => past.faulty
    BY DEF Fits, RequestsFit
  <2>3. GivesItUp
    BY <1>1, <1>2, <1>3, <1>5, <2>1, <2>2 DEF GivesItUp, GivenUp
  <2> QED BY <2>3, GivesItUpStep
<1> QED BY <1>2, <1>4, <1>5

\* What is noticed of the mover is in its copy
LEMMA HeardIsCopied ==
    ASSUME MonitorInv, Deciding, Sound
    PROVE  /\ DataHeard => ca.ds.state = "HALTED"
           /\ MoverHeard => ca.ms.state = "HALTED"
           /\ ca.pend["mover_paused"] = 1 =>
                \/ ca.ms.state = "PAUSED"
                \/ ca.ds.state = "HALTED" /\ ca.ms.state = "HALTED"
<1> USE InvParts
<1>1. ca.loop = "monitor" /\ ca.stage = "decide"
  BY DEF Deciding
<1>2. ca.pend["mover_paused"] = 1 => Left("mover_paused") = 1
  BY DEF Unsaid, Notices
<1>3. mover.state \in {"LISTEN", "ACTIVE", "PAUSED", "HALTED"}
  BY DEF Movers, AgentStates, Fits
<1> QED BY <1>1, <1>2, <1>3 DEF CopiesFresh, Unsaid

\* The wire and the mover are left alone
LEMMA TurnedAlone ==
    ASSUME MonitorInv, UNCHANGED <<mover, wire>>, ca'.pend = ca.pend
    PROVE  /\ MoverTurned /\ wire' \in Wires
           /\ \A n \in Notices : Left(n)' = Left(n)
<1> USE InvParts
<1>1. \A n \in Notices : Left(n)' = Left(n)
  BY DEF Left
<1> QED BY <1>1 DEF MoverTurned, TypeOK, Notices

LEMMA GoesOnStep ==
    ASSUME MonitorInv, GoesOn
    PROVE  MonitorInv'
<1> USE InvParts
<1> DEFINE c == [ca EXCEPT !.count = 0]
<1>1. /\ Deciding /\ BothActive /\ UNCHANGED <<kind, data, mover, wire, past>>
      /\ ca' = Again(c)
  BY DEF GoesOn, Afresh
<1>2. /\ c \in Cas /\ c.loop = "monitor" /\ c.count = 0 /\ c.ds = ca.ds /\ c.ms = ca.ms
      /\ c.rc = ca.rc /\ c.finish = ca.finish /\ c.pend = ca.pend
  BY <1>1 DEF Cas, Deciding, Turns
<1> HIDE DEF c
<1>3. /\ ca' \in Cas /\ SameCopies(c, ca')
      /\ ca'.loop = c.loop /\ ca'.count = 1 /\ ca'.rc = c.rc
      /\ ca'.finish = c.finish /\ ~ca'.failed
      /\ ca'.stage = IF kind = "recover" THEN "top" ELSE "wait"
  BY <1>1, <1>2, AgainInMonitor DEF Turns
<1>4. NextTurn
  <2>1. ca'.pend = ca.pend
    BY <1>2, <1>3 DEF SameCopies
  <2>2. MoverTurned /\ wire' \in Wires /\ Left("data_read")' = Left("data_read")
    BY <1>1, <2>1, TurnedAlone DEF Notices
  <2> QED BY <1>1, <1>2, <1>3, <2>1, <2>2 DEF NextTurn, SameCopies, Deciding
<1> QED BY <1>4, NextTurnStep

LEMMA AwaitsPauseNoticeStep ==
    ASSUME MonitorInv, AwaitsPauseNotice
    PROVE  MonitorInv'
<1> USE InvParts
<1>1. /\ Deciding /\ ca.ms.state = "PAUSED" /\ ca.pend["mover_paused"] = 0
      /\ ca' = Again(ca) /\ UNCHANGED <<kind, data, mover, wire, past>>
  BY DEF AwaitsPauseNotice
<1>2. ca'.pend = ca.pend
  BY <1>1, AgainIs DEF SameCopies
<1>3. MoverTurned /\ wire' \in Wires /\ Left("data_read")' = Left("data_read")
  BY <1>1, <1>2, TurnedAlone DEF Notices
<1>4. ~BothActive /\ (Sound => ~MoverHeard)
  BY <1>1, HeardIsCopied DEF BothActive
<1> QED BY <1>1, <1>3, <1>4, DecidedStep

LEMMA AwaitsDataStep ==
    ASSUME MonitorInv, AwaitsData
    PROVE  MonitorInv'
<1> USE InvParts
<1>1. /\ Deciding /\ ~BothActive /\ ca.ms.state # "PAUSED" /\ ca.ds.state # "HALTED"
      /\ UNCHANGED <<kind, data, mover, wire, past>>
      /\ ca' = IF Unreasonable THEN GivesUp(ca) ELSE Again(ca)
  BY DEF AwaitsData, Resting
<1>2. CASE Unreasonable
  <2>1. ca' \in Cas /\ SameCopies(ca, ca') /\ GivenUp(ca, ca')
    BY <1>1, <1>2, GivesUpIs
  <2>2. MoverTurned /\ wire' \in Wires
    BY <1>1, <2>1, TurnedAlone DEF SameCopies
  <2>3. past.faulty
    BY <1>1, <1>2 DEF Unreasonable, EarlyTurns, Deciding, Sound, Before, AgentStates
  <2>4. GivesItUp
    BY <1>1, <2>1, <2>2, <2>3 DEF GivesItUp, SameCopies, Deciding
  <2> QED BY <2>4, GivesItUpStep
<1>3. CASE ~Unreasonable
  <2>1. ca' = Again(ca)
    BY <1>1, <1>3
  <2>2. ca'.pend = ca.pend
    BY <2>1, AgainIs DEF SameCopies
  <2>3. MoverTurned /\ wire' \in Wires /\ Left("data_read")' = Left("data_read")
    BY <1>1, <2>2, TurnedAlone DEF Notices
  <2>4. Sound => ~DataHeard /\ ca.pend["mover_paused"] # 1
    BY <1>1, HeardIsCopied
  <2> QED BY <1>1, <2>1, <2>3, <2>4, DecidedStep
<1> QED BY <1>2, <1>3

LEMMA AwaitsMoverStep ==
    ASSUME MonitorInv, AwaitsMover
    PROVE  MonitorInv'
<1> USE InvParts
<1>1. /\ Deciding /\ ~BothActive /\ ca.ms.state # "PAUSED" /\ ca.ds.state = "HALTED"
      /\ ca.ms.state # "HALTED" /\ UNCHANGED <<kind, data>> /\ "mover" \in Agents
  BY DEF AwaitsMover, Resting, Agents
<1>2. Sound => ~MoverHeard /\ ca.pend["mover_paused"] # 1
  BY <1>1, HeardIsCopied
<1>3. CASE kind = "recover" /\ ca.count > 0
  <2> DEFINE c == Listens(ca, "mover")
  <2>1. mover' = Closed(mover) /\ ca' = Again(c) /\ Hears("mover")
    BY <1>3 DEF AwaitsMover
  <2>2. past' = past /\ wire' = [wire EXCEPT !["mover"] = <<>>]
    BY <1>1, <2>1, Hearsay DEF Hears
  <2>3. /\ c \in Cas /\ c.loop = ca.loop /\ c.count = ca.count /\ c.ds = ca.ds
        /\ c.ms = ca.ms /\ c.rc = ca.rc /\ c.finish = ca.finish
        /\ c.pend["data_read"] = ca.pend["data_read"]
    BY <1>1, ListenedFields DEF From, Notices
  <2>4. ca'.pend = c.pend
    <3> HIDE DEF c
    <3> QED BY <2>1, <2>3, AgainIs DEF SameCopies
  <2>5. wire' \in Wires /\ \A n \in Notices : Left(n)' = Left(n)
    BY <1>1, <2>2, <2>4, Hearing
  <2>6. /\ mover' \in Movers /\ mover'.reading = mover.reading
        /\ mover'.pauses = mover.pauses
        /\ \/ mover' = mover
           \/ /\ mover.state \in {"ACTIVE", "PAUSED"}
              /\ mover'.state = "HALTED" /\ mover'.notify
    <3>1. "CONNECT_CLOSED" \in Reasons
      BY DEF Reasons
    <3>2. mover.state # "LISTEN" /\ mover.state \in AgentStates
      BY <1>1 DEF Fits, Deciding, Movers
    <3> QED BY <2>1, <3>1, <3>2, HaltIs DEF Closed, AgentStates
  <2>7. MoverTurned /\ Left("data_read")' = Left("data_read")
    BY <2>5, <2>6 DEF MoverTurned, Notices
  <2> HIDE DEF c
  <2> QED BY <1>1, <1>2, <2>1, <2>2, <2>3, <2>5, <2>7, DecidedStep
<1>4. CASE ~(kind = "recover" /\ ca.count > 0)
  <2>1. UNCHANGED <<mover, wire, past>> /\ ca' = Again(ca)
    BY <1>4 DEF AwaitsMover
  <2>2. ca'.pend = ca.pend
    BY <2>1, AgainIs DEF SameCopies
  <2>3. MoverTurned /\ wire' \in Wires /\ Left("data_read")' = Left("data_read")
    BY <2>1, <2>2, TurnedAlone DEF Notices
  <2> QED BY <1>1, <1>2, <2>1, <2>3, DecidedStep
<1> QED BY <1>3, <1>4

\* The notice of a pause is taken up: none is left of it
LEMMA TakenUpIs ==
    ASSUME MonitorInv
    PROVE  LET c == TakenUp(ca)
               v == [wire EXCEPT !["mover"] = <<>>]
           IN  /\ c \in Cas /\ v \in Wires
               /\ c.loop = ca.loop /\ c.count = ca.count /\ c.ds = ca.ds /\ c.ms = ca.ms
               /\ c.rc = ca.rc /\ c.finish = ca.finish
               /\ c.pend["data_read"] = ca.pend["data_read"]
               /\ \A n \in Notices :
                    LeftOf(c.pend, v, n) = IF n = "mover_paused" THEN 0 ELSE Left(n)
<1> USE InvParts
<1> DEFINE l == Listens(ca, "mover")
           c == TakenUp(ca)
           v == [wire EXCEPT !["mover"] = <<>>]
           p == [l.pend EXCEPT !["mover_paused"] = 0]
<1>1. "mover" \in Agents /\ "mover_paused" \in Notices
  BY DEF Agents, Notices
<1>2. /\ l \in Cas /\ l.loop = ca.loop /\ l.count = ca.count /\ l.ds = ca.ds /\ l.ms = ca.ms
      /\ l.rc = ca.rc /\ l.finish = ca.finish
      /\ \A n \in Notices : l.pend[n] = IF From(n) = "mover" THEN Left(n) ELSE ca.pend[n]
  BY <1>1, ListenedFields
<1>3. v \in Wires /\ \A n \in Notices : LeftOf(l.pend, v, n) = Left(n)
  BY <1>1, Listened
<1>4. c = [l EXCEPT !.pend["mover_paused"] = 0]
  BY DEF TakenUp
<1> HIDE DEF l, v, c
<1>5. l.pend \in Bits
  BY <1>2 DEF Cas
<1>6. /\ p \in Bits
      /\ \A n \in Notices :
           /\ p[n] = IF n = "mover_paused" THEN 0 ELSE l.pend[n]
           /\ LeftOf(p, v, n) = IF n = "mover_paused" THEN LeftOf(l.pend, v, n) - l.pend[n]
                                ELSE LeftOf(l.pend, v, n)
  BY <1>1, <1>3, <1>5, Taken
<1>7. c = [l EXCEPT !.pend = p]
  BY <1>2, <1>4 DEF Cas
<1> HIDE DEF p
<1>8. /\ c \in Cas /\ c.pend = p /\ c.loop = ca.loop /\ c.count = ca.count /\ c.ds = ca.ds
      /\ c.ms = ca.ms /\ c.rc = ca.rc /\ c.finish = ca.finish
  BY <1>2, <1>6, <1>7 DEF Cas
<1>9. c.pend["data_read"] = ca.pend["data_read"]
  BY <1>2, <1>6, <1>8 DEF Notices, From
<1>10. l.pend["mover_paused"] = Left("mover_paused") /\ Left("mover_paused") \in Nat
  BY <1>1, <1>2 DEF From
<1>11. \A n \in Notices : LeftOf(c.pend, v, n) = IF n = "mover_paused" THEN 0 ELSE Left(n)
  BY <1>3, <1>6, <1>8, <1>10
<1> QED BY <1>3, <1>8, <1>9, <1>11 DEF c, v

\* A pause that is remedied, closed or aborted is one the mover is really in
LEMMA Remedied ==
    ASSUME MonitorInv, Remedying, wire' = [wire EXCEPT !["mover"] = <<>>],
           ca'.pend = TakenUp(ca).pend,
           \/ mover' = Closed(mover)
           \/ mover' = Aborted(mover)
           \/ mover' = [mover EXCEPT !.state = "ACTIVE", !.reason = "NA"]
    PROVE  /\ mover.state = "PAUSED" /\ ~Wraps(ca.pend, wire["mover"])
           /\ MoverTurned /\ wire' \in Wires
           /\ Left("data_read")' = Left("data_read") /\ Left("mover_paused")' = 0
           /\ ~PauseOpen'
           /\ Sound => ~MoverHeard
<1> USE InvParts
<1>1. Deciding /\ ca.ms.state = "PAUSED"
  BY DEF Remedying
<1>2. mover.state = "PAUSED"
  BY <1>1 DEF Fits, Deciding, Before
<1>3. wire' \in Wires /\ \A n \in Notices :
                             Left(n)' = IF n = "mover_paused" THEN 0 ELSE Left(n)
  BY TakenUpIs DEF Left
<1>4. /\ mover' \in Movers /\ mover'.reading = mover.reading /\ mover'.pauses = mover.pauses
      /\ \/ mover'.state = "HALTED" /\ mover'.notify
         \/ mover'.state = "ACTIVE"
  <2>1. {"CONNECT_CLOSED", "ABORTED"} \subseteq Reasons
    BY DEF Reasons
  <2>2. CASE mover' = Closed(mover)
    BY <1>2, <2>1, <2>2, HaltIs DEF Closed
  <2>3. CASE mover' = Aborted(mover)
    BY <1>2, <2>1, <2>3, HaltIs DEF Aborted
  <2>4. CASE mover' = [mover EXCEPT !.state = "ACTIVE", !.reason = "NA"]
    BY <2>4 DEF Movers, AgentStates, Reasons
  <2> QED BY <2>2, <2>3, <2>4
<1>5. MoverTurned
  BY <1>2, <1>3, <1>4 DEF MoverTurned, Notices
<1>6. ~Wraps(ca.pend, wire["mover"])
  BY Hearsay DEF Agents
<1>7. ~PauseOpen'
  BY <1>3, <1>4 DEF PauseOpen, Notices
<1>8. Sound => ~MoverHeard
  BY <1>1, HeardIsCopied
<1> QED BY <1>2, <1>3, <1>5, <1>6, <1>7, <1>8 DEF Notices

LEMMA ClosesLastStep ==
    ASSUME MonitorInv, ClosesLast
    PROVE  MonitorInv'
<1> USE InvParts
<1> DEFINE c == TakenUp(ca)
<1>1. /\ Remedying /\ mover' = Closed(mover) /\ ca' = Again(c) /\ Hears("mover")
      /\ UNCHANGED <<kind, data>>
  BY DEF ClosesLast
<1>2. past' = past /\ wire' = [wire EXCEPT !["mover"] = <<>>]
  BY <1>1, Hearsay DEF Hears, Agents
<1>3. /\ c \in Cas /\ c.loop = ca.loop /\ c.count = ca.count /\ c.ds = ca.ds
      /\ c.ms = ca.ms /\ c.rc = ca.rc /\ c.finish = ca.finish
      /\ c.pend["data_read"] = ca.pend["data_read"]
  BY TakenUpIs
<1>4. ca'.pend = c.pend
  <2> HIDE DEF c
  <2> QED BY <1>1, <1>3, AgainIs DEF SameCopies
<1>5. /\ mover.state = "PAUSED" /\ MoverTurned /\ wire' \in Wires
      /\ Left("data_read")' = Left("data_read") /\ Left("mover_paused")' = 0
      /\ ~PauseOpen' /\ (Sound => ~MoverHeard)
  BY <1>1, <1>2, <1>4, Remedied
<1>6. Deciding /\ ~BothActive
  BY <1>1 DEF Remedying, BothActive
<1> HIDE DEF c
<1> QED BY <1>1, <1>2, <1>3, <1>5, <1>6, DecidedStep

LEMMA RemediesStep ==
    ASSUME MonitorInv, Remedies
    PROVE  MonitorInv'
<1> USE InvParts
<1>1. /\ Remedying /\ UNCHANGED <<kind, data>>
      /\ wire' = [wire EXCEPT !["mover"] = <<>>]
      /\ mover' = IF mover.state = "PAUSED"
                  THEN [mover EXCEPT !.state = "ACTIVE", !.reason = "NA"] ELSE mover
      /\ past' = [past EXCEPT !.refused = @ \/ mover.state # "PAUSED",
                              !.wrapped = @ \/ Wraps(ca.pend, wire["mover"])]
  BY DEF Remedies
<1>2. PICK t \in 1 .. Tapes : ca' = Again([TakenUp(ca) EXCEPT !.tape = t])
  BY DEF Remedies
<1> DEFINE c == [TakenUp(ca) EXCEPT !.tape = t]
<1>3. /\ c \in Cas /\ c.loop = ca.loop /\ c.count = ca.count /\ c.ds = ca.ds
      /\ c.ms = ca.ms /\ c.rc = ca.rc /\ c.finish = ca.finish
      /\ c.pend = TakenUp(ca).pend /\ c.pend["data_read"] = ca.pend["data_read"]
  <2> DEFINE d == TakenUp(ca)
  <2>1. /\ d \in Cas /\ d.loop = ca.loop /\ d.count = ca.count /\ d.ds = ca.ds
        /\ d.ms = ca.ms /\ d.rc = ca.rc /\ d.finish = ca.finish
        /\ d.pend["data_read"] = ca.pend["data_read"]
    BY TakenUpIs
  <2>2. t \in Nat
    OBVIOUS
  <2> HIDE DEF d
  <2>3. LET e == [d EXCEPT !.tape = t]
        IN  /\ e \in Cas /\ e.loop = d.loop /\ e.count = d.count /\ e.ds = d.ds
            /\ e.ms = d.ms /\ e.rc = d.rc /\ e.finish = d.finish /\ e.pend = d.pend
    BY <2>1, <2>2 DEF Cas
  <2> QED BY <2>1, <2>3 DEF d
<1>4. ca'.pend = TakenUp(ca).pend
  <2> HIDE DEF c
  <2>1. ca'.pend = c.pend
    BY <1>2, <1>3, AgainIs DEF SameCopies, c
  <2> QED BY <1>3, <2>1
<1>5. Deciding /\ ~BothActive /\ mover.state = "PAUSED"
  BY <1>1 DEF Remedying, BothActive, Deciding, Fits, Before
<1>6. /\ ~Wraps(ca.pend, wire["mover"]) /\ MoverTurned /\ wire' \in Wires
      /\ Left("data_read")' = Left("data_read") /\ Left("mover_paused")' = 0
      /\ ~PauseOpen' /\ (Sound => ~MoverHeard)
  BY <1>1, <1>4, <1>5, Remedied
<1>7. past' = past
  BY <1>1, <1>5, <1>6 DEF Pasts
<1>8. mover' # mover /\ mover'.state = "HALTED" => mover.state = "PAUSED" /\ Left("mover_paused")' = 0
  BY <1>5, <1>6
<1>9. ca' = Again(c)
  BY <1>2
<1> HIDE DEF c
<1> QED BY <1>1, <1>3, <1>5, <1>6, <1>7, <1>8, <1>9, DecidedStep

LEMMA CancelsStep ==
    ASSUME MonitorInv, Cancels
    PROVE  MonitorInv'
<1> USE InvParts
<1> DEFINE c == TakenUp(ca)
<1>1. /\ Remedying /\ UNCHANGED <<kind, data>>
      /\ mover' = Aborted(mover) /\ ca' = GivesUp(c)
      /\ wire' = [wire EXCEPT !["mover"] = <<>>]
      /\ past' = [past EXCEPT !.faulty = TRUE,
                              !.wrapped = @ \/ Wraps(ca.pend, wire["mover"])]
  BY DEF Cancels
<1>2. /\ c \in Cas /\ c.loop = ca.loop /\ c.ds = ca.ds /\ c.ms = ca.ms
      /\ c.finish = ca.finish
  BY TakenUpIs
<1>3. ca' \in Cas /\ SameCopies(c, ca') /\ GivenUp(c, ca')
  <2> HIDE DEF c
  <2> QED BY <1>1, <1>2, GivesUpIs
<1>4. ~Wraps(ca.pend, wire["mover"]) /\ MoverTurned /\ wire' \in Wires
  BY <1>1, <1>3, Remedied DEF SameCopies
<1>5. /\ past' \in Pasts /\ past'.data = past.data /\ past'.mover = past.mover
      /\ past'.expired = past.expired /\ past'.wrapped = past.wrapped /\ past'.faulty
  BY <1>1, <1>4 DEF Pasts
<1>6. ca.loop = "monitor"
  BY <1>1 DEF Remedying, Deciding
<1> HIDE DEF c
<1>7. GivesItUp
  BY <1>1, <1>2, <1>3, <1>4, <1>5, <1>6 DEF GivesItUp, GivenUp, SameCopies
<1> QED BY <1>7, GivesItUpStep

LEMMA DoneStep ==
    ASSUME MonitorInv, Done
    PROVE  MonitorInv'
<1> USE InvParts
<1> DEFINE l == Listens(ca, "data")
           c == [l EXCEPT !.rc = "ok"]
<1>1. /\ ca.loop = "monitor" /\ ca.stage = "decide" /\ UNCHANGED <<kind, data, mover>>
      /\ ca' = Enter(c, "shutdown") /\ Hears("data") /\ "data" \in Agents
      /\ "shutdown" \in Loops
  BY DEF Done, Resting, Deciding, Agents, Loops
<1>2. past' = past /\ wire' = [wire EXCEPT !["data"] = <<>>]
  BY <1>1, Hearsay DEF Hears
<1>3. l \in Cas /\ l.ds = ca.ds /\ l.ms = ca.ms /\ l.finish = ca.finish
  BY <1>1, ListenedFields
<1>4. c \in Cas /\ c.ds = ca.ds /\ c.ms = ca.ms /\ c.finish = ca.finish /\ c.rc = "ok"
      /\ c.pend = l.pend
  <2> HIDE DEF l
  <2> QED BY <1>3 DEF Cas
<1>5. /\ ca' \in Cas /\ ca'.pend = l.pend /\ ca'.loop = "shutdown" /\ ca'.stage = "wait"
      /\ ca'.ds = ca.ds /\ ca'.ms = ca.ms /\ ca'.rc = "ok" /\ ca'.finish = ca.finish
  <2> HIDE DEF c, l
  <2> QED BY <1>1, <1>4, EntersIs, FirstStages DEF SameCopies
<1>6. (\A n \in Notices : Left(n)' = Left(n)) /\ wire' \in Wires
  BY <1>1, <1>2, <1>5, Hearing
<1> HIDE DEF c, l
<1> USE DEF Before, Unstopped
<1>7. TypeOK'
  BY <1>1, <1>2, <1>5, <1>6 DEF TypeOK
<1>8. StagesFit'
  BY <1>1, <1>5 DEF StagesFit
<1>9. Unsaid'
  BY <1>1, <1>2, <1>6, UnsaidKept DEF DataObeys, MoverObeys
<1>10. CopiesStand'
  BY <1>1, <1>2, <1>5 DEF CopiesStand, OkayMeansDone
<1>11. Fits'
  BY <1>1, <1>2, <1>5 DEF Fits, RequestsFit, Sound
<1>12. EarlyTurns' /\ CopiesFresh' /\ TurnsPaid'
  BY <1>1, <1>2, <1>5, NotWatching DEF Pasts
<1> QED BY <1>7, <1>8, <1>9, <1>10, <1>11, <1>12 DEF MonitorInv, WatchInv

-----------------------------------------------------------------------------
(* A recover's request for more of the image is passed on.                   *)

LEMMA NoReadStep ==
    ASSUME MonitorInv, NoRead
    PROVE  MonitorInv'
<1> USE InvParts
<1>1. /\ ca.stage = "top" /\ ca.loop = "monitor" /\ ca.pend["data_read"] = 0
      /\ UNCHANGED <<kind, data, mover, wire, past>>
  BY DEF NoRead, StagesFit
<1>2. /\ ca' \in Cas /\ ca'.pend = ca.pend /\ ca'.loop = "monitor" /\ ca'.stage = "wait"
      /\ ca'.count = ca.count /\ ca'.rc = ca.rc /\ ca'.finish = ca.finish
      /\ ca'.failed = ca.failed /\ ca'.ds = ca.ds /\ ca'.ms = ca.ms
  BY <1>1 DEF NoRead, Cas, Stages
<1>3. \A n \in Notices : Left(n)' = Left(n)
  BY <1>1, <1>2 DEF Left
<1> USE DEF Before, Unstopped, Sound
<1>4. TypeOK'
  BY <1>1, <1>2 DEF TypeOK
<1>5. StagesFit'
  BY <1>1, <1>2 DEF StagesFit
<1>6. Unsaid'
  BY <1>1, <1>3, UnsaidKept DEF DataObeys, MoverObeys
<1>7. CopiesStand'
  BY <1>1, <1>2 DEF CopiesStand, OkayMeansDone
<1>8. Fits'
  BY <1>1, <1>2, <1>3 DEF Fits, RequestsFit, Notices
<1>9. EarlyTurns'
  BY <1>1, <1>2, <1>3 DEF EarlyTurns, Notices
<1>10. CopiesFresh'
  BY <1>1, <1>2, <1>3 DEF CopiesFresh, Notices
<1>11. TurnsPaid'
  <2>1. GivenUpOnlyWhenSlow'
    BY <1>1, <1>2, StillSlow DEF Pasts
  <2>2. ~InTurn /\ ~InTurn' /\ PauseOpen' = PauseOpen /\ ~ReadWaits
    BY <1>1, <1>2, <1>3 DEF InTurn, PauseOpen, ReadWaits, Notices
  <2>3. ReadsPassed' = ReadsPassed /\ HaltsSpent' = HaltsSpent /\ PausesSpent' = PausesSpent
    BY <1>1, <1>3, <2>2
       DEF ReadsPassed, HaltsSpent, DataHeard, MoverHeard, PausesSpent, Notices
  <2>4. Paid => Paid'
    BY <1>1, <1>2, <2>2, <2>3 DEF Paid, One
  <2> QED BY <1>1, <1>2, <2>1, <2>2, <2>3, <2>4 DEF TurnsPaid
<1> QED BY <1>4, <1>5, <1>6, <1>7, <1>8, <1>9, <1>10, <1>11 DEF MonitorInv, WatchInv

\* The request is taken, and what came before the mover's reply is noted
LEMMA ReadTaken ==
    ASSUME MonitorInv, ca.pend["data_read"] = 1, NEW outcome,
           NEW c, c = [Losing(Listens(TakesRead(ca), "mover"), "mover", outcome)
                         EXCEPT !.stage = "wait"]
    PROVE  LET v == [wire EXCEPT !["mover"] = <<>>]
           IN  /\ c \in Cas /\ v \in Wires
               /\ c.stage = "wait" /\ c.loop = ca.loop /\ c.count = ca.count
               /\ c.ds = ca.ds /\ c.ms = ca.ms /\ c.rc = ca.rc /\ c.finish = ca.finish
               /\ c.failed = ca.failed /\ c.pend["data_read"] = 0
               /\ \A n \in Notices :
                    LeftOf(c.pend, v, n) = IF n = "data_read" THEN 0 ELSE Left(n)
<1> USE InvParts
<1> DEFINE p == [ca.pend EXCEPT !["data_read"] = 0]
           t == TakesRead(ca)
           l == Listens(t, "mover")
           d == Losing(l, "mover", outcome)
           v == [wire EXCEPT !["mover"] = <<>>]
           h == Noticed(p, wire["mover"])
<1>1. "mover" \in Agents /\ "data_read" \in Notices /\ ca.pend \in Bits /\ wire \in Wires
  BY DEF Agents, Notices, Cas, TypeOK
<1>2. /\ p \in Bits
      /\ \A n \in Notices :
           /\ p[n] = IF n = "data_read" THEN 0 ELSE ca.pend[n]
           /\ LeftOf(p, wire, n) = IF n = "data_read" THEN LeftOf(ca.pend, wire, n) - ca.pend[n]
                                   ELSE LeftOf(ca.pend, wire, n)
  BY <1>1, Taken, SMTT(30)
<1>3. \A n \in Notices :
        /\ LeftOf(p, wire, n) = IF n = "data_read" THEN 0 ELSE Left(n)
        /\ LeftOf(p, wire, n) <= 1
  <2> HIDE DEF p
  <2>1. Left("data_read") = 1
    BY <1>1 DEF Unsaid
  <2>2. \A n \in Notices : Left(n) = LeftOf(ca.pend, wire, n) /\ Left(n) <= 1
    BY DEF Left, Unsaid
  <2> QED BY <1>1, <1>2, <2>1, <2>2
<1> HIDE DEF p
<1>4. /\ h \in Bits /\ v \in Wires
      /\ \A n \in Notices :
           /\ LeftOf(h, v, n) = LeftOf(p, wire, n)
           /\ h[n] = IF From(n) = "mover" THEN LeftOf(p, wire, n) ELSE p[n]
  BY <1>1, <1>2, <1>3, Heard
<1>5. t = [ca EXCEPT !.pend = p]
  BY <1>1 DEF TakesRead, p, Cas
<1> HIDE DEF v, h
<1>6. l = [ca EXCEPT !.pend = h]
  BY <1>5 DEF Listens, h, Cas
<1> HIDE DEF t, l
<1>7. /\ l \in Cas /\ l.pend = h /\ l.loop = ca.loop /\ l.count = ca.count /\ l.ds = ca.ds
      /\ l.ms = ca.ms /\ l.rc = ca.rc /\ l.finish = ca.finish /\ l.failed = ca.failed
  BY <1>4, <1>6 DEF Cas
<1>8. /\ d \in Cas /\ d.pend = h /\ d.loop = ca.loop /\ d.count = ca.count /\ d.ds = ca.ds
      /\ d.ms = ca.ms /\ d.rc = ca.rc /\ d.finish = ca.finish /\ d.failed = ca.failed
  BY <1>1, <1>7, CallIs
<1>9. c = [d EXCEPT !.stage = "wait"] /\ "wait" \in Stages
  BY DEF Stages, d, l, t
<1> HIDE DEF d
<1>10. /\ c \in Cas /\ c.stage = "wait" /\ c.pend = h /\ c.loop = ca.loop
       /\ c.count = ca.count /\ c.ds = ca.ds
       /\ c.ms = ca.ms /\ c.rc = ca.rc /\ c.finish = ca.finish /\ c.failed = ca.failed
  BY <1>8, <1>9 DEF Cas
<1>11. c.pend["data_read"] = 0
  BY <1>1, <1>2, <1>4, <1>10 DEF From
<1>12. \A n \in Notices : LeftOf(c.pend, v, n) = IF n = "data_read" THEN 0 ELSE Left(n)
  BY <1>3, <1>4, <1>10
<1> QED BY <1>4, <1>10, <1>11, <1>12 DEF v

\* MOVER_READ has been called, whatever has come of it
ReadPassed ==
    /\ ca.stage = "top" /\ ca.loop = "monitor" /\ kind = "recover"
    /\ ca.pend["data_read"] = 1 /\ UNCHANGED <<kind, data>>
    /\ mover' \in Movers /\ mover'.state = mover.state /\ mover'.reason = mover.reason
    /\ mover'.notify = mover.notify /\ mover'.pauses = mover.pauses
    /\ wire' \in Wires /\ ca' \in Cas /\ ca'.ds = ca.ds /\ ca'.ms = ca.ms
    /\ ca'.finish = ca.finish /\ ca'.pend["data_read"] = 0
    /\ \A n \in Notices : Left(n)' = IF n = "data_read" THEN 0 ELSE Left(n)
    /\ past' \in Pasts /\ past'.data = past.data /\ past'.mover = past.mover
    /\ past'.expired = past.expired /\ past'.wrapped = past.wrapped
    /\ past'.refused => past.refused \/ ~Sound
    /\ past.faulty => past'.faulty
    /\ \/ /\ past'.faulty
          /\ ca'.loop = "shutdown" /\ ca'.stage = "wait" /\ ca'.rc = "failed"
       \/ /\ ca'.loop = "monitor" /\ ca'.stage \in {"top", "wait"} /\ ca'.rc = ca.rc
          /\ ~past.faulty =>
               ca'.stage = "top" /\ ca'.count = ca.count + 1 /\ ~ca'.failed

LEMMA PassesReadShape ==
    ASSUME MonitorInv, PassesRead
    PROVE  ReadPassed
<1> USE InvParts
<1>1. /\ ca.stage = "top" /\ ca.loop = "monitor" /\ kind = "recover"
      /\ ca.pend["data_read"] = 1 /\ UNCHANGED <<kind, data>>
  BY DEF PassesRead, StagesFit
<1> DEFINE fits == mover.state = "ACTIVE" /\ ~mover.reading
<1>2. PICK outcome :
        LET c == [Losing(Listens(TakesRead(ca), "mover"), "mover", outcome)
                    EXCEPT !.stage = "wait"]
        IN /\ mover' = IF fits /\ outcome # "gone" THEN [mover EXCEPT !.reading = TRUE] ELSE mover
           /\ ca' = IF ~fits \/ outcome # "ok" THEN GivesUp(c)
                    ELSE IF c.count < 5 THEN Again(c)
                    ELSE c
           /\ wire' = [wire EXCEPT !["mover"] = <<>>]
           /\ past' = [past EXCEPT !.refused = @ \/ ~fits,
                                   !.wrapped = @ \/ Wraps(ca.pend, wire["mover"]),
                                   !.faulty = @ \/ outcome # "ok"]
  BY DEF PassesRead
<1>3. PICK c : c = [Losing(Listens(TakesRead(ca), "mover"), "mover", outcome)
                      EXCEPT !.stage = "wait"]
  OBVIOUS
<1>4. /\ mover' = IF fits /\ outcome # "gone" THEN [mover EXCEPT !.reading = TRUE] ELSE mover
      /\ ca' = IF ~fits \/ outcome # "ok" THEN GivesUp(c)
               ELSE IF c.count < 5 THEN Again(c)
               ELSE c
      /\ wire' = [wire EXCEPT !["mover"] = <<>>]
      /\ past' = [past EXCEPT !.refused = @ \/ ~fits,
                              !.wrapped = @ \/ Wraps(ca.pend, wire["mover"]),
                              !.faulty = @ \/ outcome # "ok"]
  BY <1>2, <1>3
<1>5. /\ c \in Cas /\ wire' \in Wires
      /\ c.stage = "wait" /\ c.loop = ca.loop /\ c.count = ca.count
      /\ c.ds = ca.ds /\ c.ms = ca.ms /\ c.rc = ca.rc /\ c.finish = ca.finish
      /\ c.failed = ca.failed /\ c.pend["data_read"] = 0
      /\ \A n \in Notices :
           LeftOf(c.pend, wire', n) = IF n = "data_read" THEN 0 ELSE Left(n)
  <2> HIDE DEF fits
  <2>1. LET v == [wire EXCEPT !["mover"] = <<>>]
        IN  /\ c \in Cas /\ v \in Wires
            /\ c.stage = "wait" /\ c.loop = ca.loop /\ c.count = ca.count
            /\ c.ds = ca.ds /\ c.ms = ca.ms /\ c.rc = ca.rc /\ c.finish = ca.finish
            /\ c.failed = ca.failed /\ c.pend["data_read"] = 0
            /\ \A n \in Notices :
                 LeftOf(c.pend, v, n) = IF n = "data_read" THEN 0 ELSE Left(n)
    BY <1>1, <1>3, ReadTaken, Zenon
  <2>2. wire' = [wire EXCEPT !["mover"] = <<>>]
    BY <1>4
  <2> QED BY <2>1, <2>2
<1>6. Sound => fits /\ ca.count <= 1
  <2>1. Left("data_read") = 1
    BY <1>1 DEF Unsaid, Notices
  <2> QED BY <1>1, <2>1 DEF Fits, Unsaid, CopiesFresh
<1>7. Sound <=> ~past.faulty
  BY <1>1 DEF Sound, Before
<1>8. /\ mover' \in Movers /\ mover'.state = mover.state /\ mover'.reason = mover.reason
      /\ mover'.notify = mover.notify /\ mover'.pauses = mover.pauses
  BY <1>4 DEF Movers
<1>9. /\ past' \in Pasts /\ past'.data = past.data /\ past'.mover = past.mover
      /\ past'.expired = past.expired /\ past'.wrapped = past.wrapped
      /\ past'.refused = (past.refused \/ ~fits)
      /\ past'.faulty = (past.faulty \/ outcome # "ok")
  <2>1. ~Wraps(ca.pend, wire["mover"])
    BY Hearsay DEF Agents
  <2> HIDE DEF fits
  <2> QED BY <1>4, <2>1 DEF Pasts, Unsaid
<1>10. /\ ca' \in Cas /\ SameCopies(c, ca') /\ ca'.finish = ca.finish
       /\ \/ /\ past'.faulty
             /\ ca'.loop = "shutdown" /\ ca'.stage = "wait" /\ ca'.rc = "failed"
          \/ /\ ca'.loop = "monitor" /\ ca'.stage \in {"top", "wait"} /\ ca'.rc = ca.rc
             /\ ~past.faulty =>
                  ca'.stage = "top" /\ ca'.count = ca.count + 1 /\ ~ca'.failed
  <2>1. CASE ~fits \/ outcome # "ok"
    <3>1. ca' = GivesUp(c)
      BY <1>4, <2>1
    <3>2. past'.faulty
      BY <1>6, <1>7, <1>9, <2>1
    <3> QED BY <1>5, <3>1, <3>2, GivesUpIs DEF GivenUp
  <2>2. CASE fits /\ outcome = "ok" /\ c.count < 5
    <3>1. ca' = Again(c)
      BY <1>4, <2>2
    <3>2. c.count # Turns - 1 /\ c.loop = "monitor"
      BY <1>1, <1>5, <2>2 DEF Turns
    <3> QED BY <1>1, <1>5, <3>1, <3>2, AgainInMonitor
  <2>3. CASE fits /\ outcome = "ok" /\ ~(c.count < 5)
    <3>1. ca' = c
      BY <1>4, <2>3
    <3>2. past.faulty
      BY <1>5, <1>6, <1>7, <2>3 DEF Cas, Turns
    <3> QED BY <1>1, <1>5, <3>1, <3>2 DEF SameCopies
  <2> QED BY <2>1, <2>2, <2>3
<1>11. /\ ca'.ds = ca.ds /\ ca'.ms = ca.ms /\ ca'.pend["data_read"] = 0
       /\ \A n \in Notices : Left(n)' = IF n = "data_read" THEN 0 ELSE Left(n)
  BY <1>5, <1>10 DEF SameCopies, Left
<1> QED BY <1>1, <1>5, <1>6, <1>8, <1>9, <1>10, <1>11 DEF ReadPassed

LEMMA ReadPassedPaid ==
    ASSUME MonitorInv, ReadPassed, Sound, ~past'.faulty
    PROVE  /\ 0 <= ReadsPassed' /\ mover'.pauses + One(PauseOpen)' <= Pauses
           /\ past'.expired >= Slow \/ Paid'
<1> USE InvParts DEF ReadPassed
<1>1. Left("data_read") = 1
  BY DEF Unsaid, Notices
<1>2. ReadsPassed' = ReadsPassed + 1 /\ ReadsPassed \in Int /\ 0 <= ReadsPassed
  BY <1>1, MonitorAssumption DEF ReadsPassed, TurnsPaid, Datas, Notices
<1>3. ~InTurn /\ ~InTurn' /\ ~ReadWaits /\ PauseOpen' = PauseOpen
  BY DEF InTurn, ReadWaits, PauseOpen, Sound, Before, Notices
<1>4. PausesSpent' = PausesSpent /\ PausesSpent \in Int
  BY <1>3, MonitorAssumption DEF PausesSpent, One, Movers
<1>5. HaltsSpent' = HaltsSpent /\ HaltsSpent \in Int
  BY DEF HaltsSpent, One, DataHeard, MoverHeard, Notices
<1>6. /\ ca'.count = ca.count + 1 /\ ca.count \in Nat /\ past.expired \in Nat
      /\ past'.expired = past.expired /\ One(InTurn) = 0 /\ One(InTurn)' = 0
  BY <1>3 DEF Cas, Turns, Pasts, One, Sound
<1>7. past.expired >= Slow \/ Paid
  BY <1>3 DEF TurnsPaid
<1>8. Paid => Paid'
  <2> HIDE InvParts DEF ReadPassed, ReadsPassed, PausesSpent, HaltsSpent, One, InTurn
  <2> QED BY <1>2, <1>4, <1>5, <1>6 DEF Paid
<1>9. mover'.pauses + One(PauseOpen)' <= Pauses
  BY <1>3 DEF TurnsPaid, One
<1>10. 0 <= ReadsPassed'
  <2> HIDE DEF ReadsPassed
  <2> QED BY <1>2
<1> QED BY <1>6, <1>7, <1>8, <1>9, <1>10

LEMMA PassesReadStep ==
    ASSUME MonitorInv, PassesRead
    PROVE  MonitorInv'
<1>1. ReadPassed
  BY PassesReadShape
<1> USE InvParts, <1>1 DEF ReadPassed, Before, Unstopped, Sound
<1>2. Left("data_read") = 1
  BY DEF Unsaid, Notices
<1>3. TypeOK'
  BY DEF TypeOK
<1>4. StagesFit'
  BY DEF StagesFit
<1>5. Unsaid'
  <2>1. data.state = "ACTIVE" => data.asking
    BY <1>2 DEF Unsaid
  <2> QED BY <2>1 DEF Unsaid, Notices
<1>6. CopiesStand'
  BY DEF CopiesStand, OkayMeansDone
<1>7. Fits'
  BY <1>2 DEF Fits, RequestsFit, Notices
<1>8. EarlyTurns'
  BY DEF EarlyTurns, Cas, Turns
<1>9. CopiesFresh'
  BY <1>2 DEF CopiesFresh, Fits
<1>10. TurnsPaid'
  <2>1. GivenUpOnlyWhenSlow'
    <3>1. CASE ca'.rc = ca.rc
      BY <3>1, StillSlow DEF Pasts
    <3>2. CASE ca'.rc # ca.rc
      BY <3>2 DEF GivenUpOnlyWhenSlow
    <3> QED BY <3>1, <3>2
  <2>2. Sound' => Sound
    OBVIOUS
  <2> QED BY <2>1, <2>2, ReadPassedPaid DEF TurnsPaid
<1> QED BY <1>3, <1>4, <1>5, <1>6, <1>7, <1>8, <1>9, <1>10 DEF MonitorInv, WatchInv

-----------------------------------------------------------------------------
(* The invariant, and what follows from it.                                  *)

LEMMA EmptyWires ==
    /\ [a \in Agents |-> <<>>] \in Wires
    /\ \A n \in Notices :
         LeftOf([m \in Notices |-> 0], [a \in Agents |-> <<>>], n) = 0
<1>1. [a \in Agents |-> <<>>] \in Wires
  <2>1. [a \in Agents |-> <<>>] \in [Agents -> Seq(Notices)]
    OBVIOUS
  <2>2. \A b \in Agents : [a \in Agents |-> <<>>][b] \in Seq(NoticesOf(b))
    OBVIOUS
  <2> QED BY <2>1, <2>2 DEF Wires
<1>2. \A n \in Notices : From(n) \in Agents
  BY DEF From, Agents
<1>3. ASSUME NEW n \in Notices
      PROVE  LeftOf([m \in Notices |-> 0], [a \in Agents |-> <<>>], n) = 0
  <2>1. [a \in Agents |-> <<>>][From(n)] = <<>>
    BY <1>2
  <2> QED BY <2>1, CountEmpty DEF LeftOf
<1> QED BY <1>1, <1>3

LEMMA InitStep ==
    ASSUME Init
    PROVE  MonitorInv
<1> USE DEF Init
<1>1. /\ kind \in {"backup", "recover"}
      /\ data.state = "ACTIVE" /\ ~data.notify /\ ~data.asking
      /\ data.reads \in 0 .. Reads
      /\ mover.state = "LISTEN" /\ ~mover.notify /\ ~mover.reading /\ mover.pauses = Pauses
      /\ ca.loop = "startup" /\ ca.stage = "data" /\ ca.count = 0
      /\ ca.ds.state = "UNKNOWN" /\ ca.ms.state = "UNKNOWN" /\ ~ca.failed
      /\ ca.rc = "none" /\ ca.finish = "none"
      /\ past.expired = 0 /\ ~past.faulty /\ ~past.wrapped /\ ~past.refused
  BY MonitorAssumption DEF Unknown
<1>2. \A n \in Notices : Left(n) = 0
  BY EmptyWires DEF Left
<1>3. TypeOK
  <2>1. data \in Datas /\ mover \in Movers
    BY MonitorAssumption DEF Datas, Movers, AgentStates, Reasons
  <2>2. [n \in Notices |-> 0] \in Bits /\ Unknown \in Copies
    BY DEF Bits, Unknown, Copies, Reasons
  <2>3. ca \in Cas
    BY <2>2 DEF Cas, Loops, Stages, Turns
  <2>4. past \in Pasts
    BY DEF Pasts, Reasons
  <2> QED BY <1>1, <2>1, <2>3, <2>4, EmptyWires DEF TypeOK
<1>4. StagesFit
  BY <1>1 DEF StagesFit, Before, Unstopped
<1>5. Unsaid
  BY <1>1, <1>2 DEF Unsaid, Notices
<1>6. CopiesStand
  BY <1>1 DEF CopiesStand, OkayMeansDone
<1>7. Fits
  BY <1>1, <1>2 DEF Fits, RequestsFit, Sound, Before, Notices
<1>8. EarlyTurns
  BY <1>1 DEF EarlyTurns
<1>9. CopiesFresh
  BY <1>1 DEF CopiesFresh
<1>10. TurnsPaid
  <2>1. 0 <= ReadsPassed
    BY <1>1, <1>2, MonitorAssumption DEF ReadsPassed, Notices
  <2>2. mover.pauses + One(PauseOpen) <= Pauses
    BY <1>1, <1>2, MonitorAssumption DEF One, PauseOpen, Notices
  <2> QED BY <1>1, <2>1, <2>2 DEF TurnsPaid, GivenUpOnlyWhenSlow
<1> QED BY <1>3, <1>4, <1>5, <1>6, <1>7, <1>8, <1>9, <1>10 DEF MonitorInv, WatchInv

LEMMA StutterStep ==
    ASSUME MonitorInv, UNCHANGED vars
    PROVE  MonitorInv'
<1> USE InvParts DEF vars
<1>1. \A n \in Notices : Left(n)' = Left(n)
  BY DEF Left
<1>2. TypeOK' /\ StagesFit' /\ CopiesStand'
  BY DEF TypeOK, StagesFit, CopiesStand, OkayMeansDone, Before, Unstopped
<1>3. Unsaid' /\ Fits' /\ EarlyTurns' /\ CopiesFresh'
  BY <1>1 DEF Unsaid, Fits, RequestsFit, EarlyTurns, CopiesFresh, DataHeard, MoverHeard,
     Sound, Before, Notices
<1>4. TurnsPaid'
  BY <1>1 DEF TurnsPaid, GivenUpOnlyWhenSlow, Paid, ReadWaits, ReadsPassed, PausesSpent,
     HaltsSpent, DataHeard, MoverHeard, PauseOpen, InTurn, One, Sound, Before, Notices
<1> QED BY <1>2, <1>3, <1>4 DEF MonitorInv, WatchInv

LEMMA ControlStep ==
    ASSUME MonitorInv, Control
    PROVE  MonitorInv'
<1>1. CASE GetsData \/ GetsMover
  BY <1>1, GetsDataStep, GetsMoverStep
<1>2. CASE StartupDecides \/ PassesRead \/ NoRead \/ GoesOn
  BY <1>2, StartupDecidesStep, PassesReadStep, NoReadStep, GoesOnStep
<1>3. CASE AwaitsPauseNotice \/ ClosesLast \/ Remedies \/ Cancels
  BY <1>3, AwaitsPauseNoticeStep, ClosesLastStep, RemediesStep, CancelsStep
<1>4. CASE Done \/ AwaitsMover \/ AwaitsData
  BY <1>4, DoneStep, AwaitsMoverStep, AwaitsDataStep
<1>5. CASE ShutdownDecides \/ AbortsData \/ AbortsMover
  BY <1>5, ShutdownShape, ShutdownGoesStep
<1>6. CASE StopsData \/ StopsMover \/ StoppingDecides
  BY <1>6, StopsDataStep, StopsMoverStep, StoppingDecidesStep
<1> QED BY <1>1, <1>2, <1>3, <1>4, <1>5, <1>6 DEF Control

LEMMA AgentsStep ==
    ASSUME MonitorInv,
           AgentsRun \/ DataEndsEarly \/ DataFails \/ MediaFails \/ MoverPauses \/ DataSeesEnd
    PROVE  MonitorInv'
<1>1. CASE DataEnds \/ DataEndsEarly \/ DataFails \/ DataSeesEnd
  BY <1>1, DataHaltsShape, DataHaltsStep
<1>2. CASE MoverPauses \/ MediaFails
  BY <1>2, MoverHoldsShape, MoverHoldsStep
<1>3. CASE DataNotifies \/ MoverNotifies \/ DataAsks
  BY <1>3, DataNotifiesStep, MoverNotifiesStep, DataAsksStep
<1>4. CASE MoverAccepts \/ MoverServes \/ MoverSeesEnd
  BY <1>4, MoverAcceptsStep, MoverServesStep, MoverSeesEndStep
<1> QED BY <1>1, <1>2, <1>3, <1>4 DEF AgentsRun

\* The invariant of the monitoring: an agent's news is given once and a copy that says
\* HALTED stands until the stop, a request fits what its notice said, and every turn that
\* is counted has been paid for (ndmca_monitor_startup, _backup, _recover and _shutdown)
THEOREM MonitorInvariant == Spec => []MonitorInv
<1>1. Init => MonitorInv
  BY InitStep
<1>2. MonitorInv /\ [Next]_vars => MonitorInv'
  <2> SUFFICES ASSUME MonitorInv, [Next]_vars
               PROVE  MonitorInv'
    OBVIOUS
  <2>1. CASE Control
    BY <2>1, ControlStep
  <2>2. CASE WaitTurns \/ WaitExpires
    BY <2>2, WaitStep
  <2>3. CASE AgentsRun \/ DataEndsEarly \/ DataFails \/ MediaFails \/ MoverPauses \/ DataSeesEnd
    BY <2>3, AgentsStep
  <2>4. CASE Ended \/ UNCHANGED vars
    BY <2>4, StutterStep DEF Ended
  <2> QED BY <2>1, <2>2, <2>3, <2>4 DEF Next
<1> QED BY <1>1, <1>2, PTL DEF Spec

\* An operation called OKAY is one whose agents halted of themselves, the DATA agent
\* SUCCESSFUL and the mover by the end of the stream (ndmca_monitor_shutdown)
THEOREM OkayIsDone == Spec => []OkayMeansDone
<1>1. MonitorInv => OkayMeansDone
  BY DEF MonitorInv, WatchInv, CopiesStand
<1> QED BY <1>1, MonitorInvariant, PTL

\* The one-bit flags of ndmagents.h lose no notice: none is incremented twice
THEOREM NoticesAreCounted == Spec => []NoticesCounted
<1>1. MonitorInv => NoticesCounted
  BY DEF MonitorInv, WatchInv, Unsaid, NoticesCounted
<1> QED BY <1>1, MonitorInvariant, PTL

\* Without a fault no MOVER_READ and no MOVER_CONTINUE finds the mover in a state that
\* refuses it (ndmca_monitor_recover, ndmca_monitor_load_next, _seek_tape)
THEOREM RequestsAlwaysFit == Spec => []RequestsFit
<1>1. MonitorInv => RequestsFit
  BY DEF MonitorInv, WatchInv, Fits
<1> QED BY <1>1, MonitorInvariant, PTL

\* Without a fault the ten turns of a loop are used up only by waits that expired, for any
\* number of tapes, pauses and reads (for (count = 0; count < 10; count++))
THEOREM GivesUpOnlyWhenSlow == Spec => []GivenUpOnlyWhenSlow
<1>1. MonitorInv => GivenUpOnlyWhenSlow
  BY DEF MonitorInv, TurnsPaid
<1> QED BY <1>1, MonitorInvariant, PTL

=============================================================================
