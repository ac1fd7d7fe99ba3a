--------------------------- MODULE LibraryProofs ---------------------------
(***************************************************************************)
(* The tape library, for any media, slots, media table and sequence of jobs *)
(* and faults.                                                              *)
(*                                                                          *)
(* A tape is lost only when a move and its inventory have come apart        *)
(* (LostOnlyThen).  What carries it is that the inventory, as long as it    *)
(* was kept, calls every element full that has a file: the destination of a *)
(* move then has none to be unlinked.                                       *)
(*                                                                          *)
(* The other three properties are about a job in the middle of its calls.   *)
(* What is left of it is an end of one list of calls, and LibraryInv says   *)
(* for each part of a job what the drive and the inventory are before each  *)
(* call.  The parts hang together by the open drive: it has the tape it was *)
(* opened with (Held), because the inventory knows that the drive is full,  *)
(* and no job asks for a move into a full drive or out of an open one.      *)
(***************************************************************************)
EXTENDS Library, SequenceTheorems, TLAPS

LibraryTypes ==
    /\ files \in [Elements -> Media \cup {Gone, Blank}]
    /\ inv \in [Elements -> [full : BOOLEAN, source : Elements]]
    /\ past \in [cut : BOOLEAN, origin : Elements]

\* The inventory knows of every file
InventoryKnows == past.cut \/ \A e \in Elements : files[e] # Gone => inv[e].full

IInv == LibraryTypes /\ InventoryKnows /\ LostOnlyWhenCut

LEMMA Addresses == Drive \in Elements /\ Door \in Elements
  BY DEF Elements

LEMMA StartInventoryType == StartInventory \in [Elements -> [full : BOOLEAN, source : Elements]]
  BY Addresses DEF StartInventory, Slots

LEMMA InitHolds == Init => IInv
<1> SUFFICES ASSUME Init PROVE IInv
  OBVIOUS
<1>1. PICK f \in [Elements -> Media \cup {Gone}] :
        /\ files = f /\ f[Drive] = Gone /\ f[Door] = Gone
        /\ \A m \in Media : \E e \in Elements : f[e] = m
  BY DEF Init
<1>2. past = [cut |-> FALSE, origin |-> Door] /\ inv = StartInventory
  BY DEF Init
<1>3. LibraryTypes
  BY <1>1, <1>2, Addresses, StartInventoryType DEF LibraryTypes
<1>4. InventoryKnows
  <2>1. SUFFICES ASSUME NEW e \in Elements, files[e] # Gone PROVE inv[e].full
    BY DEF InventoryKnows
  <2>2. e \in Slots
    BY <2>1, <1>1 DEF Elements
  <2>3. QED
    BY <2>1, <2>2, <1>2 DEF StartInventory
<1>5. LostOnlyWhenCut
  BY <1>1 DEF LostOnlyWhenCut
<1>6. QED
  BY <1>3, <1>4, <1>5 DEF IInv

\* The file of a move, wherever its inventory goes
LEMMA CarriedType ==
  ASSUME LibraryTypes, NEW src, NEW dst, MayMove(src, dst)
  PROVE  Carried(src, dst) \in [Elements -> Media \cup {Gone, Blank}]
<1>1. src \in Elements /\ dst \in Elements
  BY DEF MayMove
<1>2. files[src] \in Media \cup {Gone, Blank}
  BY <1>1 DEF LibraryTypes
<1>3. QED
  BY <1>1, <1>2 DEF Carried, LibraryTypes

\* A move whose inventory is kept
LEMMA MoveKeeps ==
  ASSUME IInv, NEW src, NEW dst, MayMove(src, dst), ~past.cut,
         files' = Carried(src, dst), inv' = Recorded(src, dst)
  PROVE  /\ inv' \in [Elements -> [full : BOOLEAN, source : Elements]]
         /\ \A e \in Elements : files'[e] # Gone => inv'[e].full
         /\ \A m \in Media : \E e \in Elements : files'[e] = m
<1>1. /\ src \in Elements /\ dst \in Elements
      /\ inv[src].full /\ ~inv[dst].full /\ src # dst
  BY DEF MayMove
<1>2. /\ files \in [Elements -> Media \cup {Gone, Blank}]
      /\ inv \in [Elements -> [full : BOOLEAN, source : Elements]]
      /\ \A e \in Elements : files[e] # Gone => inv[e].full
      /\ \A m \in Media : \E e \in Elements : files[e] = m
  BY DEF IInv, LibraryTypes, InventoryKnows, LostOnlyWhenCut
<1>3. /\ inv'[src].full = FALSE /\ inv'[dst].full = inv[src].full
      /\ \A e \in Elements \ {src, dst} : inv'[e] = inv[e]
      /\ inv' \in [Elements -> [full : BOOLEAN, source : Elements]]
  <2>1. [inv[src] EXCEPT !.source = src] \in [full : BOOLEAN, source : Elements]
    BY <1>1, <1>2
  <2>2. ASSUME NEW r \in [full : BOOLEAN, source : Elements]
        PROVE  [r EXCEPT !.source = src].full = r.full
    OBVIOUS
  <2>3. [inv[src] EXCEPT !.source = src].full = inv[src].full
    BY <1>1, <1>2, <2>2
  <2>4. QED
    BY <1>1, <1>2, <2>1, <2>3 DEF Recorded
<1>4. /\ files'[src] = Gone
      /\ files'[dst] = IF files[src] = Gone THEN Blank ELSE files[src]
      /\ \A e \in Elements \ {src, dst} : files'[e] = files[e]
  BY <1>1, <1>2 DEF Carried
<1>5. \A e \in Elements : files'[e] # Gone => inv'[e].full
  BY <1>1, <1>2, <1>3, <1>4
<1>6. ASSUME NEW m \in Media PROVE \E e \in Elements : files'[e] = m
  <2>1. PICK e \in Elements : files[e] = m
    BY <1>2
  <2>2. m # Gone
    BY LibraryAssumption
  <2>3. CASE e = src
    BY <2>1, <2>2, <2>3, <1>1, <1>4
  <2>4. CASE e = dst
    BY <2>1, <2>2, <2>4, <1>1, <1>2
  <2>5. CASE e \notin {src, dst}
    BY <2>1, <2>5, <1>4
  <2>6. QED
    BY <2>3, <2>4, <2>5
<1>7. QED
  BY <1>3, <1>5, <1>6

\* Once cut, the types are all that is left to keep
LEMMA CutKeeps ==
  ASSUME LibraryTypes', past'.cut
  PROVE  IInv'
BY DEF IInv, InventoryKnows, LostOnlyWhenCut

LEMMA OriginType ==
  ASSUME LibraryTypes, NEW src, NEW dst, MayMove(src, dst)
  PROVE  OriginAfter(src, dst) \in Elements
BY DEF MayMove, OriginAfter, LibraryTypes

LEMMA LooksKeeps == ASSUME IInv, Looks PROVE IInv'
<1>1. CASE UNCHANGED <<inv, past, files>>
  BY <1>1 DEF IInv, LibraryTypes, InventoryKnows, LostOnlyWhenCut
<1>2. CASE /\ inv' = StartInventory /\ files' = files
           /\ past' = [past EXCEPT !.cut = @ \/ inv # StartInventory]
  <2>1. /\ past' \in [cut : BOOLEAN, origin : Elements]
        /\ past'.cut = (past.cut \/ inv # StartInventory)
    BY <1>2 DEF IInv, LibraryTypes
  <2>2. LibraryTypes'
    BY <1>2, <2>1, StartInventoryType DEF IInv, LibraryTypes
  <2>3. CASE past.cut \/ inv # StartInventory
    BY <2>1, <2>2, <2>3, CutKeeps
  <2>4. CASE ~past.cut /\ inv = StartInventory
    BY <1>2, <2>1, <2>2, <2>4 DEF IInv, InventoryKnows, LostOnlyWhenCut
  <2>5. QED
    BY <2>3, <2>4
<1>3. QED
  BY <1>1, <1>2 DEF Looks

LEMMA MovesKeeps == ASSUME IInv, Moves PROVE IInv'
<1> DEFINE src == Source
           dst == Target
<1>1. MayMove(src, dst) /\ files' = Carried(src, dst)
  BY DEF Moves
<1>2. files' \in [Elements -> Media \cup {Gone, Blank}] /\ OriginAfter(src, dst) \in Elements
  BY <1>1, CarriedType, OriginType DEF IInv
<1> HIDE DEF src, dst
<1>3. CASE /\ inv' = Recorded(src, dst)
           /\ past' = [past EXCEPT !.origin = OriginAfter(src, dst)]
  <2>1. past' \in [cut : BOOLEAN, origin : Elements] /\ past'.cut = past.cut
    BY <1>2, <1>3 DEF IInv, LibraryTypes
  <2>2. CASE past.cut
    <3>1. src \in Elements /\ dst \in Elements
      BY <1>1 DEF MayMove
    <3>2. inv' \in [Elements -> [full : BOOLEAN, source : Elements]]
      <4>1. [inv[src] EXCEPT !.source = src] \in [full : BOOLEAN, source : Elements]
        BY <3>1 DEF IInv, LibraryTypes
      <4>2. QED
        BY <1>3, <3>1, <4>1 DEF Recorded, IInv, LibraryTypes
    <3>3. QED
      BY <1>2, <2>1, <2>2, <3>2, CutKeeps DEF LibraryTypes
  <2>3. CASE ~past.cut
    BY <1>1, <1>2, <1>3, <2>1, <2>3, MoveKeeps
    DEF IInv, LibraryTypes, InventoryKnows, LostOnlyWhenCut
  <2>4. QED
    BY <2>2, <2>3
<1>4. CASE /\ inv' = StartInventory
           /\ past' = [cut |-> TRUE, origin |-> OriginAfter(src, dst)]
  BY <1>2, <1>4, StartInventoryType, CutKeeps DEF LibraryTypes
<1>5. QED
  BY <1>3, <1>4 DEF Moves, src, dst

LEMMA MoveTornKeeps == ASSUME IInv, MoveTorn PROVE IInv'
<1>1. MayMove(Source, Target) /\ files' = Carried(Source, Target)
  BY DEF MoveTorn
<1>2. /\ files' \in [Elements -> Media \cup {Gone, Blank}]
      /\ OriginAfter(Source, Target) \in Elements
  BY <1>1, CarriedType, OriginType DEF IInv
<1>3. /\ inv' \in {inv, StartInventory}
      /\ past' = [cut |-> TRUE, origin |-> OriginAfter(Source, Target)]
  BY DEF MoveTorn
<1>4. LibraryTypes'
  BY <1>2, <1>3, StartInventoryType DEF IInv, LibraryTypes
<1>5. QED
  BY <1>3, <1>4, CutKeeps

LEMMA StepKeeps == ASSUME IInv, [Next]_vars PROVE IInv'
<1>1. CASE Looks
  BY <1>1, LooksKeeps
<1>2. CASE Moves
  BY <1>2, MovesKeeps
<1>3. CASE MoveTorn
  BY <1>3, MoveTornKeeps
<1>4. CASE UNCHANGED <<files, inv, past>>
  BY <1>4 DEF IInv, LibraryTypes, InventoryKnows, LostOnlyWhenCut
<1>5. QED
  BY <1>1, <1>2, <1>3, <1>4
  DEF Next, vars, Begins, BeginsMoving, MoveRefused, MoveFails, Opens, OpenRefused, OpenFails,
      Deck, DeckFails, WritesLabel, Works, Closes, Ends, Dies

\* A tape's file is destroyed only after a move and its inventory have come apart
\* (robot_state_move and robot_state_save, ndma_robot_simulator.c:215-336)
THEOREM LostOnlyThen == Spec => []LostOnlyWhenCut
<1>1. IInv => LostOnlyWhenCut
  BY DEF IInv
<1>2. IInv /\ [Next]_vars => IInv'
  BY StepKeeps
<1>3. QED
  BY <1>1, <1>2, InitHolds, PTL DEF Spec
-----------------------------------------------------------------------------
(* The calls of a job.  In each of its parts what remains to be called is an *)
(* end of one list of calls, and what holds of drive and robot depends on    *)
(* how much of it remains.                                                   *)

\* A record with the fields of a job.  Of the table no type is stated: the one a
\* robot synthesizes is selected from the slots.
Shaped(j) ==
    j = [op |-> j.op, part |-> j.part, todo |-> j.todo, ix |-> j.ix, loaded |-> j.loaded,
         next |-> j.next, checks |-> j.checks, resident |-> j.resident,
         armless |-> j.armless, faulty |-> j.faulty, table |-> j.table,
         from |-> j.from, to |-> j.to]

JobOK(j) ==
    /\ Shaped(j)
    /\ j.armless => j.faulty
    /\ j.checks => j.op \in {"backup", "recover"}
    /\ j.from \in Elements /\ j.to \in Elements

Remains(j, C, k) == k \in 1 .. Len(C) /\ j.todo = SubSeq(C, k, Len(C))

MtioCalls(to) ==
    <<Call("open"), Call("rewind")>> \o Ejection \o <<Call("close"), Move(Drive, to)>>

\* What may be left of a best effort after which nothing is moved
Trials ==
    {<<Call("close")>>, <<Call("eject"), Call("close")>>, <<Call("rewind"), Call("close")>>,
     <<Call("rewind"), Call("eject"), Call("close")>>,
     <<Call("open"), Call("rewind"), Call("close")>>,
     <<Call("open"), Call("rewind"), Call("eject"), Call("close")>>}

\* How many calls the lists have
LoadLength(j) == IF j.checks THEN 6 ELSE 3
UnloadLength == IF UseEject THEN 4 ELSE 3
MtioLength == IF UseEject THEN 5 ELSE 4
UseLength(j) == IF j.op = "test_tape" THEN 2 ELSE 1

\* The tape of the job is in the drive, as far as the robot knows, and can go back
Carries(i, j) == i[Drive].full /\ SlotOf(j) \in Elements /\ ~i[SlotOf(j)].full

MediaParts == {"load", "use", "unload", "best", "undo"}
IdleParts == {"idle", "start", "look_again", "over"}
RobotParts == {"robot", "mtio", "mtio_only"}

PartOK ==
    /\ job.part \in MediaParts \cup IdleParts \cup RobotParts
    /\ job.part \in MediaParts => job.op \in MediaOps
    /\ job.part \in RobotParts \cup {"look_again"} => job.op \notin MediaOps
    /\ job.part \in IdleParts => job.todo = <<>>
    /\ job.part \in IdleParts \ {"over"} => ~tape.open
    /\ job.part = "start" => job.ix = 0

Loading ==
    job.part = "load" => \E k \in 1 .. 6 :
        /\ Remains(job, LoadCalls(job), k)
        /\ k = 2 => (tape.open => past.cut)
        /\ k > 1 => past.origin = SlotOf(job)
        /\ k > 2 => /\ tape.open /\ tape.holds = files[Drive] /\ files[Drive] # Gone
                    /\ job.loaded /\ ~job.resident
        /\ k > 4 => Label(tape.holds) = job.ix
        /\ ~job.faulty => /\ k = 1 => ~inv[Drive].full
                          /\ k < 3 => ~tape.open
                          /\ k > 1 => Carries(inv, job)

Using ==
    job.part = "use" => \E k \in 1 .. 2 :
        /\ Remains(job, UseCalls(job), k)
        /\ job.loaded /\ past.origin = SlotOf(job)
        /\ tape.open => tape.holds = files[Drive]
        /\ job.op # "test_tape" => tape.open
        /\ job.checks => Label(tape.holds) = job.ix
        /\ ~job.faulty => /\ Carries(inv, job)
                          /\ k = 1 => tape.open
                          /\ files[Drive] # Gone /\ ~job.resident
                          /\ k = 2 => ~tape.open /\ ~tape.locked

Unloading ==
    job.part \in {"unload", "best"} => \E k \in 1 .. 4 :
        /\ Remains(job, UnloadCalls(job), k)
        /\ k = UnloadLength => ~tape.open
        /\ ~job.faulty => /\ Carries(inv, job)
                          /\ k < UnloadLength => tape.open

Undoing ==
    job.part = "undo" =>
        /\ job.todo = <<Move(Drive, SlotOf(job))>>
        /\ tape.open => past.cut
        /\ ~job.faulty => Carries(inv, job) /\ ~tape.open

Roboting ==
    job.part = "robot" =>
        ~tape.open /\ \E a, b \in Elements : job.todo = <<Move(a, b)>>

PuttingAway ==
    /\ job.part = "mtio" => \E to \in Elements, k \in 1 .. 5 :
           /\ Remains(job, MtioCalls(to), k)
           /\ k = 1 \/ k = MtioLength => ~tape.open
    /\ job.part = "mtio_only" => job.todo \in Trials

JobInv ==
    /\ JobOK(job) /\ PartOK /\ Loading /\ Using /\ Unloading /\ Undoing /\ Roboting
    /\ PuttingAway /\ Released

-----------------------------------------------------------------------------
(* Lists of calls.                                                           *)

LEMMA EndsOfCalls ==
    ASSUME NEW S, NEW C \in Seq(S), NEW j, NEW k, Remains(j, C, k)
    PROVE  /\ j.todo # <<>> /\ Head(j.todo) = C[k] /\ Len(j.todo) = Len(C) - k + 1
           /\ k < Len(C) => Tail(j.todo) = SubSeq(C, k + 1, Len(C))
           /\ j.todo[Len(j.todo)] = C[Len(C)]
<1>1. k \in 1 .. Len(C) /\ j.todo = SubSeq(C, k, Len(C)) /\ Len(C) \in Nat
  BY DEF Remains
<1>2. Head(j.todo) = C[k] /\ Tail(j.todo) = SubSeq(C, k + 1, Len(C))
  BY <1>1, HeadTailOfSubSeq
<1>3. Len(j.todo) = Len(C) - k + 1 /\ \A i \in 1 .. Len(C) - k + 1 : j.todo[i] = C[k + i - 1]
  BY <1>1, SubSeqProperties
<1>4. j.todo # <<>>
  <2>1. Len(j.todo) > 0 /\ Len(<<>>) = 0
    BY <1>1, <1>3
  <2>2. QED
    BY <2>1
<1>5. j.todo[Len(j.todo)] = C[Len(C)]
  <2>1. Len(C) - k + 1 \in 1 .. Len(C) - k + 1 /\ k + (Len(C) - k + 1) - 1 = Len(C)
    BY <1>1
  <2>2. QED
    BY <1>3, <2>1
<1>6. QED
  BY <1>2, <1>3, <1>4, <1>5


LEMMA JoinedIs ==
    ASSUME NEW S, NEW s \in Seq(S), NEW t \in Seq(S), NEW u \in Seq(S),
           Len(u) = Len(s) + Len(t),
           \A i \in 1 .. Len(u) : u[i] = IF i <= Len(s) THEN s[i] ELSE t[i - Len(s)]
    PROVE  s \o t = u
<1>1. s \o t \in Seq(S) /\ Len(s \o t) = Len(s) + Len(t)
  BY ConcatProperties
<1>2. \A i \in 1 .. Len(s) + Len(t) : (s \o t)[i] = IF i <= Len(s) THEN s[i] ELSE t[i - Len(s)]
  BY ConcatProperties
<1>3. QED
  BY <1>1, <1>2, SeqEqual

\* Tuples joined
LEMMA Joined33 ==
    ASSUME NEW a, NEW b, NEW c, NEW d, NEW e, NEW f
    PROVE  <<a, b, c>> \o <<d, e, f>> = <<a, b, c, d, e, f>>
<1> DEFINE S == {a, b, c, d, e, f}
           s == <<a, b, c>>
           t == <<d, e, f>>
           u == <<a, b, c, d, e, f>>
<1>1. s \in Seq(S) /\ t \in Seq(S) /\ u \in Seq(S)
  OBVIOUS
<1>2. Len(u) = Len(s) + Len(t)
  OBVIOUS
<1>3. \A i \in 1 .. Len(u) : u[i] = IF i <= Len(s) THEN s[i] ELSE t[i - Len(s)]
  OBVIOUS
<1> HIDE DEF S, s, t, u
<1>4. s \o t = u
  BY <1>1, <1>2, <1>3, JoinedIs
<1>5. QED
  BY <1>4 DEF s, t, u

LEMMA Joined32 ==
    ASSUME NEW a, NEW b, NEW c, NEW d, NEW e
    PROVE  <<a, b, c>> \o <<d, e>> = <<a, b, c, d, e>>
<1> DEFINE S == {a, b, c, d, e}
           s == <<a, b, c>>
           t == <<d, e>>
           u == <<a, b, c, d, e>>
<1>1. s \in Seq(S) /\ t \in Seq(S) /\ u \in Seq(S)
  OBVIOUS
<1>2. Len(u) = Len(s) + Len(t)
  OBVIOUS
<1>3. \A i \in 1 .. Len(u) : u[i] = IF i <= Len(s) THEN s[i] ELSE t[i - Len(s)]
  OBVIOUS
<1> HIDE DEF S, s, t, u
<1>4. s \o t = u
  BY <1>1, <1>2, <1>3, JoinedIs
<1>5. QED
  BY <1>4 DEF s, t, u

LEMMA Joined31 ==
    ASSUME NEW a, NEW b, NEW c, NEW d
    PROVE  <<a, b, c>> \o <<d>> = <<a, b, c, d>>
<1> DEFINE S == {a, b, c, d}
           s == <<a, b, c>>
           t == <<d>>
           u == <<a, b, c, d>>
<1>1. s \in Seq(S) /\ t \in Seq(S) /\ u \in Seq(S)
  OBVIOUS
<1>2. Len(u) = Len(s) + Len(t)
  OBVIOUS
<1>3. \A i \in 1 .. Len(u) : u[i] = IF i <= Len(s) THEN s[i] ELSE t[i - Len(s)]
  OBVIOUS
<1> HIDE DEF S, s, t, u
<1>4. s \o t = u
  BY <1>1, <1>2, <1>3, JoinedIs
<1>5. QED
  BY <1>4 DEF s, t, u

LEMMA Joined22 ==
    ASSUME NEW a, NEW b, NEW c, NEW d
    PROVE  <<a, b>> \o <<c, d>> = <<a, b, c, d>>
<1> DEFINE S == {a, b, c, d}
           s == <<a, b>>
           t == <<c, d>>
           u == <<a, b, c, d>>
<1>1. s \in Seq(S) /\ t \in Seq(S) /\ u \in Seq(S)
  OBVIOUS
<1>2. Len(u) = Len(s) + Len(t)
  OBVIOUS
<1>3. \A i \in 1 .. Len(u) : u[i] = IF i <= Len(s) THEN s[i] ELSE t[i - Len(s)]
  OBVIOUS
<1> HIDE DEF S, s, t, u
<1>4. s \o t = u
  BY <1>1, <1>2, <1>3, JoinedIs
<1>5. QED
  BY <1>4 DEF s, t, u

LEMMA Joined12 ==
    ASSUME NEW a, NEW b, NEW c
    PROVE  <<a>> \o <<b, c>> = <<a, b, c>>
<1> DEFINE S == {a, b, c}
           s == <<a>>
           t == <<b, c>>
           u == <<a, b, c>>
<1>1. s \in Seq(S) /\ t \in Seq(S) /\ u \in Seq(S)
  OBVIOUS
<1>2. Len(u) = Len(s) + Len(t)
  OBVIOUS
<1>3. \A i \in 1 .. Len(u) : u[i] = IF i <= Len(s) THEN s[i] ELSE t[i - Len(s)]
  OBVIOUS
<1> HIDE DEF S, s, t, u
<1>4. s \o t = u
  BY <1>1, <1>2, <1>3, JoinedIs
<1>5. QED
  BY <1>4 DEF s, t, u

LEMMA Joined21 ==
    ASSUME NEW a, NEW b, NEW c
    PROVE  <<a, b>> \o <<c>> = <<a, b, c>>
<1> DEFINE S == {a, b, c}
           s == <<a, b>>
           t == <<c>>
           u == <<a, b, c>>
<1>1. s \in Seq(S) /\ t \in Seq(S) /\ u \in Seq(S)
  OBVIOUS
<1>2. Len(u) = Len(s) + Len(t)
  OBVIOUS
<1>3. \A i \in 1 .. Len(u) : u[i] = IF i <= Len(s) THEN s[i] ELSE t[i - Len(s)]
  OBVIOUS
<1> HIDE DEF S, s, t, u
<1>4. s \o t = u
  BY <1>1, <1>2, <1>3, JoinedIs
<1>5. QED
  BY <1>4 DEF s, t, u

LEMMA Joined11 ==
    ASSUME NEW a, NEW b
    PROVE  <<a>> \o <<b>> = <<a, b>>
<1> DEFINE S == {a, b}
           s == <<a>>
           t == <<b>>
           u == <<a, b>>
<1>1. s \in Seq(S) /\ t \in Seq(S) /\ u \in Seq(S)
  OBVIOUS
<1>2. Len(u) = Len(s) + Len(t)
  OBVIOUS
<1>3. \A i \in 1 .. Len(u) : u[i] = IF i <= Len(s) THEN s[i] ELSE t[i - Len(s)]
  OBVIOUS
<1> HIDE DEF S, s, t, u
<1>4. s \o t = u
  BY <1>1, <1>2, <1>3, JoinedIs
<1>5. QED
  BY <1>4 DEF s, t, u

LEMMA JoinedEmpty ==
    ASSUME NEW a, NEW b, NEW c
    PROVE  /\ <<a, b, c>> \o <<>> = <<a, b, c>> /\ <<a, b>> \o <<>> = <<a, b>>
           /\ <<a>> \o <<>> = <<a>>
<1>1. <<a, b, c>> \in Seq({a, b, c}) /\ <<a, b>> \in Seq({a, b}) /\ <<a>> \in Seq({a})
  OBVIOUS
<1>2. QED
  BY <1>1, ConcatEmptySeq

LEMMA LoadCallsAre ==
    ASSUME NEW j
    PROVE  LoadCalls(j) =
             IF j.checks
             THEN <<Move(SlotOf(j), Drive), Call("open"), Call("rewind"),
                    Call("check_label"), Call("rewind_again"), Call("space")>>
             ELSE <<Move(SlotOf(j), Drive), Call("open"), Call("rewind")>>
<1>1. <<Move(SlotOf(j), Drive), Call("open"), Call("rewind")>>
        \o <<Call("check_label"), Call("rewind_again"), Call("space")>>
      = <<Move(SlotOf(j), Drive), Call("open"), Call("rewind"),
          Call("check_label"), Call("rewind_again"), Call("space")>>
  BY Joined33
<1>2. <<Move(SlotOf(j), Drive), Call("open"), Call("rewind")>> \o <<>>
      = <<Move(SlotOf(j), Drive), Call("open"), Call("rewind")>>
  BY JoinedEmpty
<1>3. QED
  BY <1>1, <1>2 DEF LoadCalls

LEMMA UnloadCallsAre ==
    ASSUME NEW j
    PROVE  UnloadCalls(j) =
             IF UseEject
             THEN <<Call("rewind"), Call("eject"), Call("close"), Move(Drive, SlotOf(j))>>
             ELSE <<Call("rewind"), Call("close"), Move(Drive, SlotOf(j))>>
<1>1. /\ <<Call("rewind")>> \o <<Call("eject")>> = <<Call("rewind"), Call("eject")>>
      /\ <<Call("rewind")>> \o <<>> = <<Call("rewind")>>
  BY Joined11, JoinedEmpty
<1>2. <<Call("rewind"), Call("eject")>> \o <<Call("close"), Move(Drive, SlotOf(j))>>
      = <<Call("rewind"), Call("eject"), Call("close"), Move(Drive, SlotOf(j))>>
  BY Joined22
<1>3. <<Call("rewind")>> \o <<Call("close"), Move(Drive, SlotOf(j))>>
      = <<Call("rewind"), Call("close"), Move(Drive, SlotOf(j))>>
  BY Joined12
<1>4. QED
  BY <1>1, <1>2, <1>3 DEF UnloadCalls, Ejection

LEMMA MtioCallsAre ==
    ASSUME NEW to
    PROVE  MtioCalls(to) =
             IF UseEject
             THEN <<Call("open"), Call("rewind"), Call("eject"), Call("close"), Move(Drive, to)>>
             ELSE <<Call("open"), Call("rewind"), Call("close"), Move(Drive, to)>>
<1>1. /\ <<Call("open"), Call("rewind")>> \o <<Call("eject")>>
         = <<Call("open"), Call("rewind"), Call("eject")>>
      /\ <<Call("open"), Call("rewind")>> \o <<>> = <<Call("open"), Call("rewind")>>
  BY Joined21, JoinedEmpty
<1>2. <<Call("open"), Call("rewind"), Call("eject")>> \o <<Call("close"), Move(Drive, to)>>
      = <<Call("open"), Call("rewind"), Call("eject"), Call("close"), Move(Drive, to)>>
  BY Joined32
<1>3. <<Call("open"), Call("rewind")>> \o <<Call("close"), Move(Drive, to)>>
      = <<Call("open"), Call("rewind"), Call("close"), Move(Drive, to)>>
  BY Joined22
<1>4. QED
  BY <1>1, <1>2, <1>3 DEF MtioCalls, Ejection

LEMMA MtioOnlyIs == MtioOnly \in Trials
<1>1. /\ <<Call("open"), Call("rewind")>> \o <<Call("eject")>>
         = <<Call("open"), Call("rewind"), Call("eject")>>
      /\ <<Call("open"), Call("rewind")>> \o <<>> = <<Call("open"), Call("rewind")>>
  BY Joined21, JoinedEmpty
<1>2. <<Call("open"), Call("rewind"), Call("eject")>> \o <<Call("close")>>
      = <<Call("open"), Call("rewind"), Call("eject"), Call("close")>>
  BY Joined31
<1>3. <<Call("open"), Call("rewind")>> \o <<Call("close")>>
      = <<Call("open"), Call("rewind"), Call("close")>>
  BY Joined21
<1>4. MtioOnly = IF UseEject
                 THEN <<Call("open"), Call("rewind"), Call("eject"), Call("close")>>
                 ELSE <<Call("open"), Call("rewind"), Call("close")>>
  BY <1>1, <1>2, <1>3 DEF MtioOnly, Ejection
<1>5. QED
  BY <1>4 DEF Trials

LEMMA TrialIs ==
    ASSUME NEW t \in Trials
    PROVE  /\ t # <<>> /\ Head(t)[1] \in {"open", "rewind", "eject", "close"}
           /\ Len(t) > 1 => Tail(t) \in Trials
<1> DEFINE o == Call("open")
           r == Call("rewind")
           e == Call("eject")
           c == Call("close")
<1>1. /\ o[1] = "open" /\ r[1] = "rewind" /\ e[1] = "eject" /\ c[1] = "close"
      /\ Trials = {<<c>>, <<e, c>>, <<r, c>>, <<r, e, c>>, <<o, r, c>>, <<o, r, e, c>>}
  BY DEF Trials, Call
<1> HIDE DEF o, r, e, c
<1>2. CASE t = <<c>>
  BY <1>1, <1>2
<1>3. CASE t = <<e, c>>
  BY <1>1, <1>3
<1>4. CASE t = <<r, c>>
  BY <1>1, <1>4
<1>5. CASE t = <<r, e, c>>
  BY <1>1, <1>5
<1>6. CASE t = <<o, r, c>>
  BY <1>1, <1>6
<1>7. CASE t = <<o, r, e, c>>
  BY <1>1, <1>7
<1>8. QED
  BY <1>1, <1>2, <1>3, <1>4, <1>5, <1>6, <1>7

-----------------------------------------------------------------------------
(* What a job becomes.                                                       *)

\* The same job, at whatever call
Alike(k, j) ==
    /\ k.op = j.op /\ k.ix = j.ix /\ k.loaded = j.loaded /\ k.checks = j.checks
    /\ k.resident = j.resident /\ k.armless = j.armless /\ k.faulty = j.faulty
    /\ k.table = j.table /\ k.from = j.from /\ k.to = j.to

LEMMA EnterIs ==
    ASSUME NEW j, JobOK(j), NEW p, NEW t, NEW k, k = Enter(j, p, t)
    PROVE  JobOK(k) /\ Alike(k, j) /\ k.part = p /\ k.todo = t
BY DEF JobOK, Shaped, Alike, Enter

LEMMA TodoIs ==
    ASSUME NEW j, JobOK(j), NEW t, NEW k, k = [j EXCEPT !.todo = t]
    PROVE  JobOK(k) /\ Alike(k, j) /\ k.part = j.part /\ k.todo = t
BY DEF JobOK, Shaped, Alike

LEMMA FaultyIs ==
    ASSUME NEW j, JobOK(j), NEW k, k = Faulty(j)
    PROVE  /\ JobOK(k) /\ k.faulty /\ k.part = j.part /\ k.todo = j.todo
           /\ k.op = j.op /\ k.ix = j.ix /\ k.loaded = j.loaded /\ k.checks = j.checks
           /\ k.resident = j.resident /\ k.armless = j.armless /\ k.table = j.table
           /\ k.from = j.from /\ k.to = j.to
BY DEF JobOK, Shaped, Faulty

LEMMA IxIs ==
    ASSUME NEW j, JobOK(j), NEW n, NEW k, k = [j EXCEPT !.ix = n]
    PROVE  JobOK(k) /\ k.ix = n /\ k.op = j.op /\ k.faulty = j.faulty
BY DEF JobOK, Shaped

LEMMA NextIsKept ==
    ASSUME NEW j, JobOK(j), NEW n, NEW k, k = [j EXCEPT !.next = n]
    PROVE  JobOK(k) /\ Alike(k, j) /\ k.part = j.part /\ k.todo = j.todo
BY DEF JobOK, Shaped, Alike

LEMMA LoadedIs ==
    ASSUME NEW j, JobOK(j), NEW b, NEW k, k = [j EXCEPT !.loaded = b]
    PROVE  /\ JobOK(k) /\ k.loaded = b /\ k.part = j.part /\ k.todo = j.todo
           /\ k.op = j.op /\ k.ix = j.ix /\ k.checks = j.checks
           /\ k.resident = j.resident /\ k.armless = j.armless /\ k.faulty = j.faulty
           /\ k.table = j.table /\ k.from = j.from /\ k.to = j.to
BY DEF JobOK, Shaped

\* A job over leaves drive and robot as they are
LEMMA EntersOver ==
    ASSUME NEW j, JobOK(j), job' = Over(j),
           j.op \in MediaOps /\ ~j.faulty =>
               ~tape'.open /\ (j.ix > 0 => ~inv'[Drive].full)
    PROVE  JobInv'
<1>1. JobOK(job') /\ Alike(job', j) /\ job'.part = "over" /\ job'.todo = <<>>
  BY EnterIs DEF Over
<1>2. PartOK'
  BY <1>1 DEF PartOK, IdleParts, MediaParts, RobotParts
<1>3. Released'
  BY <1>1 DEF Released, Alike
<1>4. QED
  BY <1>1, <1>2, <1>3
  DEF JobInv, Loading, Using, Unloading, Undoing, Roboting, PuttingAway

LEMMA WholeRemains ==
    ASSUME NEW S, NEW C \in Seq(S), Len(C) > 0, NEW j, j.todo = C
    PROVE  Remains(j, C, 1)
<1>1. Len(C) \in Nat /\ SubSeq(C, 1, Len(C)) = C
  BY SubSeqFull
<1>2. QED
  BY <1>1 DEF Remains

\* Everything a list of calls can have
Callable(j, to) ==
    {Move(SlotOf(j), Drive), Move(Drive, SlotOf(j)), Move(Drive, to)}
    \cup {Call(n) : n \in DeckCalls \cup {"open", "close", "write_label", "work"}}

LEMMA CallsAreSeq ==
    ASSUME NEW j, NEW to
    PROVE  /\ LoadCalls(j) \in Seq(Callable(j, to)) /\ Len(LoadCalls(j)) = LoadLength(j)
           /\ UnloadCalls(j) \in Seq(Callable(j, to)) /\ Len(UnloadCalls(j)) = UnloadLength
           /\ MtioCalls(to) \in Seq(Callable(j, to)) /\ Len(MtioCalls(to)) = MtioLength
           /\ UseCalls(j) \in Seq(Callable(j, to)) /\ Len(UseCalls(j)) = UseLength(j)
<1> DEFINE S == Callable(j, to)
<1>1. /\ Move(SlotOf(j), Drive) \in S /\ Move(Drive, SlotOf(j)) \in S /\ Move(Drive, to) \in S
      /\ Call("open") \in S /\ Call("close") \in S /\ Call("write_label") \in S
      /\ Call("work") \in S /\ Call("rewind") \in S /\ Call("rewind_again") \in S
      /\ Call("space") \in S /\ Call("eject") \in S /\ Call("check_label") \in S
      /\ Call("read_label") \in S
  BY DEF Callable, DeckCalls
<1> HIDE DEF S
<1>2. LoadCalls(j) \in Seq(S) /\ Len(LoadCalls(j)) = LoadLength(j)
  <2>1. CASE j.checks
    <3>1. LoadCalls(j) = <<Move(SlotOf(j), Drive), Call("open"), Call("rewind"),
                         Call("check_label"), Call("rewind_again"), Call("space")>>
      BY <2>1, LoadCallsAre
    <3>2. QED
      BY <1>1, <2>1, <3>1 DEF LoadLength
  <2>2. CASE ~j.checks
    <3>1. LoadCalls(j) = <<Move(SlotOf(j), Drive), Call("open"), Call("rewind")>>
      BY <2>2, LoadCallsAre
    <3>2. QED
      BY <1>1, <2>2, <3>1 DEF LoadLength
  <2>3. QED
    BY <2>1, <2>2
<1>3. UnloadCalls(j) \in Seq(S) /\ Len(UnloadCalls(j)) = UnloadLength
  <2>1. CASE UseEject
    <3>1. UnloadCalls(j) = <<Call("rewind"), Call("eject"), Call("close"), Move(Drive, SlotOf(j))>>
      BY <2>1, UnloadCallsAre
    <3>2. QED
      BY <1>1, <2>1, <3>1 DEF UnloadLength
  <2>2. CASE ~UseEject
    <3>1. UnloadCalls(j) = <<Call("rewind"), Call("close"), Move(Drive, SlotOf(j))>>
      BY <2>2, UnloadCallsAre
    <3>2. QED
      BY <1>1, <2>2, <3>1 DEF UnloadLength
  <2>3. QED
    BY <2>1, <2>2
<1>4. MtioCalls(to) \in Seq(S) /\ Len(MtioCalls(to)) = MtioLength
  <2>1. CASE UseEject
    <3>1. MtioCalls(to) = <<Call("open"), Call("rewind"), Call("eject"), Call("close"),
                          Move(Drive, to)>>
      BY <2>1, MtioCallsAre
    <3>2. QED
      BY <1>1, <2>1, <3>1 DEF MtioLength
  <2>2. CASE ~UseEject
    <3>1. MtioCalls(to) = <<Call("open"), Call("rewind"), Call("close"), Move(Drive, to)>>
      BY <2>2, MtioCallsAre
    <3>2. QED
      BY <1>1, <2>2, <3>1 DEF MtioLength
  <2>3. QED
    BY <2>1, <2>2
<1>5. UseCalls(j) \in Seq(S) /\ Len(UseCalls(j)) = UseLength(j)
  BY <1>1 DEF UseCalls, UseLength
<1>6. QED
  BY <1>2, <1>3, <1>4, <1>5 DEF S

\* The same job has the same lists
LEMMA SameCalls ==
    ASSUME NEW j, NEW k, Alike(k, j)
    PROVE  /\ SlotOf(k) = SlotOf(j) /\ LoadCalls(k) = LoadCalls(j)
           /\ UnloadCalls(k) = UnloadCalls(j) /\ UseCalls(k) = UseCalls(j)
           /\ \A i : Carries(i, k) = Carries(i, j)
BY DEF Alike, SlotOf, LoadCalls, UnloadCalls, UseCalls, Carries

LEMMA EntersLoad ==
    ASSUME NEW j, JobOK(j), j.op \in MediaOps, NEW n, job' = Loads(j, n),
           ~j.faulty => ~tape'.open /\ ~inv'[Drive].full
    PROVE  JobInv'
<1> DEFINE k == [j EXCEPT !.ix = n]
<1>1. JobOK(k) /\ k.op = j.op /\ k.faulty = j.faulty
  BY IxIs
<1>2. job' = Enter(k, "load", LoadCalls(k))
  BY DEF Loads
<1> HIDE DEF k
<1>3. JobOK(job') /\ Alike(job', k) /\ job'.part = "load" /\ job'.todo = LoadCalls(k)
  BY <1>1, <1>2, EnterIs
<1>4. LoadCalls(job') = LoadCalls(k)
  BY <1>3, SameCalls
<1>5. LoadCalls(job') \in Seq(Callable(job', Drive)) /\ Len(LoadCalls(job')) = LoadLength(job')
  BY CallsAreSeq
<1>6. Remains(job', LoadCalls(job'), 1)
  <2>1. job'.todo = LoadCalls(job')
    BY <1>3, <1>4
  <2>2. Len(LoadCalls(job')) > 0
    BY <1>5 DEF LoadLength
  <2>3. QED
    BY <1>5, <2>1, <2>2, WholeRemains
<1>7. Loading'
  BY <1>1, <1>3, <1>6 DEF Loading, Alike
<1>8. PartOK'
  BY <1>1, <1>3 DEF PartOK, IdleParts, MediaParts, RobotParts, Alike
<1>9. QED
  BY <1>3, <1>7, <1>8
  DEF JobInv, Using, Unloading, Undoing, Roboting, PuttingAway, Released

LEMMA EntersEntry ==
    ASSUME NEW j, JobOK(j), j.op \in MediaOps, NEW n, job' = Entry(j, n),
           ~j.faulty => ~tape'.open /\ ~inv'[Drive].full
    PROVE  JobInv'
BY EntersLoad, EntersOver DEF Entry

-----------------------------------------------------------------------------
(* The next call, and what is left after it.                                 *)

LEMMA GoesOn ==
    ASSUME NEW S, NEW C \in Seq(S), NEW j, JobOK(j), NEW k, Remains(j, C, k),
           NEW g, g = Goes(j)
    PROVE  /\ k < Len(C) => /\ JobOK(g) /\ Alike(g, j) /\ g.part = j.part
                            /\ Remains(g, C, k + 1)
           /\ k = Len(C) => g = Completed(j)
<1>1. k \in 1 .. Len(C) /\ Len(C) \in Nat
  BY DEF Remains
<1>2. /\ Len(j.todo) = Len(C) - k + 1
      /\ k < Len(C) => Tail(j.todo) = SubSeq(C, k + 1, Len(C))
  BY EndsOfCalls
<1>3. CASE k < Len(C)
  <2>1. Len(j.todo) > 1
    BY <1>1, <1>2, <1>3
  <2> DEFINE t == Tail(j.todo)
  <2>2. Goes(j) = [j EXCEPT !.todo = Tail(@)]
    BY <2>1, Zenon DEF Goes
  <2>3. g = [j EXCEPT !.todo = t]
    BY <2>2
  <2> HIDE DEF t
  <2>4. JobOK(g) /\ Alike(g, j) /\ g.part = j.part /\ g.todo = t
    BY <2>3 DEF JobOK, Shaped, Alike
  <2>5. Remains(g, C, k + 1)
    BY <1>1, <1>2, <1>3, <2>4 DEF Remains, t
  <2>6. QED
    BY <1>3, <2>4, <2>5
<1>4. CASE k = Len(C)
  <2>1. ~(Len(j.todo) > 1)
    BY <1>1, <1>2, <1>4
  <2>2. QED
    BY <1>4, <2>1 DEF Goes
<1>5. QED
  BY <1>1, <1>3, <1>4

LEMMA LoadPlace ==
    ASSUME NEW j, NEW k, Remains(j, LoadCalls(j), k)
    PROVE  /\ k \in 1 .. LoadLength(j) /\ j.todo # <<>>
           /\ k = 1 => Head(j.todo) = Move(SlotOf(j), Drive)
           /\ k = 2 => Head(j.todo) = Call("open")
           /\ k = 3 => Head(j.todo) = Call("rewind")
           /\ k = 4 => Head(j.todo) = Call("check_label")
           /\ k = 5 => Head(j.todo) = Call("rewind_again")
           /\ k = 6 => Head(j.todo) = Call("space")
<1>1. LoadCalls(j) \in Seq(Callable(j, Drive)) /\ Len(LoadCalls(j)) = LoadLength(j)
  BY CallsAreSeq
<1>2. k \in 1 .. LoadLength(j) /\ j.todo # <<>> /\ Head(j.todo) = LoadCalls(j)[k]
  BY <1>1, EndsOfCalls DEF Remains
<1>3. CASE j.checks
  <2>1. LoadCalls(j) = <<Move(SlotOf(j), Drive), Call("open"), Call("rewind"),
                         Call("check_label"), Call("rewind_again"), Call("space")>>
    BY <1>3, LoadCallsAre
  <2>2. QED
    BY <1>2, <2>1
<1>4. CASE ~j.checks
  <2>1. LoadCalls(j) = <<Move(SlotOf(j), Drive), Call("open"), Call("rewind")>>
    BY <1>4, LoadCallsAre
  <2>2. QED
    BY <1>2, <1>4, <2>1 DEF LoadLength
<1>5. QED
  BY <1>3, <1>4

LEMMA UnloadPlace ==
    ASSUME NEW j, NEW k, Remains(j, UnloadCalls(j), k)
    PROVE  /\ k \in 1 .. UnloadLength /\ j.todo # <<>>
           /\ k = UnloadLength => Head(j.todo) = Move(Drive, SlotOf(j))
           /\ k = UnloadLength - 1 => Head(j.todo) = Call("close")
           /\ k < UnloadLength - 1 => Head(j.todo) \in {Call("rewind"), Call("eject")}
<1>1. UnloadCalls(j) \in Seq(Callable(j, Drive)) /\ Len(UnloadCalls(j)) = UnloadLength
  BY CallsAreSeq
<1>2. k \in 1 .. UnloadLength /\ j.todo # <<>> /\ Head(j.todo) = UnloadCalls(j)[k]
  BY <1>1, EndsOfCalls DEF Remains
<1>3. CASE UseEject
  <2>1. UnloadCalls(j) =
          <<Call("rewind"), Call("eject"), Call("close"), Move(Drive, SlotOf(j))>>
    BY <1>3, UnloadCallsAre
  <2>2. QED
    BY <1>2, <1>3, <2>1 DEF UnloadLength
<1>4. CASE ~UseEject
  <2>1. UnloadCalls(j) = <<Call("rewind"), Call("close"), Move(Drive, SlotOf(j))>>
    BY <1>4, UnloadCallsAre
  <2>2. QED
    BY <1>2, <1>4, <2>1 DEF UnloadLength
<1>5. QED
  BY <1>3, <1>4

LEMMA MtioPlace ==
    ASSUME NEW j, NEW to, NEW k, Remains(j, MtioCalls(to), k)
    PROVE  /\ k \in 1 .. MtioLength /\ j.todo # <<>>
           /\ j.todo[Len(j.todo)] = Move(Drive, to)
           /\ k = MtioLength => Head(j.todo) = Move(Drive, to)
           /\ k = MtioLength - 1 => Head(j.todo) = Call("close")
           /\ k = 1 => Head(j.todo) = Call("open")
           /\ 1 < k /\ k < MtioLength - 1 => Head(j.todo) \in {Call("rewind"), Call("eject")}
<1>1. MtioCalls(to) \in Seq(Callable(j, to)) /\ Len(MtioCalls(to)) = MtioLength
  BY CallsAreSeq
<1>2. /\ k \in 1 .. MtioLength /\ j.todo # <<>> /\ Head(j.todo) = MtioCalls(to)[k]
      /\ j.todo[Len(j.todo)] = MtioCalls(to)[MtioLength]
  BY <1>1, EndsOfCalls DEF Remains
<1>3. CASE UseEject
  <2>1. MtioCalls(to) =
          <<Call("open"), Call("rewind"), Call("eject"), Call("close"), Move(Drive, to)>>
    BY <1>3, MtioCallsAre
  <2>2. QED
    BY <1>2, <1>3, <2>1 DEF MtioLength
<1>4. CASE ~UseEject
  <2>1. MtioCalls(to) = <<Call("open"), Call("rewind"), Call("close"), Move(Drive, to)>>
    BY <1>4, MtioCallsAre
  <2>2. QED
    BY <1>2, <1>4, <2>1 DEF MtioLength
<1>5. QED
  BY <1>3, <1>4

LEMMA UsePlace ==
    ASSUME NEW j, NEW k, Remains(j, UseCalls(j), k)
    PROVE  /\ k \in 1 .. UseLength(j) /\ j.todo # <<>>
           /\ j.op = "test_tape" /\ k = 1 => Head(j.todo) = Call("close")
           /\ j.op = "test_tape" /\ k = 2 => Head(j.todo) = Call("open")
           /\ j.op = "init_labels" => Head(j.todo) = Call("write_label")
           /\ j.op = "list_labels" => Head(j.todo) = Call("read_label")
           /\ j.op \notin {"test_tape", "init_labels", "list_labels"} =>
                  Head(j.todo) = Call("work")
<1>1. UseCalls(j) \in Seq(Callable(j, Drive)) /\ Len(UseCalls(j)) = UseLength(j)
  BY CallsAreSeq
<1>2. k \in 1 .. UseLength(j) /\ j.todo # <<>> /\ Head(j.todo) = UseCalls(j)[k]
  BY <1>1, EndsOfCalls DEF Remains
<1>3. QED
  BY <1>2 DEF UseCalls, UseLength

-----------------------------------------------------------------------------
(* Where a job goes from a part, whatever the step that takes it there.      *)

LEMMA EntersUnload ==
    ASSUME NEW j, JobOK(j), j.op \in MediaOps, NEW p \in {"unload", "best"},
           job' = Enter(j, p, UnloadCalls(j)),
           ~j.faulty => tape'.open /\ Carries(inv', j)
    PROVE  JobInv'
<1>1. JobOK(job') /\ Alike(job', j) /\ job'.part = p /\ job'.todo = UnloadCalls(j)
  BY EnterIs
<1>2. UnloadCalls(job') = UnloadCalls(j) /\ Carries(inv', job') = Carries(inv', j)
  BY <1>1, SameCalls
<1>3. UnloadCalls(job') \in Seq(Callable(job', Drive)) /\ Len(UnloadCalls(job')) = UnloadLength
  BY CallsAreSeq
<1>4. Remains(job', UnloadCalls(job'), 1)
  <2>1. job'.todo = UnloadCalls(job')
    BY <1>1, <1>2
  <2>2. Len(UnloadCalls(job')) > 0
    BY <1>3 DEF UnloadLength
  <2>3. QED
    BY <1>3, <2>1, <2>2, WholeRemains
<1>5. Unloading'
  <2>1. 1 # UnloadLength
    BY DEF UnloadLength
  <2>2. ~job'.faulty => Carries(inv', job') /\ tape'.open
    BY <1>1, <1>2 DEF Alike
  <2>3. QED
    BY <1>4, <2>1, <2>2 DEF Unloading
<1>6. PartOK'
  BY <1>1 DEF PartOK, IdleParts, MediaParts, RobotParts, Alike
<1>7. QED
  BY <1>1, <1>5, <1>6 DEF JobInv, Loading, Using, Undoing, Roboting, PuttingAway, Released

LEMMA EntersUnloads ==
    ASSUME NEW j, JobOK(j), j.op \in MediaOps, NEW n, job' = Unloads(j, n),
           ~j.faulty => j.loaded /\ tape'.open /\ Carries(inv', j)
    PROVE  JobInv'
<1>1. CASE j.loaded
  <2> DEFINE k == [j EXCEPT !.next = n]
  <2>1. JobOK(k) /\ Alike(k, j)
    BY NextIsKept
  <2>2. job' = Enter(k, "unload", UnloadCalls(j))
    BY <1>1, Zenon DEF Unloads
  <2> HIDE DEF k
  <2>3. Carries(inv', k) = Carries(inv', j) /\ UnloadCalls(k) = UnloadCalls(j)
    BY <2>1, SameCalls
  <2>4. QED
    BY <2>1, <2>2, <2>3, EntersUnload DEF Alike
<1>2. CASE ~j.loaded
  <2>1. job' = Over(j) /\ j.faulty
    BY <1>2 DEF Unloads
  <2>2. QED
    BY <2>1, EntersOver
<1>3. QED
  BY <1>1, <1>2

LEMMA EntersUse ==
    ASSUME NEW j, JobOK(j), j.op \in MediaOps, job' = Enter(j, "use", UseCalls(j)),
           j.loaded, ~j.resident, past'.origin = SlotOf(j),
           tape'.open, tape'.holds = files'[Drive], files'[Drive] # Gone,
           j.checks => Label(tape.holds)' = j.ix,
           ~j.faulty => Carries(inv', j)
    PROVE  JobInv'
<1>1. JobOK(job') /\ Alike(job', j) /\ job'.part = "use" /\ job'.todo = UseCalls(j)
  BY EnterIs
<1>2. /\ UseCalls(job') = UseCalls(j) /\ Carries(inv', job') = Carries(inv', j)
      /\ SlotOf(job') = SlotOf(j)
  BY <1>1, SameCalls
<1>3. UseCalls(job') \in Seq(Callable(job', Drive)) /\ Len(UseCalls(job')) = UseLength(job')
  BY CallsAreSeq
<1>4. Remains(job', UseCalls(job'), 1)
  <2>1. job'.todo = UseCalls(job')
    BY <1>1, <1>2
  <2>2. UseLength(job') > 0
    BY DEF UseLength
  <2>3. Len(UseCalls(job')) > 0
    BY <1>3, <2>2
  <2>4. QED
    BY <1>3, <2>1, <2>3, WholeRemains
<1>5. Using'
  <2>1. job'.checks => Label(tape.holds)' = job'.ix
    BY <1>1 DEF Alike
  <2>2. job'.loaded /\ ~job'.resident /\ past'.origin = SlotOf(job')
    BY <1>1, <1>2 DEF Alike
  <2>3. ~job'.faulty => Carries(inv', job')
    BY <1>1, <1>2 DEF Alike
  <2>4. QED
    BY <1>4, <2>1, <2>2, <2>3 DEF Using
<1>6. PartOK'
  BY <1>1 DEF PartOK, IdleParts, MediaParts, RobotParts, Alike
<1>7. QED
  BY <1>1, <1>5, <1>6 DEF JobInv, Loading, Unloading, Undoing, Roboting, PuttingAway, Released

LEMMA EntersUndo ==
    ASSUME NEW j, JobOK(j), j.op \in MediaOps,
           job' = Enter(j, "undo", <<Move(Drive, SlotOf(j))>>),
           tape'.open => past'.cut,
           ~j.faulty => Carries(inv', j) /\ ~tape'.open
    PROVE  JobInv'
<1>1. /\ JobOK(job') /\ Alike(job', j) /\ job'.part = "undo"
      /\ job'.todo = <<Move(Drive, SlotOf(j))>>
  BY EnterIs
<1>2. Carries(inv', job') = Carries(inv', j) /\ SlotOf(job') = SlotOf(j)
  BY <1>1, SameCalls
<1>3. Undoing'
  BY <1>1, <1>2 DEF Undoing, Alike
<1>4. PartOK'
  BY <1>1 DEF PartOK, IdleParts, MediaParts, RobotParts, Alike
<1>5. QED
  BY <1>1, <1>3, <1>4 DEF JobInv, Loading, Using, Unloading, Roboting, PuttingAway, Released

LEMMA EntersRobot ==
    ASSUME NEW j, JobOK(j), j.op \notin MediaOps, NEW src \in Elements, NEW dst \in Elements,
           job' = Enter(j, "robot", <<Move(src, dst)>>), ~tape'.open
    PROVE  JobInv'
<1>1. JobOK(job') /\ Alike(job', j) /\ job'.part = "robot" /\ job'.todo = <<Move(src, dst)>>
  BY EnterIs
<1>2. Roboting'
  BY <1>1 DEF Roboting
<1>3. PartOK'
  BY <1>1 DEF PartOK, IdleParts, MediaParts, RobotParts, Alike
<1>4. QED
  BY <1>1, <1>2, <1>3 DEF JobInv, Loading, Using, Unloading, Undoing, PuttingAway, Released

LEMMA LoadHasFailed ==
    ASSUME NEW j, JobOK(j), j.op \in MediaOps, job' = LoadFailed(j),
           ~j.faulty => ~tape'.open /\ ~inv'[Drive].full
    PROVE  JobInv'
BY EntersEntry, EntersOver DEF LoadFailed

LEMMA UnloadHasFailed ==
    ASSUME NEW j, JobOK(j), j.op \in MediaOps, job' = UnloadFailed(j), j.faulty
    PROVE  JobInv'
<1>1. CASE j.op \in LabelOps
  <2>1. job' = Entry(j, j.next)
    BY <1>1 DEF UnloadFailed, LabelOps
  <2>2. QED
    BY <2>1, EntersEntry
<1>2. CASE j.op \notin LabelOps /\ j.op \in {"backup", "recover"} /\ j.next > 0 /\ tape.open
  <2>1. job' = Unloads(j, 0)
    BY <1>2 DEF UnloadFailed, LabelOps
  <2>2. QED
    BY <2>1, EntersUnloads
<1>3. CASE j.op \notin LabelOps /\ ~(j.op \in {"backup", "recover"} /\ j.next > 0 /\ tape.open)
  BY <1>3, EntersOver DEF UnloadFailed
<1>4. QED
  BY <1>1, <1>2, <1>3

-----------------------------------------------------------------------------
(* Calls that succeed, and calls that fail, in each part.                    *)

LEMMA GoesInLoad ==
    ASSUME NEW j, JobOK(j), j.op \in MediaOps, j.part = "load",
           NEW k, Remains(j, LoadCalls(j), k), job' = Goes(j),
           past'.origin = SlotOf(j),
           k = 1 => (tape'.open => past'.cut),
           k > 1 => /\ tape'.open /\ tape'.holds = files'[Drive] /\ files'[Drive] # Gone
                    /\ j.loaded /\ ~j.resident,
           k > 3 => Label(tape.holds)' = j.ix,
           ~j.faulty => Carries(inv', j) /\ (k = 1 => ~tape'.open)
    PROVE  JobInv'
<1>1. LoadCalls(j) \in Seq(Callable(j, Drive)) /\ Len(LoadCalls(j)) = LoadLength(j)
  BY CallsAreSeq
<1>2. k \in 1 .. LoadLength(j)
  BY LoadPlace
<1>3. CASE k < LoadLength(j)
  <2>1. /\ JobOK(job') /\ Alike(job', j) /\ job'.part = "load"
        /\ Remains(job', LoadCalls(j), k + 1)
    BY <1>1, <1>3, GoesOn
  <2>2. /\ LoadCalls(job') = LoadCalls(j) /\ SlotOf(job') = SlotOf(j)
        /\ Carries(inv', job') = Carries(inv', j)
    BY <2>1, SameCalls
  <2>3. k + 1 \in 2 .. 6
    BY <1>2, <1>3 DEF LoadLength
  <2>4. k + 1 > 4 => Label(tape.holds)' = job'.ix
    BY <2>1, <1>2, <2>3 DEF Alike
  <2>5. k + 1 > 2 => /\ tape'.open /\ tape'.holds = files'[Drive] /\ files'[Drive] # Gone
                     /\ job'.loaded /\ ~job'.resident
    BY <2>1, <2>3, <1>2 DEF Alike
  <2>6. ~job'.faulty => Carries(inv', job') /\ (k + 1 < 3 => ~tape'.open)
    BY <2>1, <2>2, <2>3, <1>2 DEF Alike
  <2>7. past'.origin = SlotOf(job') /\ (k + 1 = 2 => (tape'.open => past'.cut))
    BY <2>2, <1>2
  <2>8. Remains(job', LoadCalls(job'), k + 1)
    BY <2>1, <2>2
  <2>9. Loading'
    <3> DEFINE m == k + 1
    <3>1. m \in 1 .. 6 /\ m # 1
      BY <2>3
    <3> HIDE DEF m
    <3>2. /\ Remains(job', LoadCalls(job'), m)
          /\ m = 2 => (tape'.open => past'.cut)
          /\ m > 1 => past'.origin = SlotOf(job')
          /\ m > 2 => /\ tape'.open /\ tape'.holds = files'[Drive] /\ files'[Drive] # Gone
                      /\ job'.loaded /\ ~job'.resident
          /\ m > 4 => Label(tape.holds)' = job'.ix
          /\ ~job'.faulty => /\ m < 3 => ~tape'.open
                             /\ Carries(inv', job')
      BY <2>4, <2>5, <2>6, <2>7, <2>8 DEF m
    <3>3. QED
      BY <3>1, <3>2 DEF Loading
  <2>10. PartOK'
    BY <2>1 DEF PartOK, IdleParts, MediaParts, RobotParts, Alike
  <2>11. QED
    BY <2>1, <2>9, <2>10
    DEF JobInv, Using, Unloading, Undoing, Roboting, PuttingAway, Released
<1>4. CASE k = LoadLength(j)
  <2>1. job' = Completed(j)
    BY <1>1, <1>4, GoesOn
  <2>2. job' = Enter(j, "use", UseCalls(j))
    BY <2>1 DEF Completed
  <2>3. k > 1 /\ (j.checks => k > 3)
    BY <1>4 DEF LoadLength
  <2>4. QED
    BY <2>2, <2>3, EntersUse
<1>5. QED
  BY <1>2, <1>3, <1>4 DEF LoadLength

LEMMA FailsInLoad ==
    ASSUME NEW j, JobOK(j), j.op \in MediaOps, j.part = "load",
           NEW k, Remains(j, LoadCalls(j), k), job' = Fails(j),
           k = 1 => (~j.faulty => ~tape'.open /\ ~inv'[Drive].full),
           k = 2 => /\ tape'.open => past'.cut
                    /\ ~j.faulty => Carries(inv', j) /\ ~tape'.open,
           k > 2 => /\ ~j.faulty => Carries(inv', j) /\ tape'.open,
           k = 5 => /\ past'.origin = SlotOf(j) /\ tape'.open
                    /\ tape'.holds = files'[Drive] /\ files'[Drive] # Gone
                    /\ j.loaded /\ ~j.resident /\ Label(tape.holds)' = j.ix
    PROVE  JobInv'
<1>1. k \in 1 .. 6
  BY LoadPlace DEF LoadLength
<1>2. CASE k = 1
  <2>1. Head(j.todo)[1] = "move"
    BY <1>2, LoadPlace DEF Move
  <2>2. job' = LoadFailed(j)
    BY <2>1 DEF Fails
  <2>3. QED
    BY <1>2, <2>2, LoadHasFailed
<1>3. CASE k = 2
  <2>1. Head(j.todo)[1] = "open"
    BY <1>3, LoadPlace DEF Call
  <2>2. job' = Enter(j, "undo", <<Move(Drive, SlotOf(j))>>)
    BY <2>1 DEF Fails
  <2>3. QED
    BY <1>3, <2>2, EntersUndo
<1>4. CASE k \in {3, 4, 6}
  <2>1. Head(j.todo)[1] \in {"rewind", "check_label", "space"}
    BY <1>4, LoadPlace DEF Call
  <2>2. job' = Enter(j, "best", UnloadCalls(j))
    BY <2>1 DEF Fails
  <2>3. ~j.faulty => tape'.open /\ Carries(inv', j)
    BY <1>4
  <2>4. QED
    BY <2>2, <2>3, EntersUnload
<1>5. CASE k = 5
  <2>1. Head(j.todo)[1] = "rewind_again"
    BY <1>5, LoadPlace DEF Call
  <2>2. job' = Goes(j)
    BY <2>1 DEF Fails
  <2>3. QED
    BY <1>5, <2>2, GoesInLoad
<1>6. QED
  BY <1>1, <1>2, <1>3, <1>4, <1>5

LEMMA GoesInUse ==
    ASSUME NEW j, JobOK(j), j.op \in MediaOps, j.part = "use",
           NEW k, Remains(j, UseCalls(j), k), job' = Goes(j), j.loaded,
           past'.origin = SlotOf(j), tape'.open => tape'.holds = files'[Drive],
           ~j.faulty => /\ Carries(inv', j)
                        /\ k = UseLength(j) => tape'.open
                        /\ k < UseLength(j) => /\ files'[Drive] # Gone /\ ~j.resident
                                               /\ ~tape'.open /\ ~tape'.locked
    PROVE  JobInv'
<1>1. UseCalls(j) \in Seq(Callable(j, Drive)) /\ Len(UseCalls(j)) = UseLength(j)
  BY CallsAreSeq
<1>2. k \in 1 .. UseLength(j)
  BY UsePlace
<1>3. CASE k < UseLength(j)
  <2>1. /\ JobOK(job') /\ Alike(job', j) /\ job'.part = "use"
        /\ Remains(job', UseCalls(j), k + 1)
    BY <1>1, <1>3, GoesOn
  <2>2. k = 1 /\ j.op = "test_tape"
    BY <1>2, <1>3 DEF UseLength
  <2>3. /\ UseCalls(job') = UseCalls(j) /\ SlotOf(job') = SlotOf(j)
        /\ Carries(inv', job') = Carries(inv', j)
    BY <2>1, SameCalls
  <2>4. Remains(job', UseCalls(job'), 2)
    BY <2>1, <2>2, <2>3
  <2>5. ~job'.checks /\ job'.op = "test_tape" /\ job'.loaded
    BY <2>1, <2>2 DEF Alike, JobOK
  <2>6. ~job'.faulty => /\ Carries(inv', job') /\ files'[Drive] # Gone /\ ~job'.resident
                        /\ ~tape'.open /\ ~tape'.locked
    BY <1>3, <2>1, <2>3 DEF Alike
  <2>7. Using'
    BY <2>3, <2>4, <2>5, <2>6 DEF Using
  <2>8. PartOK'
    BY <2>1 DEF PartOK, IdleParts, MediaParts, RobotParts, Alike
  <2>9. QED
    BY <2>1, <2>7, <2>8 DEF JobInv, Loading, Unloading, Undoing, Roboting, PuttingAway, Released
<1>4. CASE k = UseLength(j)
  <2>1. job' = Completed(j)
    BY <1>1, <1>4, GoesOn
  <2>2. PICK n : job' = Unloads(j, n)
    BY <2>1 DEF Completed
  <2>3. QED
    BY <1>4, <2>2, EntersUnloads
<1>5. QED
  BY <1>2, <1>3, <1>4 DEF UseLength

LEMMA GoesInUnload ==
    ASSUME NEW j, JobOK(j), j.op \in MediaOps, j.part \in {"unload", "best"},
           NEW k, Remains(j, UnloadCalls(j), k), job' = Goes(j),
           k = UnloadLength - 1 => ~tape'.open,
           ~j.faulty => /\ k < UnloadLength => Carries(inv', j)
                        /\ k < UnloadLength - 1 => tape'.open
                        /\ k = UnloadLength => ~tape'.open /\ ~inv'[Drive].full
    PROVE  JobInv'
<1>1. UnloadCalls(j) \in Seq(Callable(j, Drive)) /\ Len(UnloadCalls(j)) = UnloadLength
  BY CallsAreSeq
<1>2. k \in 1 .. UnloadLength /\ UnloadLength \in {3, 4}
  BY UnloadPlace DEF UnloadLength
<1>3. CASE k < UnloadLength
  <2>1. /\ JobOK(job') /\ Alike(job', j) /\ job'.part = j.part
        /\ Remains(job', UnloadCalls(j), k + 1)
    BY <1>1, <1>3, GoesOn
  <2>2. UnloadCalls(job') = UnloadCalls(j) /\ Carries(inv', job') = Carries(inv', j)
    BY <2>1, SameCalls
  <2>3. Unloading'
    <3> DEFINE m == k + 1
    <3>1. m \in 1 .. 4 /\ (m = UnloadLength => k = UnloadLength - 1)
          /\ (m < UnloadLength => k < UnloadLength - 1)
      BY <1>2, <1>3
    <3>2. Remains(job', UnloadCalls(job'), m)
      BY <2>1, <2>2
    <3> HIDE DEF m
    <3>3. ~job'.faulty => Carries(inv', job') /\ (m < UnloadLength => tape'.open)
      BY <1>3, <2>1, <2>2, <3>1 DEF Alike
    <3>4. QED
      BY <3>1, <3>2, <3>3 DEF Unloading
  <2>4. PartOK'
    BY <2>1 DEF PartOK, IdleParts, MediaParts, RobotParts, Alike
  <2>5. QED
    BY <2>1, <2>3, <2>4 DEF JobInv, Loading, Using, Undoing, Roboting, PuttingAway, Released
<1>4. CASE k = UnloadLength
  <2>1. job' = Completed(j)
    BY <1>1, <1>4, GoesOn
  <2> DEFINE g == [j EXCEPT !.loaded = FALSE]
  <2>2. JobOK(g) /\ g.op = j.op /\ g.faulty = j.faulty
    BY LoadedIs
  <2>3. IF j.part = "unload" THEN job' = Entry(g, j.next) ELSE job' = LoadFailed(g)
    BY <2>1 DEF Completed
  <2> HIDE DEF g
  <2>4. CASE j.part = "unload"
    BY <1>4, <2>2, <2>3, <2>4, EntersEntry
  <2>5. CASE j.part # "unload"
    BY <1>4, <2>2, <2>3, <2>5, LoadHasFailed
  <2>6. QED
    BY <2>4, <2>5
<1>5. QED
  BY <1>2, <1>3, <1>4

LEMMA FailsInUnload ==
    ASSUME NEW j, JobOK(j), j.op \in MediaOps, j.part \in {"unload", "best"}, j.faulty,
           NEW k, Remains(j, UnloadCalls(j), k), job' = Fails(j),
           k = UnloadLength - 1 => ~tape'.open
    PROVE  JobInv'
<1>1. CASE j.part = "unload"
  <2>1. job' = UnloadFailed(j)
    BY <1>1 DEF Fails
  <2>2. QED
    BY <2>1, UnloadHasFailed
<1>2. CASE j.part = "best"
  <2>1. job' = Goes(j)
    BY <1>2 DEF Fails
  <2>2. QED
    BY <2>1, GoesInUnload
<1>3. QED
  BY <1>1, <1>2

LEMMA EndsUndo ==
    ASSUME NEW j, JobOK(j), j.op \in MediaOps, j.part = "undo", NEW c, j.todo = <<c>>,
           job' = Goes(j) \/ job' = Fails(j),
           ~j.faulty => ~tape'.open /\ ~inv'[Drive].full
    PROVE  JobInv'
<1>1. job' = Goes(j)
  BY DEF Fails
<1>2. job' = LoadFailed(j)
  BY <1>1 DEF Goes, Completed
<1>3. QED
  BY <1>2, LoadHasFailed

LEMMA EndsRobot ==
    ASSUME NEW j, JobOK(j), j.op \notin MediaOps, j.part = "robot", NEW c, j.todo = <<c>>,
           job' = Goes(j) \/ job' = Fails(j)
    PROVE  JobInv'
<1>1. job' = Goes(j)
  BY DEF Fails
<1>2. job' = Over(j)
  BY <1>1 DEF Goes, Completed
<1>3. QED
  BY <1>2, EntersOver

LEMMA GoesInMtio ==
    ASSUME NEW j, JobOK(j), j.op \notin MediaOps, j.part = "mtio",
           NEW to \in Elements, NEW k, Remains(j, MtioCalls(to), k), job' = Goes(j),
           k = MtioLength - 1 => ~tape'.open
    PROVE  JobInv'
<1>1. MtioCalls(to) \in Seq(Callable(j, to)) /\ Len(MtioCalls(to)) = MtioLength
  BY CallsAreSeq
<1>2. k \in 1 .. MtioLength /\ MtioLength \in {4, 5}
  BY MtioPlace DEF MtioLength
<1>3. CASE k < MtioLength
  <2>1. /\ JobOK(job') /\ Alike(job', j) /\ job'.part = "mtio"
        /\ Remains(job', MtioCalls(to), k + 1)
    BY <1>1, <1>3, GoesOn
  <2>2. PuttingAway'
    <3> DEFINE m == k + 1
    <3>1. m \in 1 .. 5 /\ m # 1 /\ (m = MtioLength => k = MtioLength - 1)
      BY <1>2, <1>3
    <3>2. Remains(job', MtioCalls(to), m)
      BY <2>1
    <3> HIDE DEF m
    <3>3. QED
      BY <2>1, <3>1, <3>2 DEF PuttingAway
  <2>3. PartOK'
    BY <2>1 DEF PartOK, IdleParts, MediaParts, RobotParts, Alike
  <2>4. QED
    BY <2>1, <2>2, <2>3 DEF JobInv, Loading, Using, Unloading, Undoing, Roboting, Released
<1>4. CASE k = MtioLength
  <2>1. job' = Completed(j)
    BY <1>1, <1>4, GoesOn
  <2>2. job' = Over(j)
    BY <2>1 DEF Completed
  <2>3. QED
    BY <2>2, EntersOver
<1>5. QED
  BY <1>2, <1>3, <1>4

\* After a best effort on its own the job is over, and nothing is asked of the drive
LEMMA EndsInTrial ==
    ASSUME NEW j, JobOK(j), j.op \notin MediaOps, j.part = "mtio_only", j.todo \in Trials,
           job' = Goes(j) \/ job' = Fails(j)
    PROVE  JobInv'
<1>1. CASE job' = Over(j)
  BY <1>1, EntersOver
<1>2. CASE job' = Goes(j)
  <2>1. CASE Len(j.todo) > 1
    <3>1. job' = [j EXCEPT !.todo = Tail(j.todo)] /\ Tail(j.todo) \in Trials
      BY <1>2, <2>1, TrialIs DEF Goes
    <3>2. /\ JobOK(job') /\ Alike(job', j) /\ job'.part = "mtio_only"
          /\ job'.todo \in Trials
      BY <3>1, TodoIs
    <3>3. PartOK'
      BY <3>2 DEF PartOK, IdleParts, MediaParts, RobotParts, Alike
    <3>4. QED
      BY <3>2, <3>3
      DEF JobInv, Loading, Using, Unloading, Undoing, Roboting, PuttingAway, Released
  <2>2. CASE ~(Len(j.todo) > 1)
    <3>1. job' = Over(j)
      BY <1>2, <2>2 DEF Goes, Completed
    <3>2. QED
      BY <3>1, EntersOver
  <2>3. QED
    BY <2>1, <2>2
<1>3. job' = Over(j) \/ job' = Goes(j)
  BY DEF Fails
<1>4. QED
  BY <1>1, <1>2, <1>3

LEMMA OneRemains ==
    ASSUME NEW S, NEW C \in Seq(S), NEW n \in 1 .. Len(C)
    PROVE  SubSeq(C, n, n) = <<C[n]>>
<1> DEFINE s == SubSeq(C, n, n)
           t == <<C[n]>>
<1>1. Len(C) \in Nat /\ n \in Int /\ C[n] \in S
  BY ElementOfSeq
<1>2. \A i \in n .. n : C[i] \in S
  BY <1>1
<1>3. s \in Seq(S) /\ Len(s) = 1 /\ s[1] = C[n]
  <2>1. /\ SubSeq(C, n, n) \in Seq(S)
        /\ Len(SubSeq(C, n, n)) = IF n <= n THEN n - n + 1 ELSE 0
        /\ \A i \in 1 .. n - n + 1 : SubSeq(C, n, n)[i] = C[n + i - 1]
    <3>1. ASSUME NEW m \in Int, m = n
          PROVE  /\ SubSeq(C, m, n) \in Seq(S)
                 /\ Len(SubSeq(C, m, n)) = IF m <= n THEN n - m + 1 ELSE 0
                 /\ \A i \in 1 .. n - m + 1 : SubSeq(C, m, n)[i] = C[m + i - 1]
      <4>1. \A i \in m .. n : C[i] \in S
        BY <1>2, <3>1
      <4>2. QED
        BY <1>1, <4>1, SubSeqProperties
    <3>2. QED
      BY <1>1, <3>1, Zenon
  <2>2. n <= n /\ n - n + 1 = 1 /\ 1 \in 1 .. n - n + 1 /\ n + 1 - 1 = n
    BY <1>1
  <2>3. Len(SubSeq(C, n, n)) = 1 /\ SubSeq(C, n, n)[1] = C[n]
    BY <2>1, <2>2
  <2>4. QED
    BY <2>1, <2>3
<1>4. t \in Seq(S) /\ Len(t) = 1 /\ t[1] = C[n]
  BY <1>1
<1> HIDE DEF s, t
<1>5. s = t
  <2>1. Len(s) = Len(t) /\ \A i \in 1 .. Len(s) : s[i] = t[i]
    BY <1>3, <1>4
  <2>2. QED
    BY <1>3, <1>4, <2>1, SeqEqual
<1>6. QED
  BY <1>5 DEF s, t

\* A tape the operator wants unloaded is unloaded though the drive does not answer
LEMMA FailsInMtio ==
    ASSUME NEW j, JobOK(j), j.op \notin MediaOps, j.part = "mtio",
           NEW to \in Elements, NEW k, Remains(j, MtioCalls(to), k), job' = Fails(j),
           k = 1 \/ k = MtioLength - 1 => ~tape'.open
    PROVE  JobInv'
<1>1. MtioCalls(to) \in Seq(Callable(j, to)) /\ Len(MtioCalls(to)) = MtioLength
  BY CallsAreSeq
<1>2. k \in 1 .. MtioLength /\ MtioLength \in {4, 5}
  BY MtioPlace DEF MtioLength
<1>3. CASE k = 1
  <2>1. Head(j.todo)[1] = "open" /\ j.todo[Len(j.todo)] = Move(Drive, to)
    BY <1>3, MtioPlace DEF Call
  <2>2. job' = [j EXCEPT !.todo = <<Move(Drive, to)>>]
    BY <2>1 DEF Fails
  <2>3. JobOK(job') /\ Alike(job', j) /\ job'.part = "mtio" /\ job'.todo = <<Move(Drive, to)>>
    BY <2>2, TodoIs
  <2>4. MtioCalls(to)[MtioLength] = Move(Drive, to)
    BY MtioCallsAre DEF MtioLength
  <2>5. Remains(job', MtioCalls(to), MtioLength)
    <3>1. SubSeq(MtioCalls(to), MtioLength, MtioLength) = <<MtioCalls(to)[MtioLength]>>
      BY <1>1, <1>2, OneRemains
    <3>2. QED
      BY <1>1, <1>2, <2>3, <2>4, <3>1 DEF Remains
  <2>6. PuttingAway'
    BY <1>2, <1>3, <2>3, <2>5 DEF PuttingAway
  <2>7. PartOK'
    BY <2>3 DEF PartOK, IdleParts, MediaParts, RobotParts, Alike
  <2>8. QED
    BY <2>3, <2>6, <2>7 DEF JobInv, Loading, Using, Unloading, Undoing, Roboting, Released
<1>4. CASE k # 1
  <2>1. Head(j.todo)[1] # "open"
    BY <1>2, <1>4, MtioPlace DEF Call, Move
  <2>2. job' = Goes(j)
    BY <2>1 DEF Fails
  <2>3. QED
    BY <2>2, GoesInMtio
<1>5. QED
  BY <1>3, <1>4

-----------------------------------------------------------------------------
(* The invariant, and where a job is when a call is next.                    *)

TapeOK == tape \in [open : BOOLEAN, holds : Media \cup {Gone, Blank}, locked : BOOLEAN]

\* An open drive has the tape it was opened with, unless a move was cut off
Held ==
    tape.open => \/ past.cut
                 \/ tape.holds = files[Drive] /\ files[Drive] # Gone

LibraryInv == IInv /\ JobInv /\ TapeOK /\ Held /\ PositionIsTheTapes

\* The job with what a step notes about it, before it goes on
Noted(j) ==
    /\ JobOK(j) /\ j.part = job.part /\ j.todo = job.todo /\ j.op = job.op /\ j.ix = job.ix
    /\ j.checks = job.checks /\ j.resident = job.resident /\ j.table = job.table
    /\ job.loaded => j.loaded
    /\ job.faulty => j.faulty

LEMMA NotedJob == ASSUME JobOK(job) PROVE Noted(job)
BY DEF Noted

LEMMA NotedFaulty == ASSUME JobOK(job) PROVE Noted(Faulty(job)) /\ Faulty(job).faulty
<1> DEFINE k == Faulty(job)
<1>1. /\ JobOK(k) /\ k.faulty /\ k.part = job.part /\ k.todo = job.todo
      /\ k.op = job.op /\ k.ix = job.ix /\ k.loaded = job.loaded /\ k.checks = job.checks
      /\ k.resident = job.resident /\ k.table = job.table
  BY FaultyIs
<1> HIDE DEF k
<1>2. Noted(k) /\ k.faulty
  BY <1>1 DEF Noted
<1>3. QED
  BY <1>2 DEF k

LEMMA NotedArmless ==
    ASSUME JobOK(job), NEW k, k = [Faulty(job) EXCEPT !.armless = TRUE]
    PROVE  Noted(k) /\ k.faulty
BY DEF JobOK, Shaped, Faulty, Noted

LEMMA NotedLoaded ==
    ASSUME JobOK(job), NEW k, k = [job EXCEPT !.loaded = @ \/ job.part = "load"]
    PROVE  Noted(k) /\ (job.part = "load" => k.loaded)
BY DEF JobOK, Shaped, Noted

LEMMA NotedCalls ==
    ASSUME NEW j, Noted(j)
    PROVE  /\ SlotOf(j) = SlotOf(job) /\ LoadCalls(j) = LoadCalls(job)
           /\ UnloadCalls(j) = UnloadCalls(job) /\ UseCalls(j) = UseCalls(job)
           /\ UseLength(j) = UseLength(job)
           /\ \A i : Carries(i, j) = Carries(i, job)
           /\ \A C, k : Remains(j, C, k) = Remains(job, C, k)
BY DEF Noted, SlotOf, LoadCalls, UnloadCalls, UseCalls, UseLength, Carries, Remains

LEMMA Busy ==
    ASSUME JobInv, NEW name, NextIs(name)
    PROVE  /\ job.part \in MediaParts \cup RobotParts
           /\ job.part \in MediaParts => job.op \in MediaOps
           /\ job.part \in RobotParts => job.op \notin MediaOps
BY DEF JobInv, PartOK, NextIs

LEMMA NameInLoad ==
    ASSUME NEW k, Remains(job, LoadCalls(job), k), NEW name, NextIs(name)
    PROVE  /\ k \in 1 .. 6
           /\ name = "move" <=> k = 1
           /\ name = "open" <=> k = 2
           /\ name = "rewind" <=> k = 3
           /\ name = "check_label" <=> k = 4
           /\ name = "rewind_again" <=> k = 5
           /\ name = "space" <=> k = 6
           /\ k = 1 => Source = SlotOf(job) /\ Target = Drive
<1>1. /\ k \in 1 .. 6 /\ Head(job.todo)[1] = name
      /\ k = 1 => Head(job.todo) = <<"move", SlotOf(job), Drive>>
      /\ k = 2 => Head(job.todo) = <<"open", Gone, Gone>>
      /\ k = 3 => Head(job.todo) = <<"rewind", Gone, Gone>>
      /\ k = 4 => Head(job.todo) = <<"check_label", Gone, Gone>>
      /\ k = 5 => Head(job.todo) = <<"rewind_again", Gone, Gone>>
      /\ k = 6 => Head(job.todo) = <<"space", Gone, Gone>>
  BY LoadPlace DEF NextIs, LoadLength, Move, Call
<1>2. QED
  BY <1>1 DEF Source, Target

LEMMA NameInUnload ==
    ASSUME NEW k, Remains(job, UnloadCalls(job), k), NEW name, NextIs(name)
    PROVE  /\ k \in 1 .. UnloadLength
           /\ name = "move" <=> k = UnloadLength
           /\ name = "close" <=> k = UnloadLength - 1
           /\ name \in {"rewind", "eject"} <=> k < UnloadLength - 1
           /\ k = UnloadLength => Source = Drive /\ Target = SlotOf(job)
<1>1. /\ k \in 1 .. UnloadLength /\ UnloadLength \in {3, 4} /\ Head(job.todo)[1] = name
      /\ k = UnloadLength => Head(job.todo) = <<"move", Drive, SlotOf(job)>>
      /\ k = UnloadLength - 1 => Head(job.todo) = <<"close", Gone, Gone>>
      /\ k < UnloadLength - 1 =>
             Head(job.todo) \in {<<"rewind", Gone, Gone>>, <<"eject", Gone, Gone>>}
  BY UnloadPlace DEF NextIs, UnloadLength, Move, Call
<1>2. QED
  BY <1>1 DEF Source, Target

LEMMA NameInTrial ==
    ASSUME job.todo \in Trials, NEW name, NextIs(name)
    PROVE  name \in {"open", "rewind", "eject", "close"}
BY TrialIs DEF NextIs

LEMMA NameInMtio ==
    ASSUME NEW to, NEW k, Remains(job, MtioCalls(to), k), NEW name, NextIs(name)
    PROVE  /\ k \in 1 .. MtioLength
           /\ name = "move" <=> k = MtioLength
           /\ name = "close" <=> k = MtioLength - 1
           /\ name = "open" <=> k = 1
           /\ name \in {"rewind", "eject"} <=> 1 < k /\ k < MtioLength - 1
           /\ k = MtioLength => Source = Drive /\ Target = to
<1>1. /\ k \in 1 .. MtioLength /\ MtioLength \in {4, 5} /\ Head(job.todo)[1] = name
      /\ k = MtioLength => Head(job.todo) = <<"move", Drive, to>>
      /\ k = MtioLength - 1 => Head(job.todo) = <<"close", Gone, Gone>>
      /\ k = 1 => Head(job.todo) = <<"open", Gone, Gone>>
      /\ 1 < k /\ k < MtioLength - 1 =>
             Head(job.todo) \in {<<"rewind", Gone, Gone>>, <<"eject", Gone, Gone>>}
  BY MtioPlace DEF NextIs, MtioLength, Move, Call
<1>2. QED
  BY <1>1 DEF Source, Target

LEMMA NameInUse ==
    ASSUME job.op \in MediaOps, NEW k, Remains(job, UseCalls(job), k), NEW name, NextIs(name)
    PROVE  /\ k \in 1 .. UseLength(job)
           /\ name = "close" <=> job.op = "test_tape" /\ k = 1
           /\ name = "open" <=> job.op = "test_tape" /\ k = 2
           /\ name = "write_label" <=> job.op = "init_labels"
           /\ name = "read_label" <=> job.op = "list_labels"
           /\ name = "work" <=> job.op \in {"backup", "recover"}
           /\ name \in {"close", "open", "write_label", "read_label", "work"}
<1>1. /\ k \in 1 .. UseLength(job) /\ UseLength(job) \in {1, 2} /\ Head(job.todo)[1] = name
      /\ job.op = "test_tape" /\ k = 1 => Head(job.todo) = <<"close", Gone, Gone>>
      /\ job.op = "test_tape" /\ k = 2 => Head(job.todo) = <<"open", Gone, Gone>>
      /\ job.op = "init_labels" => Head(job.todo) = <<"write_label", Gone, Gone>>
      /\ job.op = "list_labels" => Head(job.todo) = <<"read_label", Gone, Gone>>
      /\ job.op \notin {"test_tape", "init_labels", "list_labels"} =>
             Head(job.todo) = <<"work", Gone, Gone>>
  BY UsePlace DEF NextIs, UseLength, Move, Call
<1>2. k \in {1, 2} /\ (job.op # "test_tape" => k = 1)
  BY <1>1 DEF UseLength
<1>3. QED
  BY <1>1, <1>2 DEF MediaOps

-----------------------------------------------------------------------------
(* Moves.                                                                    *)

LEMMA RecordedIs ==
    ASSUME LibraryTypes, NEW src, NEW dst, MayMove(src, dst), inv' = Recorded(src, dst)
    PROVE  /\ src \in Elements /\ dst \in Elements /\ src # dst
           /\ ~inv'[src].full /\ inv'[dst].full
<1>1. src \in Elements /\ dst \in Elements /\ inv[src].full /\ ~inv[dst].full /\ src # dst
  BY DEF MayMove
<1>2. inv[src] \in [full : BOOLEAN, source : Elements]
  BY <1>1 DEF LibraryTypes
<1>3. [inv[src] EXCEPT !.source = src].full = inv[src].full
  BY <1>2
<1>4. inv'[src].full = FALSE /\ inv'[dst] = [inv[src] EXCEPT !.source = src]
  BY <1>1, <1>2 DEF Recorded, LibraryTypes
<1>5. QED
  BY <1>1, <1>3, <1>4

\* Nothing is moved into or out of an open drive, unless a move was cut off before
LEMMA MovedClosed ==
    ASSUME LibraryInv, NextIs("move"), MayMove(Source, Target), tape.open, ~past.cut
    PROVE  Drive \notin {Source, Target}
<1>1. /\ job.part \in MediaParts \cup RobotParts /\ files[Drive] # Gone /\ Drive \in Elements
  BY Busy, Addresses DEF LibraryInv, Held
<1>2. inv[Drive].full
  BY <1>1 DEF LibraryInv, IInv, InventoryKnows
<1>3. CASE job.part = "load"
  <2>1. PICK k \in 1 .. 6 : Remains(job, LoadCalls(job), k)
    BY <1>3 DEF LibraryInv, JobInv, Loading
  <2>2. Target = Drive
    BY <2>1, NameInLoad
  <2>3. QED
    BY <1>2, <2>2 DEF MayMove
<1>4. CASE job.part = "use"
  <2>1. PICK k \in 1 .. 2 : Remains(job, UseCalls(job), k)
    BY <1>4 DEF LibraryInv, JobInv, Using
  <2>2. FALSE
    BY <1>4, <2>1, NameInUse, Busy DEF MediaParts, LibraryInv
  <2>3. QED
    BY <2>2
<1>5. CASE job.part \in {"unload", "best"}
  <2>1. PICK k \in 1 .. 4 : /\ Remains(job, UnloadCalls(job), k)
                            /\ k = UnloadLength => ~tape.open
    BY <1>5 DEF LibraryInv, JobInv, Unloading
  <2>2. QED
    BY <2>1, NameInUnload
<1>6. CASE job.part = "undo"
  BY <1>6 DEF LibraryInv, JobInv, Undoing
<1>7. CASE job.part = "robot"
  BY <1>7 DEF LibraryInv, JobInv, Roboting
<1>8. CASE job.part = "mtio"
  <2>1. PICK to \in Elements, k \in 1 .. 5 : /\ Remains(job, MtioCalls(to), k)
                                             /\ k = MtioLength => ~tape.open
    BY <1>8 DEF LibraryInv, JobInv, PuttingAway
  <2>2. QED
    BY <2>1, NameInMtio
<1>9. job.part # "mtio_only"
  BY NameInTrial DEF LibraryInv, JobInv, PuttingAway
<1>10. QED
  BY <1>1, <1>3, <1>4, <1>5, <1>6, <1>7, <1>8, <1>9 DEF MediaParts, RobotParts

LEMMA CarriedElsewhere ==
    ASSUME LibraryTypes, files' = Carried(Source, Target), Drive \notin {Source, Target}
    PROVE  files'[Drive] = files[Drive]
<1> DEFINE src == Source
           dst == Target
           m == IF files[src] = Gone THEN Blank ELSE files[src]
<1>1. files' = [[files EXCEPT ![dst] = m] EXCEPT ![src] = Gone]
  BY DEF Carried
<1>2. src # Drive /\ dst # Drive
  OBVIOUS
<1>3. Drive \in DOMAIN files /\ files = [e \in DOMAIN files |-> files[e]]
  BY Addresses DEF LibraryTypes
<1> HIDE DEF src, dst, m
<1>4. QED
  BY <1>1, <1>2, <1>3

\* What a move makes of what the drive and the position have
LEMMA MoveKeepsDrive ==
    ASSUME LibraryInv, NextIs("move"), MayMove(Source, Target), UNCHANGED tape,
           files' = Carried(Source, Target),
           position' \in {position, PositionAfter(Source, Target)},
           past.cut => past'.cut,
           position' = PositionAfter(Source, Target) \/ past'.cut
    PROVE  TapeOK' /\ Held' /\ PositionIsTheTapes'
<1>1. TapeOK'
  BY DEF TapeOK, LibraryInv
<1>2. Drive \notin {Source, Target} => files'[Drive] = files[Drive]
  BY CarriedElsewhere DEF LibraryInv, IInv
<1>3. Held'
  BY <1>2, MovedClosed DEF LibraryInv, Held
<1>4. PositionIsTheTapes'
  <2>1. CASE past'.cut
    BY <2>1 DEF PositionIsTheTapes
  <2>2. CASE ~past'.cut /\ Drive \in {Source, Target}
    BY <2>2 DEF PositionIsTheTapes, PositionAfter
  <2>3. CASE ~past'.cut /\ Drive \notin {Source, Target}
    BY <1>2, <2>3 DEF PositionIsTheTapes, PositionAfter, LibraryInv
  <2>4. QED
    BY <2>1, <2>2, <2>3
<1>5. QED
  BY <1>1, <1>3, <1>4

\* A move that succeeds, in every part that has one
LEMMA MoveGoes ==
    ASSUME LibraryInv, NextIs("move"), MayMove(Source, Target), NEW j, Noted(j),
           job' = Goes(j), UNCHANGED <<tape, label>>, files' = Carried(Source, Target),
           past'.origin = OriginAfter(Source, Target), past.cut => past'.cut,
           ~j.faulty => inv' = Recorded(Source, Target)
    PROVE  JobInv'
<1>1. /\ job.part \in MediaParts \cup RobotParts /\ JobOK(job) /\ JobOK(j)
      /\ job.part \in MediaParts => j.op \in MediaOps
      /\ job.part \in RobotParts => j.op \notin MediaOps
      /\ j.part = job.part /\ j.todo = job.todo
      /\ ~j.faulty => ~job.faulty
  BY Busy DEF LibraryInv, JobInv, Noted
<1>2. /\ SlotOf(j) = SlotOf(job) /\ LoadCalls(j) = LoadCalls(job)
      /\ UnloadCalls(j) = UnloadCalls(job)
      /\ \A C, k : Remains(j, C, k) = Remains(job, C, k)
  BY NotedCalls
<1>3. ~j.faulty => /\ Source \in Elements /\ Target \in Elements /\ Source # Target
                   /\ ~inv'[Source].full /\ inv'[Target].full
  BY RecordedIs DEF LibraryInv, IInv
<1>4. CASE job.part = "load"
  <2>1. PICK k \in 1 .. 6 : /\ Remains(job, LoadCalls(job), k)
                            /\ ~job.faulty => (k < 3 => ~tape.open)
    BY <1>4 DEF LibraryInv, JobInv, Loading
  <2>2. k = 1 /\ Source = SlotOf(job) /\ Target = Drive
    BY <2>1, NameInLoad
  <2>3. Remains(j, LoadCalls(j), k)
    BY <1>2, <2>1
  <2>4. past'.origin = SlotOf(j)
    BY <1>2, <2>2 DEF OriginAfter
  <2>5. tape'.open => past'.cut
    BY <2>2, MovedClosed
  <2>6. ~j.faulty => Carries(inv', j) /\ ~tape'.open
    BY <1>1, <1>2, <1>3, <2>1, <2>2 DEF Carries
  <2>7. j.op \in MediaOps /\ j.part = "load"
    BY <1>1, <1>4 DEF MediaParts
  <2>8. QED
    BY <1>1, <2>2, <2>3, <2>4, <2>5, <2>6, <2>7, GoesInLoad
<1>5. CASE job.part = "use"
  <2>1. PICK k \in 1 .. 2 : Remains(job, UseCalls(job), k)
    BY <1>5 DEF LibraryInv, JobInv, Using
  <2>2. FALSE
    BY <1>5, <2>1, NameInUse, Busy DEF MediaParts, LibraryInv
  <2>3. QED
    BY <2>2
<1>6. CASE job.part \in {"unload", "best"}
  <2>1. PICK k \in 1 .. 4 : /\ Remains(job, UnloadCalls(job), k)
                            /\ k = UnloadLength => ~tape.open
    BY <1>6 DEF LibraryInv, JobInv, Unloading
  <2>2. k = UnloadLength /\ Source = Drive
    BY <2>1, NameInUnload
  <2>3. Remains(j, UnloadCalls(j), k)
    BY <1>2, <2>1
  <2>4. ~j.faulty => ~tape'.open /\ ~inv'[Drive].full
    BY <1>3, <2>1, <2>2
  <2>5. j.op \in MediaOps /\ j.part \in {"unload", "best"}
    BY <1>1, <1>6 DEF MediaParts
  <2>6. UnloadLength \in {3, 4}
    BY DEF UnloadLength
  <2>7. QED
    BY <1>1, <2>2, <2>3, <2>4, <2>5, <2>6, GoesInUnload
<1>7. CASE job.part = "undo"
  <2>1. /\ job.todo = <<Move(Drive, SlotOf(job))>>
        /\ ~job.faulty => ~tape.open
    BY <1>7 DEF LibraryInv, JobInv, Undoing
  <2>2. Source = Drive
    BY <2>1 DEF Source, Move
  <2>3. ~j.faulty => ~tape'.open /\ ~inv'[Drive].full
    BY <1>1, <1>3, <2>1, <2>2
  <2>4. j.op \in MediaOps /\ j.part = "undo" /\ j.todo = <<Move(Drive, SlotOf(job))>>
    BY <1>1, <1>7, <2>1 DEF MediaParts
  <2>5. QED
    BY <1>1, <2>3, <2>4, EndsUndo
<1>8. CASE job.part = "robot"
  <2>1. PICK a, b \in Elements : job.todo = <<Move(a, b)>>
    BY <1>8 DEF LibraryInv, JobInv, Roboting
  <2>2. j.op \notin MediaOps /\ j.part = "robot" /\ j.todo = <<Move(a, b)>>
    BY <1>1, <1>8, <2>1 DEF RobotParts
  <2>3. QED
    BY <1>1, <2>2, EndsRobot
<1>9. CASE job.part = "mtio"
  <2>1. PICK to \in Elements, k \in 1 .. 5 : Remains(job, MtioCalls(to), k)
    BY <1>9 DEF LibraryInv, JobInv, PuttingAway
  <2>2. k = MtioLength /\ MtioLength \in {4, 5}
    BY <2>1, NameInMtio DEF MtioLength
  <2>3. Remains(j, MtioCalls(to), k) /\ j.op \notin MediaOps /\ j.part = "mtio"
    BY <1>1, <1>2, <1>9, <2>1 DEF RobotParts
  <2>4. QED
    BY <1>1, <2>2, <2>3, GoesInMtio
<1>10. job.part # "mtio_only"
  BY NameInTrial DEF LibraryInv, JobInv, PuttingAway
<1>11. QED
  BY <1>1, <1>4, <1>5, <1>6, <1>7, <1>8, <1>9, <1>10 DEF MediaParts, RobotParts

\* One that fails, or is refused: what a sound job asks for is not
LEMMA MoveFailing ==
    ASSUME LibraryInv, NextIs("move"), NEW j, Noted(j), job' = Fails(j), UNCHANGED tape,
           ~j.faulty => ~MayMove(Source, Target) /\ inv' = inv
    PROVE  JobInv'
<1>1. /\ job.part \in MediaParts \cup RobotParts /\ JobOK(job) /\ JobOK(j)
      /\ job.part \in MediaParts => j.op \in MediaOps
      /\ job.part \in RobotParts => j.op \notin MediaOps
      /\ j.part = job.part /\ j.todo = job.todo
      /\ ~j.faulty => ~job.faulty
  BY Busy DEF LibraryInv, JobInv, Noted
<1>2. /\ SlotOf(j) = SlotOf(job) /\ LoadCalls(j) = LoadCalls(job)
      /\ UnloadCalls(j) = UnloadCalls(job)
      /\ \A C, k : Remains(j, C, k) = Remains(job, C, k)
  BY NotedCalls
<1>3. CASE job.part = "load"
  <2>1. PICK k \in 1 .. 6 : /\ Remains(job, LoadCalls(job), k)
                            /\ ~job.faulty => /\ k = 1 => ~inv[Drive].full
                                              /\ k < 3 => ~tape.open
    BY <1>3 DEF LibraryInv, JobInv, Loading
  <2>2. k = 1
    BY <2>1, NameInLoad
  <2>3. Remains(j, LoadCalls(j), k)
    BY <1>2, <2>1
  <2>4. j.op \in MediaOps /\ j.part = "load"
    BY <1>1, <1>3 DEF MediaParts
  <2>5. ~j.faulty => ~tape'.open /\ ~inv'[Drive].full
    BY <1>1, <2>1, <2>2
  <2>6. QED
    BY <1>1, <2>2, <2>3, <2>4, <2>5, FailsInLoad
<1>4. CASE job.part = "use"
  <2>1. PICK k \in 1 .. 2 : Remains(job, UseCalls(job), k)
    BY <1>4 DEF LibraryInv, JobInv, Using
  <2>2. FALSE
    BY <1>4, <2>1, NameInUse, Busy DEF MediaParts, LibraryInv
  <2>3. QED
    BY <2>2
<1>5. CASE job.part \in {"unload", "best"}
  <2>1. PICK k \in 1 .. 4 : /\ Remains(job, UnloadCalls(job), k)
                            /\ ~job.faulty => Carries(inv, job)
    BY <1>5 DEF LibraryInv, JobInv, Unloading
  <2>2. k = UnloadLength /\ Source = Drive /\ Target = SlotOf(job)
    BY <2>1, NameInUnload
  <2>3. j.faulty
    BY <1>1, <2>1, <2>2, Addresses DEF Carries, MayMove
  <2>4. Remains(j, UnloadCalls(j), k) /\ j.op \in MediaOps /\ j.part \in {"unload", "best"}
    BY <1>1, <1>2, <1>5, <2>1 DEF MediaParts
  <2>5. UnloadLength \in {3, 4}
    BY DEF UnloadLength
  <2>6. QED
    BY <1>1, <2>2, <2>3, <2>4, <2>5, FailsInUnload
<1>6. CASE job.part = "undo"
  <2>1. /\ job.todo = <<Move(Drive, SlotOf(job))>>
        /\ ~job.faulty => Carries(inv, job)
    BY <1>6 DEF LibraryInv, JobInv, Undoing
  <2>2. Source = Drive /\ Target = SlotOf(job)
    BY <2>1 DEF Source, Target, Move
  <2>3. j.faulty
    BY <1>1, <2>1, <2>2, Addresses DEF Carries, MayMove
  <2>4. j.op \in MediaOps /\ j.part = "undo" /\ j.todo = <<Move(Drive, SlotOf(job))>>
    BY <1>1, <1>6, <2>1 DEF MediaParts
  <2>5. QED
    BY <1>1, <2>3, <2>4, EndsUndo
<1>7. CASE job.part = "robot"
  <2>1. PICK a, b \in Elements : job.todo = <<Move(a, b)>>
    BY <1>7 DEF LibraryInv, JobInv, Roboting
  <2>2. j.op \notin MediaOps /\ j.part = "robot" /\ j.todo = <<Move(a, b)>>
    BY <1>1, <1>7, <2>1 DEF RobotParts
  <2>3. QED
    BY <1>1, <2>2, EndsRobot
<1>8. CASE job.part = "mtio"
  <2>1. PICK to \in Elements, k \in 1 .. 5 : Remains(job, MtioCalls(to), k)
    BY <1>8 DEF LibraryInv, JobInv, PuttingAway
  <2>2. k = MtioLength /\ MtioLength \in {4, 5}
    BY <2>1, NameInMtio DEF MtioLength
  <2>3. Remains(j, MtioCalls(to), k) /\ j.op \notin MediaOps /\ j.part = "mtio"
    BY <1>1, <1>2, <1>8, <2>1 DEF RobotParts
  <2>4. k # 1 /\ k # MtioLength - 1
    BY <2>2
  <2>5. QED
    BY <1>1, <2>3, <2>4, FailsInMtio
<1>9. job.part # "mtio_only"
  BY NameInTrial DEF LibraryInv, JobInv, PuttingAway
<1>10. QED
  BY <1>1, <1>3, <1>4, <1>5, <1>6, <1>7, <1>8, <1>9 DEF MediaParts, RobotParts

-----------------------------------------------------------------------------
(* Each action keeps what IInv does not say.                                 *)

JobAndDrive == JobInv /\ TapeOK /\ Held /\ PositionIsTheTapes

LEMMA DriveKept ==
    ASSUME LibraryInv, UNCHANGED <<files, tape, position>>, past.cut => past'.cut
    PROVE  TapeOK' /\ Held' /\ PositionIsTheTapes'
BY DEF LibraryInv, TapeOK, Held, PositionIsTheTapes

LEMMA PastIs ==
    ASSUME LibraryTypes, NEW o, past' = [past EXCEPT !.origin = o]
    PROVE  past'.origin = o /\ past'.cut = past.cut
BY DEF LibraryTypes

LEMMA MovesKeepsJob == ASSUME LibraryInv, Moves PROVE JobAndDrive'
<1>1. /\ NextIs("move") /\ MayMove(Source, Target)
      /\ files' = Carried(Source, Target) /\ position' = PositionAfter(Source, Target)
      /\ UNCHANGED <<tape, label>>
  BY DEF Moves
<1>2. JobOK(job)
  BY DEF LibraryInv, JobInv
<1>3. CASE /\ inv' = Recorded(Source, Target) /\ job' = Goes(job)
           /\ past' = [past EXCEPT !.origin = OriginAfter(Source, Target)]
  <2>1. past'.origin = OriginAfter(Source, Target) /\ past'.cut = past.cut
    BY <1>3, PastIs DEF LibraryInv, IInv
  <2>2. JobInv'
    BY <1>1, <1>2, <1>3, <2>1, NotedJob, MoveGoes
  <2>3. TapeOK' /\ Held' /\ PositionIsTheTapes'
    BY <1>1, <2>1, MoveKeepsDrive
  <2>4. QED
    BY <2>2, <2>3 DEF JobAndDrive
<1>4. CASE /\ job' = Goes(Faulty(job))
           /\ past' = [cut |-> TRUE, origin |-> OriginAfter(Source, Target)]
  <2>1. past'.origin = OriginAfter(Source, Target) /\ past'.cut
    BY <1>4
  <2>2. JobInv'
    BY <1>1, <1>2, <1>4, <2>1, NotedFaulty, MoveGoes
  <2>3. TapeOK' /\ Held' /\ PositionIsTheTapes'
    BY <1>1, <2>1, MoveKeepsDrive
  <2>4. QED
    BY <2>2, <2>3 DEF JobAndDrive
<1>5. QED
  BY <1>3, <1>4 DEF Moves

LEMMA MoveRefusedKeepsJob == ASSUME LibraryInv, MoveRefused PROVE JobAndDrive'
<1>1. /\ NextIs("move") /\ job' = Fails(job)
      /\ Answers(job) => ~MayMove(Source, Target)
      /\ UNCHANGED <<files, inv, position, tape, past>>
  BY DEF MoveRefused
<1>2. JobOK(job)
  BY DEF LibraryInv, JobInv
<1>3. ~job.faulty => ~MayMove(Source, Target)
  BY <1>1, <1>2 DEF JobOK, Answers
<1>4. JobInv'
  BY <1>1, <1>2, <1>3, NotedJob, MoveFailing
<1>5. QED
  BY <1>1, <1>4, DriveKept DEF JobAndDrive

LEMMA MoveFailsKeepsJob == ASSUME LibraryInv, MoveFails PROVE JobAndDrive'
<1>1. /\ NextIs("move") /\ job' = Fails(Faulty(job))
      /\ UNCHANGED <<files, inv, position, tape, past>>
  BY DEF MoveFails
<1>2. JobOK(job)
  BY DEF LibraryInv, JobInv
<1>3. JobInv'
  BY <1>1, <1>2, NotedFaulty, MoveFailing
<1>4. QED
  BY <1>1, <1>3, DriveKept DEF JobAndDrive

LEMMA MoveTornKeepsJob == ASSUME LibraryInv, MoveTorn PROVE JobAndDrive'
<1> DEFINE j == [Faulty(job) EXCEPT !.armless = TRUE]
<1>1. /\ NextIs("move") /\ MayMove(Source, Target) /\ job' = Fails(j)
      /\ files' = Carried(Source, Target) /\ UNCHANGED tape
      /\ position' \in {position, PositionAfter(Source, Target)}
      /\ past' = [cut |-> TRUE, origin |-> OriginAfter(Source, Target)]
  BY DEF MoveTorn
<1>2. Noted(j) /\ j.faulty
  BY NotedArmless DEF LibraryInv, JobInv
<1> HIDE DEF j
<1>3. JobInv'
  BY <1>1, <1>2, MoveFailing
<1>4. past'.cut
  BY <1>1
<1>5. TapeOK' /\ Held' /\ PositionIsTheTapes'
  BY <1>1, <1>4, MoveKeepsDrive
<1>6. QED
  BY <1>3, <1>5 DEF JobAndDrive

-----------------------------------------------------------------------------
(* The drive is opened.                                                      *)

LEMMA NotOpening ==
    ASSUME LibraryInv, NEW name, name # "move", NextIs(name)
    PROVE  job.part \in {"load", "use", "unload", "best", "mtio", "mtio_only"}
<1>1. job.part \in MediaParts \cup RobotParts
  BY Busy DEF LibraryInv
<1>2. CASE job.part = "undo"
  <2>1. job.todo = <<Move(Drive, SlotOf(job))>>
    BY <1>2 DEF LibraryInv, JobInv, Undoing
  <2>2. QED
    BY <2>1 DEF NextIs, Move
<1>3. CASE job.part = "robot"
  <2>1. PICK a, b \in Elements : job.todo = <<Move(a, b)>>
    BY <1>3 DEF LibraryInv, JobInv, Roboting
  <2>2. QED
    BY <2>1 DEF NextIs, Move
<1>4. QED
  BY <1>1, <1>2, <1>3 DEF MediaParts, RobotParts

LEMMA MediaJob ==
    ASSUME LibraryInv, NEW j, Noted(j)
    PROVE  /\ JobOK(j) /\ j.part = job.part
           /\ job.part \in MediaParts => j.op \in MediaOps /\ job.op \in MediaOps
           /\ job.part \in RobotParts => j.op \notin MediaOps
           /\ ~j.faulty => ~job.faulty
           /\ job.loaded => j.loaded
           /\ j.resident = job.resident /\ j.ix = job.ix /\ j.checks = job.checks
           /\ SlotOf(j) = SlotOf(job) /\ UseLength(j) = UseLength(job)
           /\ \A i : Carries(i, j) = Carries(i, job)
           /\ \A k : /\ Remains(j, LoadCalls(j), k) = Remains(job, LoadCalls(job), k)
                     /\ Remains(j, UseCalls(j), k) = Remains(job, UseCalls(job), k)
                     /\ Remains(j, UnloadCalls(j), k) = Remains(job, UnloadCalls(job), k)
           /\ \A to, k : Remains(j, MtioCalls(to), k) = Remains(job, MtioCalls(to), k)
<1>1. /\ SlotOf(j) = SlotOf(job) /\ LoadCalls(j) = LoadCalls(job)
      /\ UnloadCalls(j) = UnloadCalls(job) /\ UseCalls(j) = UseCalls(job)
      /\ UseLength(j) = UseLength(job)
      /\ \A i : Carries(i, j) = Carries(i, job)
      /\ \A C, k : Remains(j, C, k) = Remains(job, C, k)
  BY NotedCalls
<1>2. QED
  BY <1>1 DEF LibraryInv, JobInv, PartOK, Noted

\* In a best effort on its own, whatever a call does
LEMMA TriesOn ==
    ASSUME LibraryInv, job.part = "mtio_only", NEW j, Noted(j),
           job' = Goes(j) \/ job' = Fails(j)
    PROVE  JobInv'
<1>1. JobOK(j) /\ j.op \notin MediaOps /\ j.part = "mtio_only" /\ j.todo \in Trials
  BY MediaJob DEF Noted, RobotParts, LibraryInv, JobInv, PuttingAway
<1>2. QED
  BY <1>1, EndsInTrial

LEMMA OpensKeepsJob == ASSUME LibraryInv, Opens PROVE JobAndDrive'
<1> DEFINE j == [job EXCEPT !.loaded = @ \/ job.part = "load"]
<1>1. /\ NextIs("open") /\ ~Refused(job) /\ tape' = Opened /\ position' = Gone
      /\ job' = Goes(j) /\ UNCHANGED <<files, inv, past, label>>
  BY DEF Opens
<1>2. Noted(j) /\ (job.part = "load" => j.loaded)
  BY NotedLoaded DEF LibraryInv, JobInv
<1> HIDE DEF j
<1>3. /\ ~job.resident /\ ~tape.open /\ files[Drive] # Gone
      /\ tape'.open /\ tape'.holds = files'[Drive] /\ files'[Drive] # Gone
      /\ tape' = [open |-> TRUE, holds |-> files[Drive], locked |-> TRUE]
  BY <1>1 DEF Refused, RobotOpen, Opened
<1>4. JobInv'
  <2>1. CASE job.part = "load"
    <3>1. PICK k \in 1 .. 6 : /\ Remains(job, LoadCalls(job), k)
                              /\ k > 1 => past.origin = SlotOf(job)
                              /\ ~job.faulty => (k > 1 => Carries(inv, job))
      BY <2>1 DEF LibraryInv, JobInv, Loading
    <3>2. k = 2
      BY <1>1, <3>1, NameInLoad
    <3>3. /\ JobOK(j) /\ j.op \in MediaOps /\ j.part = "load" /\ Remains(j, LoadCalls(j), k)
          /\ past'.origin = SlotOf(j) /\ j.loaded /\ ~j.resident
          /\ ~j.faulty => Carries(inv', j)
      BY <1>1, <1>2, <1>3, <2>1, <3>1, <3>2, MediaJob DEF MediaParts
    <3>4. k # 1 /\ ~(k > 3) /\ k > 1
      BY <3>2
    <3>5. QED
      BY <1>1, <1>3, <3>3, <3>4, GoesInLoad
  <2>2. CASE job.part = "use"
    <3>1. PICK k \in 1 .. 2 : /\ Remains(job, UseCalls(job), k)
                              /\ job.loaded /\ past.origin = SlotOf(job)
                              /\ ~job.faulty => Carries(inv, job)
      BY <2>2 DEF LibraryInv, JobInv, Using
    <3>2. /\ JobOK(j) /\ j.op \in MediaOps /\ j.part = "use" /\ Remains(j, UseCalls(j), k)
          /\ past'.origin = SlotOf(j) /\ j.loaded /\ UseLength(j) = UseLength(job)
          /\ ~j.faulty => Carries(inv', j)
      BY <1>1, <1>2, <2>2, <3>1, MediaJob DEF MediaParts
    <3>3. job.op \in MediaOps
      BY <1>2, <2>2, MediaJob DEF MediaParts
    <3>4. k = 2 /\ UseLength(job) = 2
      BY <1>1, <3>1, <3>3, NameInUse DEF UseLength
    <3>5. ~(k < UseLength(j))
      BY <3>2, <3>4
    <3>6. QED
      BY <1>1, <1>3, <3>2, <3>5, GoesInUse
  <2>3. CASE job.part \in {"unload", "best"}
    <3>1. PICK k \in 1 .. 4 : Remains(job, UnloadCalls(job), k)
      BY <2>3 DEF LibraryInv, JobInv, Unloading
    <3>2. FALSE
      <4>1. UnloadLength \in {3, 4}
        BY DEF UnloadLength
      <4>2. QED
        BY <1>1, <3>1, <4>1, NameInUnload
    <3>3. QED
      BY <3>2
  <2>4. CASE job.part = "mtio"
    <3>1. PICK to \in Elements, k \in 1 .. 5 : Remains(job, MtioCalls(to), k)
      BY <2>4 DEF LibraryInv, JobInv, PuttingAway
    <3>2. k = 1 /\ k # MtioLength - 1
      BY <1>1, <3>1, NameInMtio DEF MtioLength
    <3>3. /\ JobOK(j) /\ j.op \notin MediaOps /\ j.part = "mtio"
          /\ Remains(j, MtioCalls(to), k)
      BY <1>2, <2>4, <3>1, MediaJob DEF RobotParts
    <3>4. QED
      BY <1>1, <3>2, <3>3, GoesInMtio
  <2>5. CASE job.part = "mtio_only"
    BY <1>1, <1>2, <2>5, TriesOn
  <2>6. QED
    BY <1>1, <2>1, <2>2, <2>3, <2>4, <2>5, NotOpening
<1>5. TapeOK'
  <2>1. files[Drive] \in Media \cup {Gone, Blank}
    BY Addresses DEF LibraryInv, IInv, LibraryTypes
  <2>2. QED
    BY <1>3, <2>1 DEF TapeOK
<1>6. Held' /\ PositionIsTheTapes'
  BY <1>1, <1>3 DEF Held, PositionIsTheTapes
<1>7. QED
  BY <1>4, <1>5, <1>6 DEF JobAndDrive

\* An opening that is refused, or fails: the tape of a sound job is put back
LEMMA OpenFailing ==
    ASSUME LibraryInv, NextIs("open"), NEW j, Noted(j), job' = Fails(j),
           UNCHANGED <<files, inv, past, label>>,
           tape'.open = tape.open, tape'.holds = tape.holds,
           ~j.faulty => Refused(job)
    PROVE  JobInv'
<1>1. CASE job.part = "load"
  <2>1. PICK k \in 1 .. 6 : /\ Remains(job, LoadCalls(job), k)
                            /\ k = 2 => (tape.open => past.cut)
                            /\ ~job.faulty => /\ k < 3 => ~tape.open
                                              /\ k > 1 => Carries(inv, job)
    BY <1>1 DEF LibraryInv, JobInv, Loading
  <2>2. k = 2
    BY <2>1, NameInLoad
  <2>3. k # 1 /\ ~(k > 2) /\ k # 5
    BY <2>2
  <2>4. /\ JobOK(j) /\ j.op \in MediaOps /\ j.part = "load" /\ Remains(j, LoadCalls(j), k)
        /\ tape'.open => past'.cut
        /\ ~j.faulty => Carries(inv', j) /\ ~tape'.open
    BY <1>1, <2>1, <2>2, MediaJob DEF MediaParts
  <2>5. QED
    BY <2>3, <2>4, FailsInLoad
<1>2. CASE job.part = "use"
  <2>1. PICK k \in 1 .. 2 : /\ Remains(job, UseCalls(job), k)
                            /\ job.loaded /\ past.origin = SlotOf(job)
                            /\ tape.open => tape.holds = files[Drive]
                            /\ ~job.faulty => /\ files[Drive] # Gone /\ ~job.resident
                                              /\ k = 2 => ~tape.open /\ ~tape.locked
    BY <1>2 DEF LibraryInv, JobInv, Using
  <2>2. /\ JobOK(j) /\ j.op \in MediaOps /\ j.part = "use" /\ Remains(j, UseCalls(j), k)
        /\ past'.origin = SlotOf(j) /\ j.loaded
        /\ ~j.faulty => ~job.faulty
    BY <1>2, <2>1, MediaJob DEF MediaParts
  <2>3. job.op \in MediaOps
    BY <1>2, MediaJob DEF MediaParts
  <2>4. k = 2 /\ job.op = "test_tape"
    BY <2>1, <2>3, NameInUse
  <2>5. j.faulty
    BY <2>1, <2>2, <2>4 DEF Refused, RobotOpen, Writes
  <2>6. job' = Goes(j)
    BY <2>2 DEF Fails
  <2>7. tape'.open => tape'.holds = files'[Drive]
    BY <2>1
  <2>8. QED
    BY <2>2, <2>5, <2>6, <2>7, GoesInUse
<1>3. CASE job.part \in {"unload", "best"}
  <2>1. PICK k \in 1 .. 4 : Remains(job, UnloadCalls(job), k)
    BY <1>3 DEF LibraryInv, JobInv, Unloading
  <2>2. UnloadLength \in {3, 4}
    BY DEF UnloadLength
  <2>3. FALSE
    BY <2>1, <2>2, NameInUnload
  <2>4. QED
    BY <2>3
<1>4. CASE job.part = "mtio"
  <2>1. PICK to \in Elements, k \in 1 .. 5 : /\ Remains(job, MtioCalls(to), k)
                                             /\ k = 1 => ~tape.open
    BY <1>4 DEF LibraryInv, JobInv, PuttingAway
  <2>2. k = 1
    BY <2>1, NameInMtio
  <2>3. /\ JobOK(j) /\ j.op \notin MediaOps /\ j.part = "mtio"
        /\ Remains(j, MtioCalls(to), k)
    BY <1>4, <2>1, MediaJob DEF RobotParts
  <2>4. QED
    BY <2>1, <2>2, <2>3, FailsInMtio
<1>5. CASE job.part = "mtio_only"
  BY <1>5, TriesOn
<1>6. QED
  BY <1>1, <1>2, <1>3, <1>4, <1>5, NotOpening

LEMMA OpenRefusedKeepsJob == ASSUME LibraryInv, OpenRefused PROVE JobAndDrive'
<1>1. /\ NextIs("open") /\ Refused(job) /\ job' = Fails(job)
      /\ UNCHANGED <<files, inv, position, tape, label, past>>
  BY DEF OpenRefused
<1>2. JobInv'
  BY <1>1, NotedJob, OpenFailing DEF LibraryInv, JobInv
<1>3. QED
  BY <1>1, <1>2, DriveKept DEF JobAndDrive

LEMMA OpenFailsKeepsJob == ASSUME LibraryInv, OpenFails PROVE JobAndDrive'
<1>1. /\ NextIs("open") /\ job' = Fails(Faulty(job)) /\ tape' = [tape EXCEPT !.locked = TRUE]
      /\ UNCHANGED <<files, inv, position, label, past>>
  BY DEF OpenFails
<1>2. /\ tape' \in [open : BOOLEAN, holds : Media \cup {Gone, Blank}, locked : BOOLEAN]
      /\ tape'.open = tape.open /\ tape'.holds = tape.holds
  BY <1>1 DEF LibraryInv, TapeOK
<1>3. JobInv'
  BY <1>1, <1>2, NotedFaulty, OpenFailing DEF LibraryInv, JobInv
<1>4. TapeOK' /\ Held' /\ PositionIsTheTapes'
  BY <1>1, <1>2 DEF LibraryInv, TapeOK, Held, PositionIsTheTapes
<1>5. QED
  BY <1>3, <1>4 DEF JobAndDrive

-----------------------------------------------------------------------------
(* The open drive does what it is asked, or does not.                        *)

OnDeck == DeckCalls \cup {"write_label"}

\* What the job knows when it has the drive do something
LEMMA AtDeck ==
    ASSUME LibraryInv, NEW name \in OnDeck, NextIs(name)
    PROVE  /\ job.part \in {"load", "use", "unload", "best", "mtio", "mtio_only"}
           /\ job.part = "load" => name \in {"rewind", "check_label", "rewind_again", "space"}
           /\ job.part = "use" => name \in {"write_label", "read_label"}
           /\ job.part \notin {"load", "use"} => name \in {"rewind", "eject"}
<1>1. name \notin {"move", "open", "close", "work"}
  BY DEF OnDeck, DeckCalls
<1>2. job.part \in {"load", "use", "unload", "best", "mtio", "mtio_only"}
  BY <1>1, NotOpening
<1>3. ASSUME job.part = "load" PROVE name \in {"rewind", "check_label", "rewind_again", "space"}
  <2>1. PICK k \in 1 .. 6 : Remains(job, LoadCalls(job), k)
    BY <1>3 DEF LibraryInv, JobInv, Loading
  <2>2. QED
    BY <1>1, <2>1, NameInLoad
<1>4. ASSUME job.part = "use" PROVE name \in {"write_label", "read_label"}
  <2>1. PICK k \in 1 .. 2 : Remains(job, UseCalls(job), k)
    BY <1>4 DEF LibraryInv, JobInv, Using
  <2>2. job.op \in MediaOps
    BY <1>4, Busy DEF LibraryInv, MediaParts
  <2>3. QED
    BY <1>1, <2>1, <2>2, NameInUse
<1>5. ASSUME job.part \in {"unload", "best"} PROVE name \in {"rewind", "eject"}
  <2>1. PICK k \in 1 .. 4 : Remains(job, UnloadCalls(job), k)
    BY <1>5 DEF LibraryInv, JobInv, Unloading
  <2>2. UnloadLength \in {3, 4}
    BY DEF UnloadLength
  <2>3. QED
    BY <1>1, <2>1, <2>2, NameInUnload
<1>6. ASSUME job.part = "mtio" PROVE name \in {"rewind", "eject"}
  <2>1. PICK to \in Elements, k \in 1 .. 5 : Remains(job, MtioCalls(to), k)
    BY <1>6 DEF LibraryInv, JobInv, PuttingAway
  <2>2. MtioLength \in {4, 5}
    BY DEF MtioLength
  <2>3. QED
    BY <1>1, <2>1, <2>2, NameInMtio
<1>7. ASSUME job.part = "mtio_only" PROVE name \in {"rewind", "eject"}
  BY <1>1, <1>7, NameInTrial DEF LibraryInv, JobInv, PuttingAway
<1>8. QED
  BY <1>2, <1>3, <1>4, <1>5, <1>6, <1>7

\* A call that succeeds; the label, if it is checked, is the one of the entry
LEMMA DeckGoes ==
    ASSUME LibraryInv, NEW name \in OnDeck, NextIs(name), job' = Goes(job),
           UNCHANGED <<files, inv, tape, past>>,
           job.part = "load" => label' = label,
           name = "check_label" => Label(tape.holds) = job.ix
    PROVE  JobInv'
<1>1. JobOK(job) /\ Noted(job)
  BY NotedJob DEF LibraryInv, JobInv
<1>2. CASE job.part = "load"
  <2>1. PICK k \in 1 .. 6 :
            /\ Remains(job, LoadCalls(job), k)
            /\ k > 1 => past.origin = SlotOf(job)
            /\ k > 2 => /\ tape.open /\ tape.holds = files[Drive] /\ files[Drive] # Gone
                        /\ job.loaded /\ ~job.resident
            /\ k > 4 => Label(tape.holds) = job.ix
            /\ ~job.faulty => (k > 1 => Carries(inv, job))
    BY <1>2 DEF LibraryInv, JobInv, Loading
  <2>2. k \in 3 .. 6 /\ (name = "check_label" <=> k = 4)
    BY <1>2, <2>1, NameInLoad, AtDeck
  <2>3. k # 1 /\ k > 1 /\ k > 2 /\ (k > 3 => k = 4 \/ k > 4)
    BY <2>2
  <2>4. k > 3 => Label(tape.holds)' = job.ix
    BY <1>2, <2>1, <2>2, <2>3 DEF Label
  <2>5. job.op \in MediaOps
    BY <1>2, Busy DEF LibraryInv, MediaParts
  <2>6. QED
    BY <1>1, <1>2, <2>1, <2>3, <2>4, <2>5, GoesInLoad
<1>3. CASE job.part = "use"
  <2>1. PICK k \in 1 .. 2 : /\ Remains(job, UseCalls(job), k)
                            /\ job.loaded /\ past.origin = SlotOf(job)
                            /\ tape.open => tape.holds = files[Drive]
                            /\ ~job.faulty => /\ Carries(inv, job)
                                              /\ k = 1 => tape.open
    BY <1>3 DEF LibraryInv, JobInv, Using
  <2>2. job.op \in MediaOps
    BY <1>3, Busy DEF LibraryInv, MediaParts
  <2>3. k = 1 /\ UseLength(job) = 1
    BY <1>3, <2>1, <2>2, NameInUse, AtDeck DEF UseLength
  <2>4. ~(k < UseLength(job))
    BY <2>3
  <2>5. QED
    BY <1>1, <1>3, <2>1, <2>2, <2>3, <2>4, GoesInUse
<1>4. CASE job.part \in {"unload", "best"}
  <2>1. PICK k \in 1 .. 4 : /\ Remains(job, UnloadCalls(job), k)
                            /\ ~job.faulty => /\ Carries(inv, job)
                                              /\ k < UnloadLength => tape.open
    BY <1>4 DEF LibraryInv, JobInv, Unloading
  <2>2. k < UnloadLength - 1
    BY <1>4, <2>1, NameInUnload, AtDeck
  <2>3. UnloadLength \in {3, 4}
    BY DEF UnloadLength
  <2>4. k # UnloadLength /\ k # UnloadLength - 1 /\ k < UnloadLength
    BY <2>2, <2>3
  <2>5. job.op \in MediaOps
    BY <1>4, Busy DEF LibraryInv, MediaParts
  <2>6. QED
    BY <1>1, <1>4, <2>1, <2>4, <2>5, GoesInUnload
<1>5. CASE job.part = "mtio"
  <2>1. PICK to \in Elements, k \in 1 .. 5 : Remains(job, MtioCalls(to), k)
    BY <1>5 DEF LibraryInv, JobInv, PuttingAway
  <2>2. k < MtioLength - 1
    BY <1>5, <2>1, NameInMtio, AtDeck
  <2>3. MtioLength \in {4, 5}
    BY DEF MtioLength
  <2>4. k # MtioLength - 1
    BY <2>2, <2>3
  <2>5. job.op \notin MediaOps
    BY <1>5, Busy DEF LibraryInv, RobotParts
  <2>6. QED
    BY <1>1, <1>5, <2>1, <2>4, <2>5, GoesInMtio
<1>6. CASE job.part = "mtio_only"
  BY <1>1, <1>6, TriesOn
<1>7. QED
  BY <1>2, <1>3, <1>4, <1>5, <1>6, AtDeck

\* One that fails.  A sound job sees only a wrong label.
LEMMA DeckFailing ==
    ASSUME LibraryInv, NEW name \in OnDeck, NextIs(name), NEW j, Noted(j), job' = Fails(j),
           UNCHANGED <<files, inv, tape, past, label>>,
           ~j.faulty => ~Satisfied(name)
    PROVE  JobInv'
<1>1. CASE job.part = "load"
  <2>1. PICK k \in 1 .. 6 :
            /\ Remains(job, LoadCalls(job), k)
            /\ k > 1 => past.origin = SlotOf(job)
            /\ k > 2 => /\ tape.open /\ tape.holds = files[Drive] /\ files[Drive] # Gone
                        /\ job.loaded /\ ~job.resident
            /\ k > 4 => Label(tape.holds) = job.ix
            /\ ~job.faulty => (k > 1 => Carries(inv, job))
    BY <1>1 DEF LibraryInv, JobInv, Loading
  <2>2. k \in 3 .. 6
    BY <1>1, <2>1, NameInLoad, AtDeck
  <2>3. k # 1 /\ k # 2 /\ k > 1 /\ k > 2 /\ (k = 5 => k > 4)
    BY <2>2
  <2>4. /\ JobOK(j) /\ j.op \in MediaOps /\ j.part = "load" /\ Remains(j, LoadCalls(j), k)
        /\ past'.origin = SlotOf(j) /\ j.loaded /\ ~j.resident
        /\ ~j.faulty => Carries(inv', j)
        /\ j.ix = job.ix
    BY <1>1, <2>1, <2>3, MediaJob DEF MediaParts
  <2>5. k = 5 => Label(tape.holds)' = j.ix
    BY <2>1, <2>3, <2>4 DEF Label
  <2>6. QED
    BY <2>1, <2>3, <2>4, <2>5, FailsInLoad
<1>2. CASE job.part = "use"
  <2>1. PICK k \in 1 .. 2 : /\ Remains(job, UseCalls(job), k)
                            /\ job.loaded /\ past.origin = SlotOf(job)
                            /\ tape.open => tape.holds = files[Drive]
                            /\ ~job.faulty => /\ Carries(inv, job)
                                              /\ k = 1 => tape.open
    BY <1>2 DEF LibraryInv, JobInv, Using
  <2>2. /\ JobOK(j) /\ j.op \in MediaOps /\ j.part = "use" /\ Remains(j, UseCalls(j), k)
        /\ past'.origin = SlotOf(j) /\ j.loaded
        /\ ~j.faulty => ~job.faulty /\ Carries(inv', j)
        /\ UseLength(j) = UseLength(job)
    BY <1>2, <2>1, MediaJob DEF MediaParts
  <2>3. job.op \in MediaOps
    BY <1>2, Busy DEF LibraryInv, MediaParts
  <2>4. k = 1 /\ UseLength(job) = 1
    BY <1>2, <2>1, <2>3, NameInUse, AtDeck DEF UseLength
  <2>5. ~(k < UseLength(j))
    BY <2>2, <2>4
  <2>6. job' = Goes(j)
    BY <2>2 DEF Fails
  <2>7. QED
    BY <2>1, <2>2, <2>4, <2>5, <2>6, GoesInUse
<1>3. CASE job.part \in {"unload", "best"}
  <2>1. PICK k \in 1 .. 4 : /\ Remains(job, UnloadCalls(job), k)
                            /\ ~job.faulty => (k < UnloadLength => tape.open)
    BY <1>3 DEF LibraryInv, JobInv, Unloading
  <2>2. k < UnloadLength - 1 /\ name \in {"rewind", "eject"}
    BY <1>3, <2>1, NameInUnload, AtDeck
  <2>3. UnloadLength \in {3, 4}
    BY DEF UnloadLength
  <2>4. k # UnloadLength - 1 /\ k < UnloadLength
    BY <2>2, <2>3
  <2>5. /\ JobOK(j) /\ j.op \in MediaOps /\ j.part \in {"unload", "best"}
        /\ Remains(j, UnloadCalls(j), k)
        /\ ~j.faulty => ~job.faulty
    BY <1>3, <2>1, MediaJob DEF MediaParts
  <2>6. j.faulty
    BY <2>1, <2>2, <2>4, <2>5 DEF Satisfied
  <2>7. QED
    BY <2>4, <2>5, <2>6, FailsInUnload
<1>4. CASE job.part = "mtio"
  <2>1. PICK to \in Elements, k \in 1 .. 5 : /\ Remains(job, MtioCalls(to), k)
                                             /\ k = 1 => ~tape.open
    BY <1>4 DEF LibraryInv, JobInv, PuttingAway
  <2>2. k < MtioLength - 1
    BY <1>4, <2>1, NameInMtio, AtDeck
  <2>3. MtioLength \in {4, 5}
    BY DEF MtioLength
  <2>4. k # MtioLength - 1
    BY <2>2, <2>3
  <2>5. /\ JobOK(j) /\ j.op \notin MediaOps /\ j.part = "mtio"
        /\ Remains(j, MtioCalls(to), k)
    BY <1>4, <2>1, MediaJob DEF RobotParts
  <2>6. QED
    BY <2>1, <2>4, <2>5, FailsInMtio
<1>5. CASE job.part = "mtio_only"
  BY <1>5, TriesOn
<1>6. QED
  BY <1>1, <1>2, <1>3, <1>4, <1>5, AtDeck

LEMMA DeckKeepsJob == ASSUME LibraryInv, Deck PROVE JobAndDrive'
<1>1. PICK name \in DeckCalls :
        NextIs(name) /\ job' = IF Satisfied(name) THEN Goes(job) ELSE Fails(job)
  BY DEF Deck
<1>2. UNCHANGED <<files, inv, position, tape, label, past>> /\ name \in OnDeck
  BY <1>1 DEF Deck, OnDeck
<1>3. CASE Satisfied(name)
  <2>1. job' = Goes(job) /\ (name = "check_label" => Label(tape.holds) = job.ix)
    BY <1>1, <1>3 DEF Satisfied
  <2>2. JobInv'
    BY <1>1, <1>2, <2>1, DeckGoes
  <2>3. QED
    BY <1>2, <2>2, DriveKept DEF JobAndDrive
<1>4. CASE ~Satisfied(name)
  <2>1. job' = Fails(job) /\ Noted(job)
    BY <1>1, <1>4, NotedJob DEF LibraryInv, JobInv
  <2>2. JobInv'
    BY <1>1, <1>2, <1>4, <2>1, DeckFailing
  <2>3. QED
    BY <1>2, <2>2, DriveKept DEF JobAndDrive
<1>5. QED
  BY <1>3, <1>4

LEMMA DeckFailsKeepsJob == ASSUME LibraryInv, DeckFails PROVE JobAndDrive'
<1>1. /\ \E name \in OnDeck : NextIs(name)
      /\ job' = Fails(Faulty(job))
      /\ UNCHANGED <<files, inv, position, tape, label, past>>
  BY DEF DeckFails, OnDeck
<1>2. Noted(Faulty(job)) /\ Faulty(job).faulty
  BY NotedFaulty DEF LibraryInv, JobInv
<1>3. JobInv'
  BY <1>1, <1>2, DeckFailing
<1>4. QED
  BY <1>1, <1>3, DriveKept DEF JobAndDrive

LEMMA WritesLabelKeepsJob == ASSUME LibraryInv, WritesLabel PROVE JobAndDrive'
<1>1. /\ NextIs("write_label") /\ job' = Goes(job) /\ "write_label" \in OnDeck
      /\ UNCHANGED <<files, inv, position, tape, past>>
  BY DEF WritesLabel, OnDeck
<1>2. job.part # "load"
  BY <1>1, AtDeck
<1>3. JobInv'
  BY <1>1, <1>2, DeckGoes
<1>4. QED
  BY <1>1, <1>3, DriveKept DEF JobAndDrive

-----------------------------------------------------------------------------
(* The tape is used, and the drive closed.                                   *)

LEMMA WorksKeepsJob == ASSUME LibraryInv, Works PROVE JobAndDrive'
<1>1. /\ NextIs("work") /\ UNCHANGED <<files, inv, position, tape, past>>
      /\ \/ \E next : job' = Unloads(job, next)
         \/ job' = Over(Faulty(job))
  BY DEF Works
<1>2. JobOK(job) /\ job.part \in {"load", "use", "unload", "best", "mtio", "mtio_only"}
  BY <1>1, NotOpening DEF LibraryInv, JobInv
<1>3. job.part = "use"
  <2>1. job.part # "load"
    BY <1>1, NameInLoad DEF LibraryInv, JobInv, Loading
  <2>2. job.part \notin {"unload", "best"}
    <3>1. ASSUME job.part \in {"unload", "best"} PROVE FALSE
      <4>1. PICK k \in 1 .. 4 : Remains(job, UnloadCalls(job), k)
        BY <3>1 DEF LibraryInv, JobInv, Unloading
      <4>2. UnloadLength \in {3, 4}
        BY DEF UnloadLength
      <4>3. QED
        BY <1>1, <4>1, <4>2, NameInUnload
    <3>2. QED
      BY <3>1
  <2>3. job.part # "mtio"
    <3>1. ASSUME job.part = "mtio" PROVE FALSE
      <4>1. PICK to \in Elements, k \in 1 .. 5 : Remains(job, MtioCalls(to), k)
        BY <3>1 DEF LibraryInv, JobInv, PuttingAway
      <4>2. MtioLength \in {4, 5}
        BY DEF MtioLength
      <4>3. QED
        BY <1>1, <4>1, <4>2, NameInMtio
    <3>2. QED
      BY <3>1
  <2>4. job.part # "mtio_only"
    BY <1>1, NameInTrial DEF LibraryInv, JobInv, PuttingAway
  <2>5. QED
    BY <1>2, <2>1, <2>2, <2>3, <2>4
<1>4. job.op \in MediaOps
  BY <1>1, <1>3, Busy DEF LibraryInv, MediaParts
<1>5. ~job.faulty => job.loaded /\ tape'.open /\ Carries(inv', job)
  <2>1. PICK k \in 1 .. 2 : /\ Remains(job, UseCalls(job), k)
                            /\ job.loaded
                            /\ job.op # "test_tape" => tape.open
                            /\ ~job.faulty => Carries(inv, job)
    BY <1>3 DEF LibraryInv, JobInv, Using
  <2>2. job.op # "test_tape"
    BY <1>1, <1>4, <2>1, NameInUse
  <2>3. QED
    BY <1>1, <2>1, <2>2
<1>6. JobInv'
  <2>1. CASE \E next : job' = Unloads(job, next)
    BY <1>2, <1>4, <1>5, <2>1, EntersUnloads
  <2>2. CASE job' = Over(Faulty(job))
    BY <1>2, <2>2, FaultyIs, EntersOver
  <2>3. QED
    BY <1>1, <2>1, <2>2
<1>7. QED
  BY <1>1, <1>6, DriveKept DEF JobAndDrive

LEMMA ClosesKeepsJob == ASSUME LibraryInv, Closes PROVE JobAndDrive'
<1>1. /\ NextIs("close") /\ job' = Goes(job)
      /\ tape' = IF tape.open THEN Closed ELSE tape
      /\ position' = IF tape.open THEN tape.holds ELSE position
      /\ UNCHANGED <<files, inv, label, past>>
  BY DEF Closes
<1>2. JobOK(job) /\ job.part \in {"load", "use", "unload", "best", "mtio", "mtio_only"}
  BY <1>1, NotOpening DEF LibraryInv, JobInv
<1>3. ~tape'.open /\ (tape.open => ~tape'.locked)
  BY <1>1 DEF Closed
<1>4. JobInv'
  <2>1. CASE job.part = "load"
    <3>1. PICK k \in 1 .. 6 : Remains(job, LoadCalls(job), k)
      BY <2>1 DEF LibraryInv, JobInv, Loading
    <3>2. QED
      BY <1>1, <3>1, NameInLoad
  <2>2. CASE job.part = "use"
    <3>1. PICK k \in 1 .. 2 : /\ Remains(job, UseCalls(job), k)
                              /\ job.loaded /\ past.origin = SlotOf(job)
                              /\ ~job.faulty => /\ Carries(inv, job)
                                                /\ k = 1 => tape.open
                                                /\ files[Drive] # Gone /\ ~job.resident
      BY <2>2 DEF LibraryInv, JobInv, Using
    <3>2. job.op \in MediaOps
      BY <1>1, <2>2, Busy DEF LibraryInv, MediaParts
    <3>3. k = 1 /\ UseLength(job) = 2
      BY <1>1, <3>1, <3>2, NameInUse DEF UseLength
    <3>4. k # UseLength(job)
      BY <3>3
    <3>5. QED
      BY <1>1, <1>2, <1>3, <2>2, <3>1, <3>2, <3>3, <3>4, GoesInUse
  <2>3. CASE job.part \in {"unload", "best"}
    <3>1. PICK k \in 1 .. 4 : /\ Remains(job, UnloadCalls(job), k)
                              /\ ~job.faulty => Carries(inv, job)
      BY <2>3 DEF LibraryInv, JobInv, Unloading
    <3>2. k = UnloadLength - 1
      BY <1>1, <3>1, NameInUnload
    <3>3. UnloadLength \in {3, 4}
      BY DEF UnloadLength
    <3>4. k # UnloadLength /\ ~(k < UnloadLength - 1)
      BY <3>2, <3>3
    <3>5. job.op \in MediaOps
      BY <1>1, <2>3, Busy DEF LibraryInv, MediaParts
    <3>6. QED
      BY <1>1, <1>2, <1>3, <2>3, <3>1, <3>4, <3>5, GoesInUnload
  <2>4. CASE job.part = "mtio"
    <3>1. PICK to \in Elements, k \in 1 .. 5 : Remains(job, MtioCalls(to), k)
      BY <2>4 DEF LibraryInv, JobInv, PuttingAway
    <3>2. job.op \notin MediaOps
      BY <1>1, <2>4, Busy DEF LibraryInv, RobotParts
    <3>3. QED
      BY <1>1, <1>2, <1>3, <2>4, <3>1, <3>2, GoesInMtio
  <2>5. CASE job.part = "mtio_only"
    <3>1. Noted(job)
      BY <1>2, NotedJob
    <3>2. QED
      BY <1>1, <2>5, <3>1, TriesOn
  <2>6. QED
    BY <1>2, <2>1, <2>2, <2>3, <2>4, <2>5
<1>5. TapeOK' /\ Held' /\ PositionIsTheTapes'
  BY <1>1, <1>3 DEF LibraryInv, TapeOK, Held, PositionIsTheTapes, Closed
<1>6. QED
  BY <1>4, <1>5 DEF JobAndDrive

-----------------------------------------------------------------------------
(* Jobs begin, look at the robot and end.                                    *)

\* A job without calls, and not one that is over, has the drive closed
LEMMA Rests ==
    ASSUME JobOK(job'), job'.part \in IdleParts \ {"over"}, job'.todo = <<>>, ~tape'.open,
           job'.part = "start" => job'.ix = 0,
           job'.part = "look_again" => job'.op \notin MediaOps
    PROVE  JobInv'
<1>1. PartOK'
  BY DEF PartOK, IdleParts, MediaParts, RobotParts
<1>2. QED
  BY <1>1 DEF IdleParts, JobInv, Loading, Using, Unloading, Undoing, Roboting, PuttingAway,
              Released

LEMMA Idle ==
    ASSUME LibraryInv, job.part \in IdleParts \ {"over"}
    PROVE  ~tape.open /\ JobOK(job) /\ job.todo = <<>>
BY DEF LibraryInv, JobInv, PartOK

LEMMA BeginsKeepsJob == ASSUME LibraryInv, Begins PROVE JobAndDrive'
<1>1. PICK op \in MediaOps, resident \in BOOLEAN, checks \in BOOLEAN :
        /\ op \notin {"backup", "recover"} => ~checks
        /\ \E table : job' = [NoJob EXCEPT !.op = op, !.part = "start",
                                           !.resident = resident, !.checks = checks,
                                           !.table = table]
  BY DEF Begins
<1>2. job.part = "idle" /\ UNCHANGED <<files, inv, position, tape, past>>
  BY DEF Begins
<1>3. /\ JobOK(job') /\ job'.part = "start" /\ job'.todo = <<>> /\ job'.ix = 0
  BY <1>1, Addresses DEF NoJob, JobOK, Shaped
<1>4. ~tape'.open
  BY <1>2, Idle DEF IdleParts
<1>5. JobInv'
  BY <1>3, <1>4, Rests DEF IdleParts
<1>6. QED
  BY <1>2, <1>5, DriveKept DEF JobAndDrive

LEMMA BeginsMovingKeepsJob == ASSUME LibraryInv, BeginsMoving PROVE JobAndDrive'
<1>1. PICK op \in RobotOps, from \in Elements, to \in Elements, resident \in BOOLEAN :
        job' = [NoJob EXCEPT !.op = op, !.part = "start", !.from = from, !.to = to,
                             !.resident = resident]
  BY DEF BeginsMoving
<1>2. job.part = "idle" /\ UNCHANGED <<files, inv, position, tape, past>>
  BY DEF BeginsMoving
<1>3. JobOK(job') /\ job'.part = "start" /\ job'.todo = <<>> /\ job'.ix = 0
  BY <1>1 DEF NoJob, JobOK, Shaped
<1>4. ~tape'.open
  BY <1>2, Idle DEF IdleParts
<1>5. JobInv'
  BY <1>3, <1>4, Rests DEF IdleParts
<1>6. QED
  BY <1>2, <1>5, DriveKept DEF JobAndDrive

LEMMA EntersMtio ==
    ASSUME NEW j, JobOK(j), j.op \notin MediaOps, NEW to \in Elements,
           job' = Enter(j, "mtio", MtioCalls(to)), ~tape'.open
    PROVE  JobInv'
<1>1. JobOK(job') /\ Alike(job', j) /\ job'.part = "mtio" /\ job'.todo = MtioCalls(to)
  BY EnterIs
<1>2. MtioCalls(to) \in Seq(Callable(j, to)) /\ Len(MtioCalls(to)) = MtioLength
  BY CallsAreSeq
<1>3. MtioLength > 0
  BY DEF MtioLength
<1>4. Remains(job', MtioCalls(to), 1)
  <2>1. Len(MtioCalls(to)) > 0
    BY <1>2, <1>3
  <2>2. QED
    BY <1>1, <1>2, <2>1, WholeRemains
<1>5. PuttingAway'
  BY <1>1, <1>4 DEF PuttingAway
<1>6. PartOK'
  BY <1>1 DEF PartOK, IdleParts, MediaParts, RobotParts, Alike
<1>7. QED
  BY <1>1, <1>5, <1>6 DEF JobInv, Loading, Using, Unloading, Undoing, Roboting, Released

LEMMA EntersTrial ==
    ASSUME NEW j, JobOK(j), j.op \notin MediaOps, job' = Enter(j, "mtio_only", MtioOnly)
    PROVE  JobInv'
<1>1. JobOK(job') /\ Alike(job', j) /\ job'.part = "mtio_only" /\ job'.todo = MtioOnly
  BY EnterIs
<1>2. PuttingAway'
  BY <1>1, MtioOnlyIs DEF PuttingAway
<1>3. PartOK'
  BY <1>1 DEF PartOK, IdleParts, MediaParts, RobotParts, Alike
<1>4. QED
  BY <1>1, <1>2, <1>3 DEF JobInv, Loading, Using, Unloading, Undoing, Roboting, Released

LEMMA TabledIs ==
    ASSUME NEW j, JobOK(j), NEW k, k = Tabled(j)
    PROVE  JobOK(k) /\ k.op = j.op /\ k.faulty = j.faulty
BY DEF JobOK, Shaped, Tabled

\* What the robot was seen to have
LEMMA LookedKeeps ==
    ASSUME LibraryInv, job.part \in {"start", "look_again"}, NEW j, Noted(j),
           job' = Looked(j), UNCHANGED tape, ~j.faulty => inv' = inv
    PROVE  JobInv'
<1>1. /\ JobOK(j) /\ j.part = job.part /\ ~tape'.open
      /\ j.part = "look_again" => j.op \notin MediaOps
      /\ j.part = "start" => j.ix = 0
  BY DEF LibraryInv, JobInv, PartOK, Noted, IdleParts
<1>2. inv[Drive].source \in Elements /\ Slots \subseteq Elements /\ Door \in Elements
  BY Addresses DEF LibraryInv, IInv, LibraryTypes, Elements
<1>3. CASE j.part = "look_again"
  <2>1. CASE job' = Over(j)
    BY <1>1, <1>3, <2>1, EntersOver
  <2>2. CASE job' = Enter(j, "robot", <<Move(Drive, inv[Drive].source)>>)
    BY <1>1, <1>2, <1>3, <2>2, EntersRobot, Addresses
  <2>3. QED
    BY <1>3, <2>1, <2>2 DEF Looked, Returns, SeenSource
<1>4. CASE j.part = "start" /\ j.op \in MediaOps
  <2>1. job' = IF inv[Drive].full THEN Over(j) ELSE Entry(Tabled(j), 1)
    BY <1>4 DEF Looked, MediaOps
  <2>2. CASE inv[Drive].full
    <3>1. ~(j.ix > 0) /\ job' = Over(j)
      BY <1>1, <1>4, <2>1, <2>2
    <3>2. QED
      BY <1>1, <3>1, EntersOver
  <2>3. CASE ~inv[Drive].full
    <3> DEFINE k == Tabled(j)
    <3>1. JobOK(k) /\ k.op = j.op /\ k.faulty = j.faulty
      BY <1>1, TabledIs
    <3>2. job' = Entry(k, 1)
      BY <2>1, <2>3
    <3> HIDE DEF k
    <3>3. ~k.faulty => ~tape'.open /\ ~inv'[Drive].full
      BY <1>1, <2>3, <3>1
    <3>4. QED
      BY <1>4, <3>1, <3>2, <3>3, EntersEntry
  <2>4. QED
    BY <2>2, <2>3
<1>5. CASE j.part = "start" /\ j.op = "remedy"
  <2>1. job' = Over(j) \/ job' = Enter(j, "look_again", <<>>)
    BY <1>5 DEF Looked, MediaOps
  <2>2. j.op \notin MediaOps
    BY <1>5 DEF MediaOps
  <2>3. CASE job' = Over(j)
    BY <1>1, <2>2, <2>3, EntersOver
  <2>4. CASE job' = Enter(j, "look_again", <<>>)
    <3>1. JobOK(job') /\ Alike(job', j) /\ job'.part = "look_again" /\ job'.todo = <<>>
      BY <1>1, <2>4, EnterIs
    <3>2. QED
      BY <1>1, <2>2, <3>1, Rests DEF Alike, IdleParts
  <2>5. QED
    BY <2>1, <2>3, <2>4
<1>6. CASE j.part = "start" /\ j.op = "unload"
  <2>1. job' = PutsAway(j) /\ j.op \notin MediaOps
    BY <1>6 DEF Looked, MediaOps
  <2>2. PICK to \in Elements :
            job' = Enter(j, "mtio_only", MtioOnly) \/ job' = Enter(j, "mtio", MtioCalls(to))
    <3> DEFINE to == IF j.to # Drive THEN j.to
                     ELSE IF inv[Drive].full THEN inv[Drive].source ELSE Door
    <3>1. to \in Elements
      BY <1>1, <1>2 DEF JobOK
    <3>2. job' = Enter(j, "mtio_only", MtioOnly) \/ job' = Enter(j, "mtio", MtioCalls(to))
      BY <2>1 DEF PutsAway, SeenSource, MtioCalls
    <3> HIDE DEF to
    <3>3. QED
      BY <3>1, <3>2
  <2>3. QED
    BY <1>1, <2>1, <2>2, EntersTrial, EntersMtio
<1>7. CASE j.part = "start" /\ j.op \in {"move", "load"}
  <2>1. job' = Enter(j, "robot", <<Move(j.from, j.to)>>) /\ j.op \notin MediaOps
    BY <1>7 DEF Looked, MediaOps
  <2>2. j.from \in Elements /\ j.to \in Elements
    BY <1>1 DEF JobOK
  <2>3. QED
    BY <1>1, <2>1, <2>2, EntersRobot
<1>8. CASE j.part = "start" /\ j.op \notin MediaOps \cup {"remedy", "unload", "move", "load"}
  <2>1. job' = Over(j) /\ j.op \notin MediaOps
    BY <1>8 DEF Looked
  <2>2. QED
    BY <1>1, <2>1, EntersOver
<1>9. QED
  BY <1>1, <1>3, <1>4, <1>5, <1>6, <1>7, <1>8

LEMMA LooksKeepsJob == ASSUME LibraryInv, Looks PROVE JobAndDrive'
<1>1. job.part \in {"start", "look_again"} /\ UNCHANGED <<files, position, tape>>
  BY DEF Looks
<1>2. JobOK(job) /\ ~tape.open
  BY <1>1, Idle DEF IdleParts
<1>3. JobInv' /\ (past.cut => past'.cut)
  <2>1. CASE job' = Looked(job) /\ inv' = inv /\ past' = past
    BY <1>1, <1>2, <2>1, NotedJob, LookedKeeps
  <2>2. CASE /\ job' = Looked(Faulty(job))
             /\ past' = [past EXCEPT !.cut = @ \/ inv # StartInventory]
    <3>1. past.cut => past'.cut
      BY <2>2 DEF LibraryInv, IInv, LibraryTypes
    <3>2. JobInv'
      BY <1>1, <1>2, <2>2, NotedFaulty, LookedKeeps
    <3>3. QED
      BY <3>1, <3>2
  <2>3. CASE job' = Over(Faulty(job)) /\ past' = past
    BY <1>2, <2>3, FaultyIs, EntersOver
  <2>4. QED
    BY <2>1, <2>2, <2>3 DEF Looks
<1>4. QED
  BY <1>1, <1>3, DriveKept DEF JobAndDrive

LEMMA EndsKeepsJob ==
    ASSUME LibraryInv, EndsSessions, UNCHANGED <<files, inv, position, past>>
    PROVE  JobAndDrive'
<1>1. job' = NoJob /\ tape' = [open |-> FALSE, holds |-> Gone, locked |-> tape.locked]
  BY DEF EndsSessions, Closed
<1>2. JobInv'
  <2>1. JobOK(job') /\ job'.part = "idle" /\ job'.todo = <<>> /\ ~tape'.open
    BY <1>1, Addresses DEF NoJob, JobOK, Shaped
  <2>2. QED
    BY <2>1, Rests DEF IdleParts
<1>3. TapeOK' /\ Held' /\ PositionIsTheTapes'
  BY <1>1 DEF LibraryInv, TapeOK, Held, PositionIsTheTapes
<1>4. QED
  BY <1>2, <1>3 DEF JobAndDrive

-----------------------------------------------------------------------------
(* The invariant, and the properties that follow from it.                    *)

LEMMA InitLibraryInv == Init => LibraryInv
<1> SUFFICES ASSUME Init PROVE LibraryInv
  OBVIOUS
<1>1. job = NoJob /\ tape = [open |-> FALSE, holds |-> Gone, locked |-> FALSE] /\ position = Gone
  BY DEF Init, Closed
<1>2. JobOK(job) /\ job.part = "idle" /\ job.todo = <<>> /\ ~tape.open
  BY <1>1, Addresses DEF NoJob, JobOK, Shaped
<1>3. JobInv
  <2>1. PartOK
    BY <1>2 DEF PartOK, IdleParts, MediaParts, RobotParts
  <2>2. QED
    BY <1>2, <2>1
    DEF JobInv, Loading, Using, Unloading, Undoing, Roboting, PuttingAway, Released
<1>4. TapeOK /\ Held /\ PositionIsTheTapes
  BY <1>1 DEF TapeOK, Held, PositionIsTheTapes
<1>5. QED
  BY <1>3, <1>4, InitHolds DEF LibraryInv

LEMMA LibraryInvStep == ASSUME LibraryInv, [Next]_vars PROVE LibraryInv'
<1>1. IInv'
  BY StepKeeps DEF LibraryInv
<1>2. CASE Begins
  BY <1>1, <1>2, BeginsKeepsJob DEF LibraryInv, JobAndDrive
<1>3. CASE BeginsMoving
  BY <1>1, <1>3, BeginsMovingKeepsJob DEF LibraryInv, JobAndDrive
<1>4. CASE Looks
  BY <1>1, <1>4, LooksKeepsJob DEF LibraryInv, JobAndDrive
<1>5. CASE Moves
  BY <1>1, <1>5, MovesKeepsJob DEF LibraryInv, JobAndDrive
<1>6. CASE MoveRefused
  BY <1>1, <1>6, MoveRefusedKeepsJob DEF LibraryInv, JobAndDrive
<1>7. CASE MoveFails
  BY <1>1, <1>7, MoveFailsKeepsJob DEF LibraryInv, JobAndDrive
<1>8. CASE MoveTorn
  BY <1>1, <1>8, MoveTornKeepsJob DEF LibraryInv, JobAndDrive
<1>9. CASE Opens
  BY <1>1, <1>9, OpensKeepsJob DEF LibraryInv, JobAndDrive
<1>10. CASE OpenRefused
  BY <1>1, <1>10, OpenRefusedKeepsJob DEF LibraryInv, JobAndDrive
<1>11. CASE OpenFails
  BY <1>1, <1>11, OpenFailsKeepsJob DEF LibraryInv, JobAndDrive
<1>12. CASE Deck
  BY <1>1, <1>12, DeckKeepsJob DEF LibraryInv, JobAndDrive
<1>13. CASE DeckFails
  BY <1>1, <1>13, DeckFailsKeepsJob DEF LibraryInv, JobAndDrive
<1>14. CASE WritesLabel
  BY <1>1, <1>14, WritesLabelKeepsJob DEF LibraryInv, JobAndDrive
<1>15. CASE Works
  BY <1>1, <1>15, WorksKeepsJob DEF LibraryInv, JobAndDrive
<1>16. CASE Closes
  BY <1>1, <1>16, ClosesKeepsJob DEF LibraryInv, JobAndDrive
<1>17. CASE Ends \/ Dies
  <2>1. EndsSessions /\ UNCHANGED <<files, inv, position, past>>
    BY <1>17 DEF Ends, Dies
  <2>2. QED
    BY <1>1, <2>1, EndsKeepsJob DEF LibraryInv, JobAndDrive
<1>18. CASE UNCHANGED vars
  BY <1>1, <1>18
  DEF vars, LibraryInv, JobInv, PartOK, Loading, Using, Unloading, Undoing, Roboting,
      PuttingAway, Released, TapeOK, Held, PositionIsTheTapes, Label
<1>19. QED
  BY <1>2, <1>3, <1>4, <1>5, <1>6, <1>7, <1>8, <1>9, <1>10, <1>11, <1>12, <1>13, <1>14,
     <1>15, <1>16, <1>17, <1>18 DEF Next

\* What a job has left to call, and what it may rely on of the drive and the robot
\* before each call, in every part of every job (ndma_ctrl_media.c:122-286,
\* ndma_cops_robot.c:162-409, ndma_cops_labels.c:45-160)
THEOREM LibraryInvariant == Spec => []LibraryInv
<1>1. LibraryInv /\ [Next]_vars => LibraryInv'
  BY LibraryInvStep
<1>2. QED
  BY <1>1, InitLibraryInv, PTL DEF Spec

\* The tape a job writes, reads or labels is the one of the current entry of its
\* table, and bears the label of the entry if labels are checked, whatever failed
\* before (ndmca_media_load_current, ndma_ctrl_media.c:122-216)
THEOREM TapeIsRight == Spec => []RightTape
<1>1. LibraryInv => RightTape
  BY DEF LibraryInv, JobInv, Using, RightTape
<1>2. QED
  BY <1>1, LibraryInvariant, PTL

\* A media job with no fault of its own leaves the drive closed and empty, by
\* whichever of its exits (ndmca_media_unload_current and its best effort,
\* ndma_ctrl_media.c:219-286)
THEOREM DriveReleased == Spec => []Released
<1>1. LibraryInv => Released
  BY DEF LibraryInv, JobInv
<1>2. QED
  BY <1>1, LibraryInvariant, PTL

\* The position kept for the drive is one on the tape in it: a move to or from the
\* drive unlinks it (robot_state_move, ndma_robot_simulator.c:236), and a close saves
\* it while the tape is still there
THEOREM PositionIsKnown == Spec => []PositionIsTheTapes
<1>1. LibraryInv => PositionIsTheTapes
  BY DEF LibraryInv
<1>2. QED
  BY <1>1, LibraryInvariant, PTL
=============================================================================
