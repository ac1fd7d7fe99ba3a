---------------------------- MODULE NdmConnProofs ----------------------------
(***************************************************************************)
(* Whose reply a caller gets, and the version it is in, for any set of       *)
(* versions and any number of calls and notices.                             *)
(*                                                                           *)
(* The argument is that of a conversation: at most one request is under way  *)
(* or one reply, never both, and the reply is the one to the last request    *)
(* the server has served.  A notice changes neither.                         *)
(***************************************************************************)
EXTENDS NdmConn, SequenceTheorems, TLAPS

Names == Requests \cup {"none", "Connected", "Notice"}

Errors == {"none", "refused", "illegal", "denied"}

Known0 == Versions \cup {0}

AnyCall == [name : Names, seq : Nat, result : Outcomes]

AnyMessage ==
    [type : {"request", "reply"}, name : Names, seq : Nat, re : Nat, ver : Known0,
     error : Errors, arg : Known0 \cup {"none", "text", "md5", "void"}]

AnyClient ==
    [pc : Phases, ver : Known0, seq : Nat, max : Versions, want : Known0,
     auth : AuthTypes, knows : BOOLEAN, call : AnyCall, garbled : BOOLEAN]

AnyServer ==
    [up : BOOLEAN, open : BOOLEAN, authorized : BOOLEAN, challenge : BOOLEAN,
     ver : Versions, max : Versions, seq : Nat, did : AnyCall, garbled : BOOLEAN]

ConnTypes ==
    /\ client \in AnyClient
    /\ server \in AnyServer
    /\ c2s \in Seq(AnyMessage)
    /\ s2c \in Seq(AnyMessage)

(***************************************************************************)
(* The conversation                                                          *)
(***************************************************************************)

\* What the caller makes of an error
Said(error) == IF error = "none" THEN "ok" ELSE error

\* At most one request is under way, and it is the one that waits
OneRequest ==
    /\ Len(c2s) <= 1
    /\ c2s # <<>> => Waiting \/ (client.pc = "closed" /\ ~server.up)
    /\ Waiting /\ c2s # <<>> => Head(c2s).seq = client.call.seq /\ Head(c2s).name = client.call.name
    /\ Waiting => client.call.result = "none"

\* At most one reply is, to what was served last, and then no request
OneReply ==
    /\ \A i \in DOMAIN s2c : s2c[i].type = "reply" =>
         /\ Waiting /\ c2s = <<>>
         /\ s2c[i].re = client.call.seq
         /\ server.did = [client.call EXCEPT !.result = Said(s2c[i].error)]
    /\ \A i, j \in DOMAIN s2c : s2c[i].type = "reply" /\ s2c[j].type = "reply" => i = j

(***************************************************************************)
(* The versions                                                              *)
(***************************************************************************)

\* Until the client has chosen, there is the greeting and nothing else
GreetingFirst ==
    client.pc = "greeting" =>
        /\ ~server.open /\ ~server.authorized /\ server.ver = server.max
        /\ client.ver = 0
        /\ Len(s2c) <= 1
        /\ \A i \in DOMAIN s2c : s2c[i].name = "Connected" /\ s2c[i].arg = server.max

\* CONNECT_OPEN changes the server's version before its reply comes back
OpeningNext ==
    client.pc = "opening" =>
        /\ ~server.authorized
        /\ client.ver = 0 /\ client.call.name = "Open"
        /\ client.want \in Versions /\ client.want <= client.max
        /\ c2s # <<>> => /\ Head(c2s).arg = client.want
                         /\ ~server.open /\ server.ver = server.max
        /\ \A i \in DOMAIN s2c :
             /\ s2c[i].type = "reply" /\ s2c[i].name = "Open"
             /\ s2c[i].error = "none" => server.ver = client.want /\ client.want <= server.max

Shaken == client.pc \notin {"greeting", "opening", "closed"}

\* From then on everything under way is in the one version
Agreed ==
    Shaken =>
        /\ client.ver = server.ver /\ client.ver <= client.max /\ client.ver <= server.max
        /\ Waiting => client.call.name # "Open"
        /\ \A i \in DOMAIN c2s : c2s[i].ver = client.ver
        /\ \A i \in DOMAIN s2c : s2c[i].ver = client.ver

NeverGarbled == ~client.garbled /\ ~server.garbled

ConnInv ==
    /\ ConnTypes /\ OneRequest /\ OneReply /\ ReplyIsOurs
    /\ GreetingFirst /\ OpeningNext /\ Agreed /\ NeverGarbled

(***************************************************************************)
(* Sequences of messages                                                     *)
(***************************************************************************)

\* Taking the first message leaves the others as they were
LEMMA Taken ==
  ASSUME NEW s \in Seq(AnyMessage), s # <<>>
  PROVE  /\ Head(s) \in AnyMessage /\ Head(s) = s[1] /\ 1 \in DOMAIN s
         /\ Len(s) \in Nat /\ Len(s) >= 1 /\ DOMAIN s = 1 .. Len(s)
         /\ Tail(s) \in Seq(AnyMessage) /\ Len(Tail(s)) = Len(s) - 1
         /\ \A i \in DOMAIN Tail(s) : i + 1 \in DOMAIN s /\ Tail(s)[i] = s[i + 1]
         /\ \A i \in DOMAIN Tail(s) : i \in Nat \ {0}
  BY HeadTailProperties

\* Sending one puts it behind the others
LEMMA Sent ==
  ASSUME NEW s \in Seq(AnyMessage), NEW m \in AnyMessage
  PROVE  /\ Append(s, m) \in Seq(AnyMessage) /\ Len(Append(s, m)) = Len(s) + 1
         /\ Append(s, m) # <<>>
         /\ \A i \in DOMAIN Append(s, m) :
              \/ i \in DOMAIN s /\ i < Len(s) + 1 /\ Append(s, m)[i] = s[i]
              \/ i = Len(s) + 1 /\ Append(s, m)[i] = m
         /\ s = <<>> => Head(Append(s, m)) = m
<1>1. Append(s, m) \in Seq(AnyMessage) /\ Len(Append(s, m)) = Len(s) + 1
  OBVIOUS
<1>2. Append(s, m) # <<>>
  BY AppendProperties
<1>3. \A i \in DOMAIN Append(s, m) :
              \/ i \in DOMAIN s /\ i < Len(s) + 1 /\ Append(s, m)[i] = s[i]
              \/ i = Len(s) + 1 /\ Append(s, m)[i] = m
  OBVIOUS
<1>4. s = <<>> => Head(Append(s, m)) = m
  BY <1>1, <1>2, <1>3
<1> QED
  BY <1>1, <1>2, <1>3, <1>4

\* What gets through of what is under way is a beginning of it
LEMMA CutShort ==
  ASSUME NEW s \in Seq(AnyMessage), NEW n \in 0 .. Len(s)
  PROVE  /\ SubSeq(s, 1, n) \in Seq(AnyMessage) /\ Len(SubSeq(s, 1, n)) = n
         /\ \A i \in DOMAIN SubSeq(s, 1, n) : i \in DOMAIN s /\ SubSeq(s, 1, n)[i] = s[i]
<1>1. n \in Int /\ Len(s) \in Nat /\ \A i \in 1 .. n : s[i] \in AnyMessage
  OBVIOUS
<1>2. /\ SubSeq(s, 1, n) \in Seq(AnyMessage)
      /\ Len(SubSeq(s, 1, n)) = IF 1 <= n THEN n - 1 + 1 ELSE 0
      /\ \A i \in 1 .. n - 1 + 1 : SubSeq(s, 1, n)[i] = s[1 + i - 1]
  BY <1>1, SubSeqProperties
<1>3. Len(SubSeq(s, 1, n)) = n
  BY <1>1, <1>2
<1>4. DOMAIN SubSeq(s, 1, n) = 1 .. n
  BY <1>2, <1>3
<1> QED
  BY <1>1, <1>2, <1>3, <1>4

LEMMA VersionsAreNumbers == Versions \subseteq Nat /\ 0 \notin Versions
  BY ConnAssumption

(***************************************************************************)
(* The start                                                                 *)
(***************************************************************************)

LEMMA InitInv == Init => ConnInv
<1> SUFFICES ASSUME Init PROVE ConnInv
  OBVIOUS
<1>1. PICK cmax \in Versions, smax \in Versions, want \in Known0, auth \in AuthTypes, knows \in BOOLEAN :
        /\ client = [pc |-> "greeting", ver |-> 0, seq |-> 1, max |-> cmax, want |-> want,
                     auth |-> auth, knows |-> knows, call |-> NoMessage, garbled |-> FALSE]
        /\ server = [up |-> TRUE, open |-> FALSE, authorized |-> FALSE, challenge |-> FALSE,
                     ver |-> smax, max |-> smax, seq |-> 2, did |-> NoMessage, garbled |-> FALSE]
        /\ c2s = <<>>
        /\ s2c = <<Message("request", "Connected", 1, 0, 0, "none", smax)>>
  BY DEF Init, Known0
<1>2. NoMessage \in AnyCall
  BY DEF NoMessage, AnyCall, Names, Outcomes
<1>3. Message("request", "Connected", 1, 0, 0, "none", smax) \in AnyMessage
  BY DEF Message, AnyMessage, Names, Errors, Known0
<1>4. ConnTypes
  <2>1. client \in AnyClient
    BY <1>1, <1>2 DEF AnyClient, Phases, Known0
  <2>2. server \in AnyServer
    BY <1>1, <1>2 DEF AnyServer
  <2> QED
    BY <1>1, <1>3, <2>1, <2>2 DEF ConnTypes
<1>5. OneRequest /\ OneReply
  BY <1>1 DEF OneRequest, OneReply, Waiting, Message
<1>6. ReplyIsOurs
  BY <1>1 DEF ReplyIsOurs, NoMessage
<1>7. GreetingFirst
  BY <1>1 DEF GreetingFirst, Message
<1>8. OpeningNext /\ Agreed /\ NeverGarbled
  BY <1>1 DEF OpeningNext, Agreed, Shaken, NeverGarbled
<1> QED
  BY <1>4, <1>5, <1>6, <1>7, <1>8 DEF ConnInv

(***************************************************************************)
(* The client                                                                *)
(***************************************************************************)

\* What a client that asks makes of the conversation
LEMMA AskedKeeps ==
  ASSUME ConnInv, ~Waiting, client.pc # "closed", server' = server,
         NEW pc \in {"opening", "asking", "proving", "calling"}, NEW m \in AnyMessage,
         NEW want \in Known0,
         m.seq = client.seq, m.name \in Requests,
         c2s' = Append(c2s, m),
         client' = [client EXCEPT !.pc = pc, !.seq = @ + 1, !.want = want,
                      !.call = [name |-> m.name, seq |-> client.seq, result |-> "none"]],
         s2c' \in Seq(AnyMessage), \A i \in DOMAIN s2c' : s2c'[i].type # "reply"
  PROVE  /\ ConnTypes' /\ OneRequest' /\ OneReply' /\ ReplyIsOurs' /\ GreetingFirst' /\ NeverGarbled'
         /\ c2s = <<>> /\ c2s' = <<m>>
<1>1. c2s = <<>>
  BY DEF ConnInv, OneRequest
<1>2. c2s' \in Seq(AnyMessage) /\ c2s' = <<m>> /\ Len(c2s') = 1 /\ c2s' # <<>> /\ Head(c2s') = m
  BY <1>1, Sent
<1>3. client \in AnyClient
  BY DEF ConnInv, ConnTypes
<1>4. [name |-> m.name, seq |-> client.seq, result |-> "none"] \in AnyCall
  BY <1>3 DEF AnyClient, AnyCall, Names, Outcomes
<1>5. client' \in AnyClient
  <2>1. pc \in Phases /\ client.seq + 1 \in Nat
    BY <1>3 DEF AnyClient, Phases
  <2> QED
    BY <1>3, <1>4, <2>1 DEF AnyClient
<1>6. /\ client'.pc = pc /\ client'.garbled = client.garbled
      /\ client'.call = [name |-> m.name, seq |-> client.seq, result |-> "none"]
  BY <1>3 DEF AnyClient
<1>7. ConnTypes'
  BY <1>2, <1>5 DEF ConnInv, ConnTypes
<1>8. OneRequest'
  BY <1>2, <1>6 DEF OneRequest, Waiting
<1>9. OneReply'
  BY DEF OneReply
<1>10. ReplyIsOurs'
  BY <1>6 DEF ReplyIsOurs
<1>11. GreetingFirst'
  BY <1>6 DEF GreetingFirst
<1>12. NeverGarbled'
  BY <1>6 DEF ConnInv, NeverGarbled
<1> QED
  BY <1>1, <1>2, <1>7, <1>8, <1>9, <1>10, <1>11, <1>12

\* While the client waits for the greeting, that is all it can be sent
LEMMA GreetingAlone ==
  ASSUME ConnInv, client.pc = "greeting", s2c # <<>>
  PROVE  /\ Len(s2c) = 1 /\ Head(s2c).arg = server.max
         /\ server.max \in Versions /\ server.ver = server.max
         /\ Tail(s2c) = <<>> /\ Len(Tail(s2c)) = 0
<1>1. s2c \in Seq(AnyMessage) /\ server \in AnyServer /\ GreetingFirst
  BY DEF ConnInv, ConnTypes
<1>2. /\ Head(s2c) = s2c[1] /\ 1 \in DOMAIN s2c /\ Len(s2c) \in Nat /\ Len(s2c) >= 1
      /\ Tail(s2c) \in Seq(AnyMessage) /\ Len(Tail(s2c)) = Len(s2c) - 1
  BY <1>1, Taken
<1>3. Len(s2c) <= 1 /\ server.ver = server.max /\ s2c[1].arg = server.max
  BY <1>1, <1>2 DEF GreetingFirst
<1>4. server.max \in Versions
  BY <1>1 DEF AnyServer
<1>5. Len(s2c) = 1 /\ Len(Tail(s2c)) = 0
  BY <1>2, <1>3
<1>6. Tail(s2c) = <<>>
  <2> DEFINE t == Tail(s2c)
  <2>1. t \in Seq(AnyMessage) /\ Len(t) = 0
    BY <1>2, <1>5
  <2> HIDE DEF t
  <2>2. t = <<>>
    BY <2>1
  <2> QED
    BY <2>2 DEF t
<1> QED
  BY <1>2, <1>3, <1>4, <1>5, <1>6

LEMMA GreetedKeeps == ConnInv /\ Greeted => ConnInv'
<1> SUFFICES ASSUME ConnInv, Greeted PROVE ConnInv'
  OBVIOUS
<1> DEFINE offered == Head(s2c).arg
           ceiling == Ceiling(offered)
           want == IF client.want = 0 THEN ceiling ELSE client.want
           m == Message("request", "Open", client.seq, 0, 0, "none", want)
<1>1. /\ client \in AnyClient /\ server \in AnyServer /\ s2c \in Seq(AnyMessage) /\ s2c # <<>>
      /\ s2c' = Tail(s2c) /\ client.pc = "greeting" /\ server' = server /\ made' = made
  BY DEF ConnInv, ConnTypes, Greeted
<1>2. Len(s2c) = 1 /\ offered = server.max /\ server.max \in Versions
  BY <1>1, GreetingAlone
<1>3. s2c' = <<>> /\ Len(s2c') = 0
  BY <1>1, GreetingAlone
<1>4. ~Waiting /\ c2s = <<>>
  BY <1>1 DEF ConnInv, OneRequest, Waiting
<1>5. CASE want > ceiling
  <2>1. client' = [client EXCEPT !.pc = "closed"] /\ c2s' = c2s
    BY <1>5 DEF Greeted, GivesUp
  <2>2. client' \in AnyClient /\ client'.pc = "closed" /\ client'.call = client.call
        /\ client'.garbled = client.garbled
    BY <1>1, <2>1 DEF AnyClient, Phases
  <2>3. ConnTypes'
    BY <1>1, <1>3, <2>1, <2>2 DEF ConnInv, ConnTypes
  <2>4. OneRequest' /\ OneReply'
    BY <1>3, <1>4, <2>1, <2>2 DEF OneRequest, OneReply, Waiting
  <2>5. ReplyIsOurs'
    BY <1>1, <2>2 DEF ConnInv, ReplyIsOurs
  <2>6. GreetingFirst' /\ OpeningNext' /\ Agreed' /\ NeverGarbled'
    BY <1>1, <2>2 DEF ConnInv, GreetingFirst, OpeningNext, Agreed, Shaken, NeverGarbled
  <2> QED
    BY <2>3, <2>4, <2>5, <2>6 DEF ConnInv
<1>6. CASE ~(want > ceiling)
  <2>1. ceiling \in Versions /\ ceiling <= client.max
    <3>1. offered \in Versions /\ client.max \in Versions
      BY <1>1, <1>2 DEF AnyClient
    <3>2. offered \in Nat /\ client.max \in Nat
      BY <3>1, VersionsAreNumbers
    <3> QED
      BY <3>1, <3>2 DEF Ceiling
  <2>2. want \in Versions /\ want <= client.max
    <3>1. client.want \in Known0 /\ client.max \in Versions
      BY <1>1 DEF AnyClient
    <3>2. ceiling \in Nat /\ client.max \in Nat /\ want \in Known0 /\ want # 0 /\ want \in Nat
      BY <2>1, <3>1, VersionsAreNumbers DEF Known0
    <3> QED
      BY <1>6, <2>1, <3>2 DEF Known0
  <2>3. m \in AnyMessage /\ m.seq = client.seq /\ m.name = "Open" /\ m.arg = want
    BY <1>1, <2>2 DEF Message, AnyMessage, AnyClient, Names, Requests, Free, Errors, Known0
  <2>4. /\ c2s' = Append(c2s, m)
        /\ client' = [client EXCEPT !.pc = "opening", !.seq = @ + 1, !.want = want,
                        !.call = [name |-> "Open", seq |-> client.seq, result |-> "none"]]
    BY <1>6 DEF Greeted
  <2>5. want \in Known0 /\ m.name \in Requests
    BY <2>2, <2>3 DEF Known0, Requests, Free
  <2>6. /\ ConnTypes' /\ OneRequest' /\ OneReply' /\ ReplyIsOurs' /\ GreetingFirst' /\ NeverGarbled'
        /\ c2s' = <<m>>
    <3>1. client' = [client EXCEPT !.pc = "opening", !.seq = @ + 1, !.want = want,
                        !.call = [name |-> m.name, seq |-> client.seq, result |-> "none"]]
      BY <2>3, <2>4
    <3>2. s2c' \in Seq(AnyMessage) /\ \A i \in DOMAIN s2c' : s2c'[i].type # "reply"
      BY <1>3
    <3>3. client.pc # "closed" /\ server' = server /\ c2s' = Append(c2s, m)
      BY <1>1, <2>4
    <3> HIDE DEF m, want
    <3> QED
      BY <1>4, <2>3, <2>5, <3>1, <3>2, <3>3, AskedKeeps
  <2>7. /\ client'.pc = "opening" /\ client'.ver = client.ver /\ client'.call.name = "Open"
        /\ client'.want = want /\ client'.max = client.max
    BY <1>1, <2>4 DEF AnyClient
  <2>8. OpeningNext'
    BY <1>1, <1>3, <2>2, <2>3, <2>6, <2>7 DEF ConnInv, OpeningNext, GreetingFirst
  <2>9. Agreed'
    BY <2>7 DEF Agreed, Shaken
  <2> QED
    BY <2>6, <2>8, <2>9 DEF ConnInv
<1> QED
  BY <1>5, <1>6

LEMMA AssumesKeeps == ConnInv /\ Assumes => ConnInv'
<1> SUFFICES ASSUME ConnInv, Assumes PROVE ConnInv'
  OBVIOUS
<1>1. /\ client \in AnyClient /\ server \in AnyServer /\ s2c \in Seq(AnyMessage) /\ s2c # <<>>
      /\ s2c' = Tail(s2c) /\ client.pc = "greeting" /\ server' = server /\ c2s' = c2s
      /\ Head(s2c).arg <= client.max
      /\ client' = [client EXCEPT !.pc = "opened", !.ver = Head(s2c).arg]
  BY DEF ConnInv, ConnTypes, Assumes
<1>2. Len(s2c) = 1 /\ Head(s2c).arg = server.max /\ server.max \in Versions /\ server.ver = server.max
  BY <1>1, GreetingAlone
<1>3. s2c' = <<>> /\ Len(s2c') = 0
  BY <1>1, GreetingAlone
<1>4. c2s = <<>>
  BY <1>1 DEF ConnInv, OneRequest, Waiting
<1>5. client' \in AnyClient /\ client'.pc = "opened" /\ client'.call = client.call
        /\ client'.garbled = client.garbled /\ client'.ver = server.max /\ client'.max = client.max
  BY <1>1, <1>2 DEF AnyClient, Phases, Known0
<1>6. ConnTypes'
  BY <1>1, <1>3, <1>5 DEF ConnInv, ConnTypes
<1>7. OneRequest' /\ OneReply'
  BY <1>1, <1>3, <1>4, <1>5 DEF OneRequest, OneReply, Waiting
<1>8. ReplyIsOurs'
  BY <1>1, <1>5 DEF ConnInv, ReplyIsOurs
<1>9. GreetingFirst' /\ OpeningNext' /\ NeverGarbled'
  BY <1>1, <1>5 DEF ConnInv, GreetingFirst, OpeningNext, NeverGarbled
<1>10. Agreed'
  BY <1>1, <1>2, <1>3, <1>4, <1>5, VersionsAreNumbers DEF Agreed, Waiting
<1> QED
  BY <1>6, <1>7, <1>8, <1>9, <1>10 DEF ConnInv

\* A request after the handshake goes out in the agreed version
LEMMA SendsKeeps ==
  ASSUME ConnInv, Shaken, ~Waiting, server' = server, s2c' = s2c,
         NEW name \in Requests \ {"Open"}, NEW arg \in {"none", "text", "md5", "void"},
         NEW pc \in {"asking", "proving", "calling"}, Sends(name, arg, pc)
  PROVE  ConnInv'
<1> DEFINE m == Message("request", name, client.seq, 0, client.ver, "none", arg)
<1>1. client \in AnyClient /\ s2c \in Seq(AnyMessage)
  BY DEF ConnInv, ConnTypes
<1>2. /\ m \in AnyMessage /\ m.seq = client.seq /\ m.name = name /\ m.ver = client.ver
      /\ client.want \in Known0
  BY <1>1 DEF Message, AnyMessage, AnyClient, Names, Errors
<1>3. c2s' = Append(c2s, m)
  BY DEF Sends
<1>4. client' = [client EXCEPT !.pc = pc, !.seq = @ + 1, !.want = client.want,
                    !.call = [name |-> m.name, seq |-> client.seq, result |-> "none"]]
  BY <1>1, <1>2 DEF Sends, AnyClient
<1>5. \A i \in DOMAIN s2c' : s2c'[i].type # "reply"
  BY DEF ConnInv, OneReply
<1>6. /\ client'.pc = pc /\ client'.ver = client.ver /\ client'.max = client.max
      /\ client'.call.name = name
  BY <1>1, <1>2, <1>4 DEF AnyClient
<1>7. client.pc # "closed" /\ s2c' \in Seq(AnyMessage) /\ m.name \in Requests
  BY <1>1, <1>2 DEF Shaken
<1>8. /\ ConnTypes' /\ OneRequest' /\ OneReply' /\ ReplyIsOurs' /\ GreetingFirst' /\ NeverGarbled'
      /\ c2s' = <<m>>
  <2> HIDE DEF m
  <2> QED
    BY <1>2, <1>3, <1>4, <1>5, <1>7, AskedKeeps
<1>9. OpeningNext'
  BY <1>6 DEF OpeningNext
<1>10. Agreed'
  <2>1. \A i \in DOMAIN c2s' : c2s'[i].ver = client'.ver
    <3> HIDE DEF m
    <3> QED
      BY <1>2, <1>6, <1>8
  <2>2. Agreed
    BY DEF ConnInv
  <2> QED
    BY <1>6, <2>1, <2>2 DEF Agreed
<1> QED
  BY <1>8, <1>9, <1>10 DEF ConnInv

LEMMA AuthenticatesKeeps == ConnInv /\ Authenticates => ConnInv'
<1> SUFFICES ASSUME ConnInv, Authenticates PROVE ConnInv'
  OBVIOUS
<1>1. /\ client \in AnyClient /\ client.pc = "opened" /\ Shaken /\ ~Waiting
      /\ server' = server /\ s2c' = s2c
  BY DEF ConnInv, ConnTypes, Authenticates, Shaken, Waiting
<1>2. client.auth \in {"none", "text", "md5", "void"}
  BY <1>1, ConnAssumption DEF AnyClient
<1>3. CASE client.auth = "void"
  <2>1. client' = [client EXCEPT !.pc = "ready"] /\ c2s' = c2s
    BY <1>3 DEF Authenticates
  <2>2. /\ client' \in AnyClient /\ client'.pc = "ready" /\ client'.call = client.call
        /\ client'.garbled = client.garbled /\ client'.ver = client.ver /\ client'.max = client.max
    BY <1>1, <2>1 DEF AnyClient, Phases
  <2>3. ConnTypes'
    BY <1>1, <2>1, <2>2 DEF ConnInv, ConnTypes
  <2>4. OneRequest' /\ OneReply'
    BY <1>1, <2>1, <2>2 DEF ConnInv, OneRequest, OneReply, Waiting
  <2>5. ReplyIsOurs'
    BY <1>1, <2>2 DEF ConnInv, ReplyIsOurs
  <2>6. GreetingFirst' /\ OpeningNext' /\ NeverGarbled'
    BY <1>1, <2>2 DEF ConnInv, GreetingFirst, OpeningNext, NeverGarbled
  <2>7. Agreed'
    BY <1>1, <2>1, <2>2 DEF ConnInv, Agreed, Shaken, Waiting
  <2> QED
    BY <2>3, <2>4, <2>5, <2>6, <2>7 DEF ConnInv
<1>4. CASE client.auth = "md5"
  <2>1. Sends("AuthAttr", "md5", "asking")
    BY <1>4 DEF Authenticates
  <2> QED
    BY <1>1, <2>1, SendsKeeps DEF Requests, Free
<1>5. CASE client.auth \in {"none", "text"}
  <2>1. Sends("Auth", client.auth, "proving")
    BY <1>5 DEF Authenticates
  <2> QED
    BY <1>1, <1>2, <2>1, SendsKeeps DEF Requests, Free
<1> QED
  BY <1>2, <1>3, <1>4, <1>5

LEMMA ShowsDigestKeeps == ConnInv /\ ShowsDigest => ConnInv'
<1> SUFFICES ASSUME ConnInv, ShowsDigest PROVE ConnInv'
  OBVIOUS
<1>1. Shaken /\ ~Waiting /\ server' = server /\ s2c' = s2c /\ Sends("Auth", "md5", "proving")
  BY DEF ShowsDigest, Shaken, Waiting
<1> QED
  BY <1>1, SendsKeeps DEF Requests, Free

LEMMA CallsKeeps == ConnInv /\ Calls => ConnInv'
<1> SUFFICES ASSUME ConnInv, Calls PROVE ConnInv'
  OBVIOUS
<1>1. Shaken /\ ~Waiting /\ server' = server /\ s2c' = s2c
  BY DEF Calls, Shaken, Waiting
<1>2. PICK name \in Requests \ {"Open", "AuthAttr", "Auth"} : Sends(name, "none", "calling")
  BY DEF Calls
<1> QED
  BY <1>1, <1>2, SendsKeeps

\* The reply that has come answers the call, and nothing else is under way but notices
LEMMA ReplyAtHead ==
  ASSUME ConnInv, s2c # <<>>, Head(s2c).type = "reply"
  PROVE  /\ Waiting /\ c2s = <<>> /\ Head(s2c).re = client.call.seq
         /\ Head(s2c).error \in Errors
         /\ server.did = [client.call EXCEPT !.result = Said(Head(s2c).error)]
         /\ \A i \in DOMAIN Tail(s2c) : Tail(s2c)[i].type # "reply"
<1>1. s2c \in Seq(AnyMessage) /\ OneReply
  BY DEF ConnInv, ConnTypes
<1>2. /\ Head(s2c) = s2c[1] /\ 1 \in DOMAIN s2c /\ Head(s2c) \in AnyMessage
      /\ \A i \in DOMAIN Tail(s2c) : i + 1 \in DOMAIN s2c /\ Tail(s2c)[i] = s2c[i + 1]
      /\ \A i \in DOMAIN Tail(s2c) : i \in Nat \ {0}
  BY <1>1, Taken
<1>3. /\ Waiting /\ c2s = <<>> /\ Head(s2c).re = client.call.seq
      /\ server.did = [client.call EXCEPT !.result = Said(Head(s2c).error)]
  BY <1>1, <1>2 DEF OneReply
<1>4. Head(s2c).error \in Errors
  BY <1>2 DEF AnyMessage
<1>5. ASSUME NEW i \in DOMAIN Tail(s2c), Tail(s2c)[i].type = "reply" PROVE FALSE
  <2>1. i + 1 = 1
    BY <1>1, <1>2, <1>5 DEF OneReply
  <2> QED
    BY <1>2, <2>1
<1> QED
  BY <1>3, <1>4, <1>5

LEMMA TakesReplyKeeps == ConnInv /\ TakesReply => ConnInv'
<1> SUFFICES ASSUME ConnInv, TakesReply PROVE ConnInv'
  OBVIOUS
<1> DEFINE m == Head(s2c)
<1>1. /\ client \in AnyClient /\ server \in AnyServer /\ c2s \in Seq(AnyMessage)
      /\ s2c \in Seq(AnyMessage) /\ s2c # <<>> /\ s2c' = Tail(s2c)
      /\ server' = server /\ c2s' = c2s /\ m.type = "reply" /\ Waiting
  BY DEF ConnInv, ConnTypes, TakesReply, Answers
<1>2. PICK result \in Result(m) :
        client' = [client EXCEPT
            !.pc = Onward(result),
            !.ver = IF client.pc = "opening" /\ result = "ok" THEN client.want ELSE @,
            !.call.result = result,
            !.garbled = @ \/ (m.ver # client.ver /\ m.name \notin Common)]
  BY DEF TakesReply
<1>3. /\ c2s = <<>> /\ m.error \in Errors
      /\ server.did = [client.call EXCEPT !.result = Said(m.error)]
      /\ \A i \in DOMAIN s2c' : s2c'[i].type # "reply"
  BY <1>1, ReplyAtHead
<1>4. /\ m = s2c[1] /\ 1 \in DOMAIN s2c /\ s2c' \in Seq(AnyMessage)
      /\ \A i \in DOMAIN s2c' : i + 1 \in DOMAIN s2c /\ s2c'[i] = s2c[i + 1]
  BY <1>1, Taken
<1>5. result \in Outcomes \ {"none", "botch"} /\ Said(m.error) = (IF result = "late" THEN "ok" ELSE result)
  BY <1>2, <1>3 DEF Result, Outcomes, Errors, Said
<1>6. result = "ok" => m.error = "none"
  BY <1>2, <1>3 DEF Result, Errors
<1>7. /\ Onward(result) \in {"ready", "closed", "opened", "asked"}
      /\ Onward(result) = "opened" => client.pc = "opening" /\ result = "ok"
      /\ client.pc = "opening" => Onward(result) \in {"opened", "closed"}
  <2>1. client.pc \in {"opening", "asking", "proving", "calling"}
    BY <1>1 DEF Waiting
  <2>2. CASE client.pc = "calling"
    BY <2>2 DEF Onward
  <2>3. CASE client.pc # "calling" /\ result # "ok"
    BY <2>3 DEF Onward
  <2>4. CASE client.pc = "opening" /\ result = "ok"
    BY <2>4 DEF Onward
  <2>5. CASE client.pc = "asking" /\ result = "ok"
    BY <2>5 DEF Onward
  <2>6. CASE client.pc = "proving" /\ result = "ok"
    BY <2>6 DEF Onward
  <2> QED
    BY <2>1, <2>2, <2>3, <2>4, <2>5, <2>6
<1>8. m.ver = client.ver \/ m.name \in Common
  BY <1>1, <1>4 DEF ConnInv, OpeningNext, Agreed, Shaken, Waiting, Common
<1>9. /\ client'.pc = Onward(result) /\ client'.max = client.max
      /\ client'.ver = IF client.pc = "opening" /\ result = "ok" THEN client.want ELSE client.ver
      /\ client'.call = [client.call EXCEPT !.result = result]
      /\ ~client'.garbled
  <2>1. ~client.garbled
    BY DEF ConnInv, NeverGarbled
  <2> HIDE DEF m
  <2> QED
    BY <1>1, <1>2, <1>8, <2>1 DEF AnyClient
<1>10. client' \in AnyClient
  <2>1. /\ Onward(result) \in Phases
        /\ (IF client.pc = "opening" /\ result = "ok" THEN client.want ELSE client.ver) \in Known0
        /\ [client.call EXCEPT !.result = result] \in AnyCall
    BY <1>1, <1>5, <1>7 DEF AnyClient, AnyCall, Phases
  <2>2. (client.garbled \/ (m.ver # client.ver /\ m.name \notin Common)) \in BOOLEAN
    OBVIOUS
  <2> HIDE DEF m
  <2> QED
    BY <1>1, <1>2, <2>1, <2>2 DEF AnyClient
<1>11. ConnTypes'
  BY <1>1, <1>4, <1>10 DEF ConnTypes
<1>12. OneRequest' /\ OneReply'
  <2>1. ~Waiting' /\ c2s' = <<>> /\ Len(c2s') = 0
    BY <1>1, <1>3, <1>7, <1>9 DEF Waiting
  <2> QED
    BY <1>3, <2>1 DEF OneRequest, OneReply
<1>13. ReplyIsOurs'
  <2>1. client.call \in AnyCall
    BY <1>1 DEF AnyClient
  <2>2. server'.did = [client'.call EXCEPT !.result = IF @ = "late" THEN "ok" ELSE @]
    BY <1>1, <1>3, <1>5, <1>9, <2>1 DEF AnyCall
  <2> QED
    BY <2>2 DEF ReplyIsOurs
<1>14. GreetingFirst' /\ OpeningNext' /\ NeverGarbled'
  BY <1>1, <1>7, <1>9 DEF ConnInv, GreetingFirst, OpeningNext, NeverGarbled
<1>15. Agreed'
  <2>1. SUFFICES ASSUME Shaken' PROVE Agreed'
    BY DEF Agreed
  <2>2. ~Waiting' /\ Onward(result) # "closed"
    BY <1>7, <1>9, <2>1 DEF Waiting, Shaken
  <2>3. CASE client.pc = "opening"
    <3>1. result = "ok" /\ m.error = "none"
      BY <1>6, <1>7, <2>2, <2>3
    <3>2. client'.ver = client.want /\ server.ver = client.want /\ client.want <= client.max
          /\ client.want <= server.max
      BY <1>4, <1>9, <2>3, <3>1 DEF ConnInv, OpeningNext
    <3>3. server'.ver = server.ver
      BY <1>1
    <3>4. \A i \in DOMAIN s2c' : FALSE
      BY <1>3, <1>4, <2>3 DEF ConnInv, OpeningNext
    <3> QED
      BY <1>1, <1>3, <1>9, <2>2, <3>2, <3>4 DEF Agreed
  <2>4. CASE client.pc # "opening"
    <3>1. Shaken /\ client'.ver = client.ver
      BY <1>1, <1>9, <2>4 DEF Shaken, Waiting
    <3>2. Agreed
      BY DEF ConnInv
    <3> QED
      BY <1>1, <1>3, <1>4, <1>9, <2>2, <3>1, <3>2 DEF Agreed
  <2> QED
    BY <2>3, <2>4
<1> QED
  BY <1>11, <1>12, <1>13, <1>14, <1>15 DEF ConnInv

\* A message that is taken and changes nothing leaves a conversation behind
LEMMA TailKeeps ==
  ASSUME ConnInv, s2c # <<>>, s2c' = Tail(s2c), client' = client, server' = server, c2s' = c2s,
         client.pc # "greeting"
  PROVE  ConnInv'
<1>1. s2c \in Seq(AnyMessage)
  BY DEF ConnInv, ConnTypes
<1>2. /\ s2c' \in Seq(AnyMessage)
      /\ \A i \in DOMAIN s2c' : i + 1 \in DOMAIN s2c /\ s2c'[i] = s2c[i + 1] /\ i \in Nat
  BY <1>1, Taken
<1>3. ConnTypes' /\ OneRequest' /\ ReplyIsOurs' /\ GreetingFirst' /\ NeverGarbled'
  BY <1>2 DEF ConnInv, ConnTypes, OneRequest, Waiting, ReplyIsOurs, GreetingFirst, NeverGarbled
<1>4. OneReply'
  <2>1. OneReply
    BY DEF ConnInv
  <2>2. \A i \in DOMAIN s2c' : s2c'[i].type = "reply" =>
         /\ Waiting' /\ c2s' = <<>>
         /\ s2c'[i].re = client'.call.seq
         /\ server'.did = [client'.call EXCEPT !.result = Said(s2c'[i].error)]
    BY <1>2, <2>1 DEF OneReply, Waiting
  <2>3. ASSUME NEW i \in DOMAIN s2c', NEW j \in DOMAIN s2c',
               s2c'[i].type = "reply" /\ s2c'[j].type = "reply"
        PROVE  i = j
    <3>1. i + 1 = j + 1
      BY <1>2, <2>1, <2>3 DEF OneReply
    <3> QED
      BY <1>2, <3>1
  <2> QED
    BY <2>2, <2>3 DEF OneReply
<1>5. OpeningNext'
  BY <1>2 DEF ConnInv, OpeningNext
<1>6. Agreed'
  BY <1>2 DEF ConnInv, Agreed, Shaken, Waiting
<1> QED
  BY <1>3, <1>4, <1>5, <1>6 DEF ConnInv

LEMMA TakesUnexpectedKeeps == ConnInv /\ TakesUnexpected => ConnInv'
<1> SUFFICES ASSUME ConnInv, TakesUnexpected PROVE ConnInv'
  OBVIOUS
<1> DEFINE m == Head(s2c)
<1>1. /\ client \in AnyClient /\ s2c \in Seq(AnyMessage) /\ s2c # <<>> /\ s2c' = Tail(s2c)
      /\ server' = server /\ c2s' = c2s /\ Waiting
      /\ client' = [client EXCEPT
            !.garbled = @ \/ (m.ver # client.ver /\ m.name \notin Common)]
  BY DEF ConnInv, ConnTypes, TakesUnexpected
<1>2. m = s2c[1] /\ 1 \in DOMAIN s2c
  BY <1>1, Taken
<1>3. m.ver = client.ver \/ m.name \in Common
  BY <1>1, <1>2 DEF ConnInv, OpeningNext, Agreed, Shaken, Waiting, Common
<1>4. client.garbled = FALSE
  BY <1>1 DEF ConnInv, NeverGarbled, AnyClient
<1>5. client' = [client EXCEPT !.garbled = FALSE]
  BY <1>1, <1>3, <1>4
<1>6. client' = client
  BY <1>1, <1>4, <1>5 DEF AnyClient
<1> QED
  BY <1>1, <1>6, TailKeeps DEF Waiting

LEMMA TakesIdleKeeps == ConnInv /\ TakesIdle => ConnInv'
<1> SUFFICES ASSUME ConnInv, TakesIdle PROVE ConnInv'
  OBVIOUS
<1> DEFINE m == Head(s2c)
<1>1. /\ client \in AnyClient /\ s2c \in Seq(AnyMessage) /\ s2c # <<>> /\ s2c' = Tail(s2c)
      /\ server' = server /\ c2s' = c2s /\ client.pc = "ready"
      /\ client' = [client EXCEPT !.garbled = @ \/ m.ver # client.ver \/ m.type # "request"]
  BY DEF ConnInv, ConnTypes, TakesIdle
<1>2. m = s2c[1] /\ 1 \in DOMAIN s2c /\ m \in AnyMessage
  BY <1>1, Taken
<1>3. m.ver = client.ver
  BY <1>1, <1>2 DEF ConnInv, Agreed, Shaken
<1>4. m.type = "request"
  <2>1. m.type # "reply"
    BY <1>1, <1>2 DEF ConnInv, OneReply, Waiting
  <2> QED
    BY <1>2, <2>1 DEF AnyMessage
<1>5. client.garbled = FALSE
  BY <1>1 DEF ConnInv, NeverGarbled, AnyClient
<1>6. client' = [client EXCEPT !.garbled = FALSE]
  BY <1>1, <1>3, <1>4, <1>5
<1>7. client' = client
  BY <1>1, <1>5, <1>6 DEF AnyClient
<1> QED
  BY <1>1, <1>7, TailKeeps

\* A client that is done with the connection knows what it knew
LEMMA ClosesKeeps ==
  ASSUME ConnInv, server' = server, s2c' = s2c, c2s' = c2s,
         \A i \in DOMAIN s2c : s2c[i].type # "reply",
         c2s = <<>> \/ ~server.up,
         client' \in AnyClient, client'.pc = "closed", client'.garbled = client.garbled,
         client'.call = client.call \/ client'.call.result = "botch"
  PROVE  ConnInv'
<1>1. ConnTypes'
  BY DEF ConnInv, ConnTypes
<1>2. OneRequest' /\ OneReply'
  BY DEF ConnInv, OneRequest, OneReply, Waiting
<1>3. ReplyIsOurs'
  BY DEF ConnInv, ReplyIsOurs
<1>4. GreetingFirst' /\ OpeningNext' /\ Agreed' /\ NeverGarbled'
  BY DEF ConnInv, GreetingFirst, OpeningNext, Agreed, Shaken, NeverGarbled
<1> QED
  BY <1>1, <1>2, <1>3, <1>4 DEF ConnInv

LEMMA SeesEndKeeps == ConnInv /\ SeesEnd => ConnInv'
<1> SUFFICES ASSUME ConnInv, SeesEnd PROVE ConnInv'
  OBVIOUS
<1>1. /\ client \in AnyClient /\ s2c = <<>> /\ ~server.up
      /\ server' = server /\ s2c' = s2c /\ c2s' = c2s
      /\ client' = [client EXCEPT !.pc = "closed",
                      !.call.result = IF Waiting THEN "botch" ELSE @]
  BY DEF ConnInv, ConnTypes, SeesEnd
<1>2. /\ client.call \in AnyCall
      /\ client'.pc = "closed" /\ client'.garbled = client.garbled
      /\ client'.call = [client.call EXCEPT !.result = IF Waiting THEN "botch" ELSE @]
  BY <1>1 DEF AnyClient
<1>3. client'.call = client.call \/ client'.call.result = "botch"
  BY <1>2 DEF AnyCall
<1>4. client' \in AnyClient
  <2>1. [client.call EXCEPT !.result = IF Waiting THEN "botch" ELSE @] \in AnyCall
    BY <1>2 DEF AnyCall, Outcomes
  <2> QED
    BY <1>1, <2>1 DEF AnyClient, Phases
<1>5. \A i \in DOMAIN s2c : s2c[i].type # "reply"
  BY <1>1
<1> QED
  BY <1>1, <1>2, <1>3, <1>4, <1>5, ClosesKeeps

LEMMA HangsUpKeeps == ConnInv /\ HangsUp => ConnInv'
<1> SUFFICES ASSUME ConnInv, HangsUp PROVE ConnInv'
  OBVIOUS
<1>1. /\ client \in AnyClient /\ ~Waiting /\ client.pc # "closed"
      /\ server' = server /\ s2c' = s2c /\ c2s' = c2s
      /\ client' = [client EXCEPT !.pc = "closed"]
  BY DEF ConnInv, ConnTypes, HangsUp, Waiting
<1>2. /\ client' \in AnyClient /\ client'.pc = "closed" /\ client'.garbled = client.garbled
      /\ client'.call = client.call
  BY <1>1 DEF AnyClient, Phases
<1>3. c2s = <<>> /\ \A i \in DOMAIN s2c : s2c[i].type # "reply"
  BY <1>1 DEF ConnInv, OneRequest, OneReply
<1> QED
  BY <1>1, <1>2, <1>3, ClosesKeeps

(***************************************************************************)
(* The server                                                                *)
(***************************************************************************)

\* What a request may change in the session: its version only if it is CONNECT_OPEN,
\* and then to the one asked for
LEMMA HandledProperties ==
  ASSUME NEW s \in AnyServer, NEW m \in AnyMessage
  PROVE  LET done == Handled(s, m)
         IN /\ done.to \in AnyServer /\ done.error \in Errors
            /\ done.to.max = s.max /\ done.to.seq = s.seq /\ done.to.garbled = s.garbled
            /\ m.name # "Open" => done.to.ver = s.ver
            /\ m.name # "Auth" => done.to.authorized = s.authorized
            /\ m.name = "Open" /\ ~s.open /\ done.error = "none" =>
                 done.to.ver = m.arg /\ m.arg <= s.max
<1> DEFINE t == Implied(s, m)
           done == Handled(s, m)
           Kept(u) == /\ u \in AnyServer /\ u.max = s.max /\ u.seq = s.seq /\ u.garbled = s.garbled
           Result0(d) == [to |-> d.to, error |-> d.error]
<1>1. Kept(t) /\ t.ver = s.ver /\ t.authorized = s.authorized
  <2>1. CASE ~s.open /\ m.name # "Open"
    <3>1. t = [s EXCEPT !.open = TRUE, !.ver = s.ver]
      BY <2>1 DEF Implied, OpenCommon
    <3> QED
      BY <3>1 DEF AnyServer
  <2>2. CASE ~(~s.open /\ m.name # "Open")
    <3>1. t = s
      BY <2>2 DEF Implied
    <3> QED
      BY <3>1
  <2> QED
    BY <2>1, <2>2
<1>2. m.name = "Open" => t = s
  BY DEF Implied
<1> HIDE DEF t
<1>3. CASE ~Permitted(t, m)
  <2>1. done = [to |-> t, error |-> "refused"] /\ m.name # "Open"
    BY <1>3 DEF Handled, Permitted, t, Free
  <2> QED
    BY <1>1, <2>1 DEF Errors
<1>4. CASE Permitted(t, m) /\ m.name = "Open"
  <2>1. done = Opens(t, m.arg)
    BY <1>4 DEF Handled, t
  <2>2. CASE t.open
    <3>1. done.to = t /\ done.error \in {"illegal", "none"}
      BY <2>1, <2>2 DEF Opens
    <3> QED
      BY <1>1, <1>2, <1>4, <2>2, <3>1 DEF Errors
  <2>3. CASE ~t.open /\ m.arg \in Versions /\ m.arg <= t.max
    <3>1. done.to = [t EXCEPT !.open = TRUE, !.ver = m.arg] /\ done.error = "none"
      BY <2>1, <2>3 DEF Opens, OpenCommon
    <3>2. Kept(done.to) /\ done.to.ver = m.arg /\ done.to.authorized = t.authorized
      BY <1>1, <2>3, <3>1 DEF AnyServer
    <3> QED
      BY <1>1, <1>4, <2>3, <3>1, <3>2 DEF Errors
  <2>4. CASE ~t.open /\ ~(m.arg \in Versions /\ m.arg <= t.max)
    <3>1. done.to = t /\ done.error = "illegal"
      BY <2>1, <2>4 DEF Opens
    <3> QED
      BY <1>1, <1>4, <3>1 DEF Errors
  <2> QED
    BY <1>4, <2>2, <2>3, <2>4
<1>5. CASE Permitted(t, m) /\ m.name = "AuthAttr"
  <2>1. done.to = [t EXCEPT !.challenge = TRUE] /\ done.error = "none"
    BY <1>5 DEF Handled, t
  <2>2. Kept(done.to) /\ done.to.ver = t.ver /\ done.to.authorized = t.authorized
    BY <1>1, <2>1 DEF AnyServer
  <2> QED
    BY <1>1, <1>5, <2>1, <2>2 DEF Errors
<1>6. CASE Permitted(t, m) /\ m.name = "Auth"
  <2>1. done = Proves(t, m.arg)
    BY <1>6 DEF Handled, t
  <2>2. /\ done.to = t \/ done.to = [t EXCEPT !.authorized = TRUE]
        /\ done.error \in Errors
    BY <2>1 DEF Proves, Errors
  <2>3. Kept(done.to) /\ done.to.ver = t.ver
    BY <1>1, <2>2 DEF AnyServer
  <2> QED
    BY <1>1, <1>6, <2>2, <2>3
<1>7. CASE Permitted(t, m) /\ m.name = "Close"
  <2>1. done.to = [t EXCEPT !.up = FALSE] /\ done.error = "none"
    BY <1>7 DEF Handled, t
  <2>2. Kept(done.to) /\ done.to.ver = t.ver /\ done.to.authorized = t.authorized
    BY <1>1, <2>1 DEF AnyServer
  <2> QED
    BY <1>1, <1>7, <2>1, <2>2 DEF Errors
<1>8. CASE Permitted(t, m) /\ m.name \notin {"Open", "AuthAttr", "Auth", "Close"}
  <2>1. done.to = t /\ done.error = "none"
    BY <1>8 DEF Handled, t
  <2> QED
    BY <1>1, <1>8, <2>1 DEF Errors
<1> QED
  BY <1>3, <1>4, <1>5, <1>6, <1>7, <1>8

\* A server that has a request has the request of a client that waits, and
\* nothing it has sent is a reply
LEMMA ServingFacts ==
  ASSUME ConnInv, server.up, c2s # <<>>
  PROVE  /\ Waiting /\ Head(c2s) \in AnyMessage /\ client.call.result = "none"
         /\ Head(c2s).seq = client.call.seq /\ Head(c2s).name = client.call.name
         /\ Tail(c2s) = <<>> /\ Len(Tail(c2s)) = 0
         /\ \A i \in DOMAIN s2c : /\ s2c[i].type = "request" /\ client.pc # "opening"
                                  /\ s2c[i].ver = client.ver
         /\ client.pc = "opening" => /\ Head(c2s).name = "Open" /\ Head(c2s).arg = client.want
                                     /\ ~server.open /\ ~server.authorized
         /\ client.pc # "opening" => /\ Shaken /\ Head(c2s).name # "Open"
                                     /\ Head(c2s).ver = server.ver /\ client.ver = server.ver
<1> DEFINE m == Head(c2s)
<1>1. /\ c2s \in Seq(AnyMessage) /\ s2c \in Seq(AnyMessage)
      /\ OneRequest /\ OneReply /\ OpeningNext /\ Agreed
  BY DEF ConnInv, ConnTypes
<1>2. /\ m \in AnyMessage /\ m = c2s[1] /\ 1 \in DOMAIN c2s /\ Len(c2s) >= 1 /\ Len(c2s) \in Nat
      /\ Tail(c2s) \in Seq(AnyMessage) /\ Len(Tail(c2s)) = Len(c2s) - 1
  BY <1>1, Taken
<1>3. Waiting /\ client.call.result = "none" /\ m.seq = client.call.seq /\ m.name = client.call.name
  BY <1>1 DEF OneRequest
<1>4. Len(Tail(c2s)) = 0
  BY <1>1, <1>2 DEF OneRequest
<1>5. Tail(c2s) = <<>>
  <2> DEFINE rest == Tail(c2s)
  <2>1. rest \in Seq(AnyMessage) /\ Len(rest) = 0
    BY <1>2, <1>4
  <2> HIDE DEF rest
  <2>2. rest = <<>>
    BY <2>1
  <2> QED
    BY <2>2 DEF rest
<1>6. client.pc # "opening" => Shaken
  BY <1>3 DEF Waiting, Shaken
<1>7. \A i \in DOMAIN s2c : s2c[i].type = "request"
  <2>1. \A i \in DOMAIN s2c : s2c[i].type # "reply"
    BY <1>1 DEF OneReply
  <2>2. \A i \in DOMAIN s2c : s2c[i] \in AnyMessage
    BY <1>1
  <2> QED
    BY <2>1, <2>2 DEF AnyMessage
<1>8. \A i \in DOMAIN s2c : client.pc # "opening" /\ s2c[i].ver = client.ver
  BY <1>1, <1>6, <1>7 DEF OpeningNext, Agreed
<1>9. client.pc = "opening" => /\ m.name = "Open" /\ m.arg = client.want
                               /\ ~server.open /\ ~server.authorized
  BY <1>1, <1>3 DEF OpeningNext
<1>10. client.pc # "opening" => /\ m.name # "Open" /\ m.ver = server.ver /\ client.ver = server.ver
  BY <1>1, <1>2, <1>3, <1>6 DEF Agreed
<1> QED
  BY <1>2, <1>3, <1>4, <1>5, <1>6, <1>7, <1>8, <1>9, <1>10

\* The session after a request, as far as the other end can tell
LEMMA ServedKeeps ==
  ASSUME ConnInv, server.up, c2s # <<>>, client' = client, c2s' = Tail(c2s),
         NEW did, did = [name |-> Head(c2s).name, seq |-> Head(c2s).seq,
                         result |-> Said(Handled(server, Head(c2s)).error)],
         NEW to \in AnyServer, to = Handled(server, Head(c2s)).to,
         server' \in AnyServer, server'.did = did, server'.ver = to.ver, server'.max = to.max,
         server'.authorized = to.authorized, ~server'.garbled,
         NEW sent \in Seq(AnyMessage), NEW r \in AnyMessage, s2c' = Append(sent, r),
         \A i \in DOMAIN sent : /\ sent[i].type = "request" /\ client.pc # "opening"
                                /\ sent[i].ver = client.ver,
         r.type = "reply", r.re = Head(c2s).seq, r.error = Handled(server, Head(c2s)).error,
         r.name = Head(c2s).name, r.ver = server.ver
  PROVE  ConnInv'
<1> DEFINE m == Head(c2s)
           error == Handled(server, m).error
<1>1. client \in AnyClient /\ server \in AnyServer /\ c2s \in Seq(AnyMessage) /\ s2c \in Seq(AnyMessage)
  BY DEF ConnInv, ConnTypes
<1>2. /\ Waiting /\ m \in AnyMessage /\ client.call.result = "none"
      /\ m.seq = client.call.seq /\ m.name = client.call.name
      /\ Tail(c2s) = <<>> /\ Len(Tail(c2s)) = 0
      /\ client.pc = "opening" => /\ m.name = "Open" /\ m.arg = client.want
                                  /\ ~server.open /\ ~server.authorized
      /\ client.pc # "opening" => /\ Shaken /\ m.name # "Open" /\ client.ver = server.ver
  BY ServingFacts
<1>3. /\ to.max = server.max
      /\ m.name # "Open" => to.ver = server.ver
      /\ m.name # "Auth" => to.authorized = server.authorized
      /\ m.name = "Open" /\ ~server.open /\ error = "none" => to.ver = m.arg /\ m.arg <= server.max
  BY <1>1, <1>2, HandledProperties
<1>4. /\ s2c' \in Seq(AnyMessage) /\ Len(s2c') = Len(sent) + 1
      /\ \A i \in DOMAIN s2c' :
              \/ i \in DOMAIN sent /\ i < Len(sent) + 1 /\ s2c'[i] = sent[i]
              \/ i = Len(sent) + 1 /\ s2c'[i] = r
  BY Sent
<1>5. ConnTypes'
  BY <1>1, <1>2, <1>4 DEF ConnTypes
<1>6. OneRequest'
  <2>1. c2s' = <<>> /\ Len(c2s') = 0 /\ client'.call.result = "none"
    BY <1>2
  <2> QED
    BY <2>1 DEF OneRequest
<1>7. did = [client.call EXCEPT !.result = Said(error)]
  <2>1. client.call \in AnyCall
    BY <1>1 DEF AnyClient
  <2> QED
    BY <1>2, <2>1 DEF AnyCall
<1>8. OneReply'
  <2>1. \A i \in DOMAIN s2c' : s2c'[i].type = "reply" => i = Len(sent) + 1 /\ s2c'[i] = r
    BY <1>4
  <2>2. \A i \in DOMAIN s2c' : s2c'[i].type = "reply" =>
         /\ Waiting' /\ c2s' = <<>>
         /\ s2c'[i].re = client'.call.seq
         /\ server'.did = [client'.call EXCEPT !.result = Said(s2c'[i].error)]
    BY <1>2, <1>7, <2>1 DEF Waiting
  <2> QED
    BY <2>1, <2>2 DEF OneReply
<1>9. ReplyIsOurs' /\ GreetingFirst' /\ NeverGarbled'
  BY <1>2 DEF ConnInv, ReplyIsOurs, GreetingFirst, NeverGarbled, Waiting
<1>10. OpeningNext'
  <2>1. SUFFICES ASSUME client.pc = "opening" PROVE OpeningNext'
    BY DEF OpeningNext
  <2>2. OpeningNext
    BY DEF ConnInv
  <2>3. \A i \in DOMAIN s2c' : s2c'[i] = r
    BY <1>4, <2>1
  <2>4. m.name = "Open" /\ m.arg = client.want /\ ~server'.authorized
        /\ (error = "none" => server'.ver = client.want /\ client.want <= server'.max)
    BY <1>2, <1>3, <2>1
  <2> QED
    BY <1>2, <2>1, <2>2, <2>3, <2>4 DEF OpeningNext
<1>11. Agreed'
  <2>1. SUFFICES ASSUME Shaken PROVE Agreed'
    BY DEF Agreed, Shaken
  <2>2. client.pc # "opening"
    BY <2>1 DEF Shaken
  <2>3. server'.ver = server.ver /\ server'.max = server.max /\ client.ver = server.ver
    BY <1>2, <1>3, <2>2
  <2>4. \A i \in DOMAIN s2c' : s2c'[i].ver = client.ver
    BY <1>4, <2>3
  <2>5. Agreed
    BY DEF ConnInv
  <2> QED
    BY <1>2, <2>1, <2>3, <2>4, <2>5 DEF Agreed, Waiting
<1> QED
  BY <1>5, <1>6, <1>8, <1>9, <1>10, <1>11 DEF ConnInv

LEMMA TwoSent ==
  ASSUME NEW s \in Seq(AnyMessage), NEW a \in AnyMessage, NEW b \in AnyMessage
  PROVE  s \o <<a, b>> = Append(Append(s, a), b)
  OBVIOUS

LEMMA ServesKeeps == ConnInv /\ Serves => ConnInv'
<1> SUFFICES ASSUME ConnInv, Serves PROVE ConnInv'
  OBVIOUS
<1> DEFINE m == Head(c2s)
           done == Handled(server, m)
           did == [name |-> m.name, seq |-> m.seq, result |-> Said(done.error)]
           r == ReplyTo(m, done.error)
           n == Notice(server.seq)
<1>1. /\ client \in AnyClient /\ server \in AnyServer /\ c2s \in Seq(AnyMessage)
      /\ s2c \in Seq(AnyMessage) /\ server.up /\ c2s # <<>>
      /\ client' = client /\ c2s' = Tail(c2s)
  BY DEF ConnInv, ConnTypes, Serves
<1>2. /\ Waiting /\ m \in AnyMessage /\ client.call.result = "none" /\ m.name = client.call.name
      /\ Tail(c2s) = <<>> /\ Len(Tail(c2s)) = 0
      /\ \A i \in DOMAIN s2c : /\ s2c[i].type = "request" /\ client.pc # "opening"
                               /\ s2c[i].ver = client.ver
      /\ client.pc = "opening" => m.name = "Open"
      /\ client.pc # "opening" => /\ Shaken /\ m.name # "Open"
                                  /\ m.ver = server.ver /\ client.ver = server.ver
  BY <1>1, ServingFacts
<1>3. /\ done.to \in AnyServer /\ done.error \in Errors
      /\ done.to.max = server.max /\ done.to.seq = server.seq /\ done.to.garbled = server.garbled
      /\ m.name # "Open" => done.to.ver = server.ver
      /\ m.name # "Auth" => done.to.authorized = server.authorized
  BY <1>1, <1>2, HandledProperties
<1>4. did \in AnyCall
  <2>1. m.name \in Names /\ m.seq \in Nat
    BY <1>2 DEF AnyMessage
  <2>2. Said(done.error) \in Outcomes
    BY <1>3 DEF Said, Outcomes, Errors
  <2> HIDE DEF m, done
  <2> QED
    BY <2>1, <2>2 DEF AnyCall
<1>5. server.garbled = FALSE /\ server.ver \in Versions /\ server.seq \in Nat
  BY <1>1 DEF ConnInv, NeverGarbled, AnyServer
<1>6. /\ r \in AnyMessage /\ r.type = "reply" /\ r.re = m.seq /\ r.error = done.error
      /\ r.name = m.name /\ r.ver = server.ver
  <2>1. m.name \in Names /\ m.seq \in Nat
    BY <1>2 DEF AnyMessage
  <2> HIDE DEF m, done
  <2> QED
    BY <1>3, <1>5, <2>1 DEF ReplyTo, Message, AnyMessage, Known0
<1>7. CASE /\ m.name # "Close"
           /\ s2c' = Append(s2c, r)
           /\ server' = [done.to EXCEPT !.seq = @ + 1, !.did = did,
                !.garbled = @ \/ (m.ver # server.ver /\ m.name \notin Common)]
  <2>1. ~(m.ver # server.ver /\ m.name \notin Common)
    BY <1>2 DEF Common
  <2>2. server' = [done.to EXCEPT !.seq = @ + 1, !.did = did, !.garbled = FALSE]
    BY <1>3, <1>5, <1>7, <2>1
  <2>3. /\ server' \in AnyServer /\ server'.did = did /\ server'.ver = done.to.ver
        /\ server'.max = done.to.max /\ server'.authorized = done.to.authorized /\ ~server'.garbled
    <3>1. done.to \in AnyServer /\ did \in AnyCall /\ ~done.to.garbled
      BY <1>3, <1>4, <1>5
    <3>2. done.to.seq + 1 \in Nat
      <4> HIDE DEF m, done
      <4> QED
        BY <3>1 DEF AnyServer
    <3> HIDE DEF m, done, did
    <3> QED
      BY <3>1, <3>2, <2>2 DEF AnyServer
  <2> QED
    BY <1>1, <1>2, <1>3, <1>6, <1>7, <2>3, ServedKeeps
<1>8. CASE m.name = "Close" /\ server' = [done.to EXCEPT !.did = did] /\ s2c' = s2c
  <2>1. /\ server' \in AnyServer /\ server'.did = did /\ server'.ver = done.to.ver
        /\ server'.max = server.max /\ server'.garbled = FALSE
    <3> HIDE DEF m, did
    <3> QED
      BY <1>3, <1>4, <1>5, <1>8 DEF AnyServer
  <2>2. client.pc # "opening" /\ Shaken /\ server'.ver = server.ver
    BY <1>2, <1>3, <1>8, <2>1
  <2>3. ConnTypes'
    BY <1>1, <1>2, <1>8, <2>1 DEF ConnTypes
  <2>4. OneRequest' /\ OneReply'
    <3>1. c2s' = <<>> /\ Len(c2s') = 0 /\ client'.call.result = "none"
      BY <1>1, <1>2
    <3> QED
      BY <1>2, <1>8, <3>1 DEF OneRequest, OneReply
  <2>5. ReplyIsOurs' /\ GreetingFirst' /\ OpeningNext' /\ NeverGarbled'
    BY <1>1, <1>2, <2>1, <2>2 DEF ConnInv, ReplyIsOurs, GreetingFirst, OpeningNext, NeverGarbled, Shaken
  <2>6. Agreed'
    BY <1>1, <1>2, <1>8, <2>1, <2>2 DEF ConnInv, Agreed, Shaken, Waiting
  <2> QED
    BY <2>3, <2>4, <2>5, <2>6 DEF ConnInv
<1>9. CASE /\ m.name = "Work" /\ done.error = "none"
           /\ s2c' = s2c \o <<n, [ReplyTo(m, "none") EXCEPT !.seq = @ + 1]>>
           /\ server' = [done.to EXCEPT !.seq = @ + 2, !.did = did,
                !.garbled = @ \/ m.ver # server.ver]
  <2> DEFINE q == [ReplyTo(m, "none") EXCEPT !.seq = @ + 1]
             sent == Append(s2c, n)
  <2>1. client.pc # "opening" /\ m.ver = server.ver /\ client.ver = server.ver
    BY <1>2, <1>9
  <2>2. n \in AnyMessage /\ n.type = "request" /\ n.ver = server.ver
    BY <1>5 DEF Notice, Message, AnyMessage, Names, Errors, Known0
  <2>3. /\ q \in AnyMessage /\ q.type = "reply" /\ q.re = m.seq /\ q.error = done.error
        /\ q.name = m.name /\ q.ver = server.ver
    <3>1. m.name \in Names /\ m.seq \in Nat
      BY <1>2 DEF AnyMessage
    <3> HIDE DEF m, done
    <3> QED
      BY <1>3, <1>5, <1>9, <3>1 DEF ReplyTo, Message, AnyMessage, Known0
  <2> HIDE DEF q, n
  <2>4. /\ sent \in Seq(AnyMessage)
        /\ \A i \in DOMAIN sent : sent[i].type = "request" /\ client.pc # "opening"
                                  /\ sent[i].ver = client.ver
    <3>1. /\ sent \in Seq(AnyMessage)
          /\ \A i \in DOMAIN sent :
              \/ i \in DOMAIN s2c /\ i < Len(s2c) + 1 /\ sent[i] = s2c[i]
              \/ i = Len(s2c) + 1 /\ sent[i] = n
      BY <1>1, <2>2, Sent
    <3> HIDE DEF sent
    <3> QED
      BY <1>2, <2>1, <2>2, <3>1
  <2>5. s2c' = Append(sent, q)
    BY <1>1, <1>9, <2>2, <2>3, TwoSent DEF q
  <2>6. server' = [done.to EXCEPT !.seq = @ + 2, !.did = did, !.garbled = FALSE]
    BY <1>3, <1>5, <1>9, <2>1
  <2>7. /\ server' \in AnyServer /\ server'.did = did /\ server'.ver = done.to.ver
        /\ server'.max = done.to.max /\ server'.authorized = done.to.authorized /\ ~server'.garbled
    <3>1. done.to \in AnyServer /\ did \in AnyCall /\ ~done.to.garbled
      BY <1>3, <1>4, <1>5
    <3>2. done.to.seq + 2 \in Nat
      <4> HIDE DEF m, done
      <4> QED
        BY <3>1 DEF AnyServer
    <3> HIDE DEF m, done, did
    <3> QED
      BY <3>1, <3>2, <2>6 DEF AnyServer
  <2> HIDE DEF sent
  <2> QED
    BY <1>1, <1>3, <2>3, <2>4, <2>5, <2>7, ServedKeeps
<1> QED
  BY <1>7, <1>8, <1>9 DEF Serves, Said

LEMMA NotifiesKeeps == ConnInv /\ Notifies => ConnInv'
<1> SUFFICES ASSUME ConnInv, Notifies PROVE ConnInv'
  OBVIOUS
<1> DEFINE n == Notice(server.seq)
<1>1. /\ client \in AnyClient /\ server \in AnyServer /\ c2s \in Seq(AnyMessage)
      /\ s2c \in Seq(AnyMessage) /\ server.authorized
      /\ client' = client /\ c2s' = c2s /\ s2c' = Append(s2c, n)
      /\ server' = [server EXCEPT !.seq = @ + 1]
  BY DEF ConnInv, ConnTypes, Notifies
<1>2. /\ server' \in AnyServer /\ server'.did = server.did /\ server'.ver = server.ver
      /\ server'.max = server.max /\ server'.garbled = server.garbled /\ server'.up = server.up
  BY <1>1, SMTT(30) DEF AnyServer
<1>3. n \in AnyMessage /\ n.type = "request" /\ n.ver = server.ver
  BY <1>1 DEF Notice, Message, AnyMessage, AnyServer, Names, Errors, Known0
<1> HIDE DEF n
<1>4. /\ s2c' \in Seq(AnyMessage) /\ Len(s2c') = Len(s2c) + 1
      /\ \A i \in DOMAIN s2c' :
              \/ i \in DOMAIN s2c /\ i < Len(s2c) + 1 /\ s2c'[i] = s2c[i]
              \/ i = Len(s2c) + 1 /\ s2c'[i] = n
  BY <1>1, <1>3, Sent
<1>5. client.pc \notin {"greeting", "opening"}
  BY <1>1 DEF ConnInv, GreetingFirst, OpeningNext
<1>6. ConnTypes' /\ OneRequest' /\ NeverGarbled' /\ GreetingFirst' /\ OpeningNext'
  BY <1>1, <1>2, <1>4, <1>5 DEF ConnInv, ConnTypes, OneRequest, Waiting, NeverGarbled,
                               GreetingFirst, OpeningNext
<1>7. OneReply'
  <2>1. \A i \in DOMAIN s2c' : s2c'[i].type = "reply" => i \in DOMAIN s2c /\ s2c'[i] = s2c[i]
    BY <1>3, <1>4
  <2>2. OneReply
    BY DEF ConnInv
  <2> QED
    BY <1>1, <1>2, <2>1, <2>2 DEF OneReply, Waiting
<1>8. ReplyIsOurs'
  BY <1>1, <1>2 DEF ConnInv, ReplyIsOurs
<1>9. Agreed'
  <2>1. SUFFICES ASSUME Shaken PROVE Agreed'
    BY <1>1 DEF Agreed, Shaken
  <2>2. Agreed
    BY DEF ConnInv
  <2>3. \A i \in DOMAIN s2c' : s2c'[i].ver = client.ver
    BY <1>3, <1>4, <2>1, <2>2 DEF Agreed
  <2> QED
    BY <1>1, <1>2, <2>1, <2>2, <2>3 DEF Agreed, Waiting
<1> QED
  BY <1>6, <1>7, <1>8, <1>9 DEF ConnInv

\* The end of the server leaves of what it sent a part, and of its request nothing
LEMMA EndKeeps ==
  ASSUME ConnInv, client' = client, server' = [server EXCEPT !.up = FALSE],
         c2s' = <<>>, NEW n \in 0 .. Len(s2c), s2c' = SubSeq(s2c, 1, n)
  PROVE  ConnInv'
<1>1. server \in AnyServer /\ s2c \in Seq(AnyMessage)
  BY DEF ConnInv, ConnTypes
<1>2. /\ server' \in AnyServer /\ server'.did = server.did /\ server'.ver = server.ver
      /\ server'.max = server.max /\ server'.garbled = server.garbled
      /\ server'.open = server.open /\ server'.authorized = server.authorized
  BY <1>1 DEF AnyServer
<1>3. /\ s2c' \in Seq(AnyMessage) /\ Len(s2c') = n
      /\ \A i \in DOMAIN s2c' : i \in DOMAIN s2c /\ s2c'[i] = s2c[i]
  BY <1>1, CutShort
<1>4. Len(c2s') = 0
  OBVIOUS
<1>5. ConnTypes' /\ NeverGarbled' /\ ReplyIsOurs'
  BY <1>2, <1>3 DEF ConnInv, ConnTypes, NeverGarbled, ReplyIsOurs
<1>6. OneRequest'
  BY <1>4 DEF ConnInv, OneRequest, Waiting
<1>7. OneReply'
  BY <1>2, <1>3, SMTT(30) DEF ConnInv, OneReply, Waiting
<1>8. GreetingFirst'
  <2>1. SUFFICES ASSUME client.pc = "greeting" PROVE GreetingFirst'
    BY DEF GreetingFirst
  <2>2. GreetingFirst
    BY DEF ConnInv
  <2>3. Len(s2c') <= 1
    BY <1>1, <1>3, <2>1, <2>2 DEF GreetingFirst
  <2> QED
    BY <1>2, <1>3, <2>1, <2>2, <2>3 DEF GreetingFirst
<1>9. OpeningNext' /\ Agreed'
  BY <1>2, <1>3 DEF ConnInv, OpeningNext, Agreed, Shaken, Waiting
<1> QED
  BY <1>5, <1>6, <1>7, <1>8, <1>9 DEF ConnInv

LEMMA ServerEndsKeeps == ConnInv /\ ServerEnds => ConnInv'
<1> SUFFICES ASSUME ConnInv, ServerEnds PROVE ConnInv'
  OBVIOUS
<1>1. s2c \in Seq(AnyMessage)
  BY DEF ConnInv, ConnTypes
<1>2. /\ client' = client /\ server' = [server EXCEPT !.up = FALSE]
      /\ c2s' = <<>> /\ s2c' = s2c
  BY DEF ServerEnds
<1>3. Len(s2c) \in 0 .. Len(s2c) /\ s2c' = SubSeq(s2c, 1, Len(s2c))
  BY <1>1, <1>2, SubSeqFull
<1> QED
  BY <1>2, <1>3, EndKeeps

LEMMA BreaksKeeps == ConnInv /\ Breaks => ConnInv'
  BY EndKeeps DEF Breaks

(***************************************************************************)
(* The theorems                                                              *)
(***************************************************************************)

LEMMA StepKeeps == ConnInv /\ [Next]_vars => ConnInv'
<1> SUFFICES ASSUME ConnInv, [Next]_vars PROVE ConnInv'
  OBVIOUS
<1>1. CASE UNCHANGED vars
  BY <1>1 DEF ConnInv, vars, ConnTypes, OneRequest, OneReply, ReplyIsOurs, GreetingFirst,
              OpeningNext, Agreed, Shaken, NeverGarbled, Waiting
<1>2. CASE Greeted \/ Assumes \/ Authenticates \/ ShowsDigest \/ Calls
  BY <1>2, GreetedKeeps, AssumesKeeps, AuthenticatesKeeps, ShowsDigestKeeps, CallsKeeps
<1>3. CASE TakesReply \/ TakesUnexpected \/ TakesIdle \/ SeesEnd \/ HangsUp
  BY <1>3, TakesReplyKeeps, TakesUnexpectedKeeps, TakesIdleKeeps, SeesEndKeeps, HangsUpKeeps
<1>4. CASE Serves \/ Notifies \/ ServerEnds \/ Breaks
  BY <1>4, ServesKeeps, NotifiesKeeps, ServerEndsKeeps, BreaksKeeps
<1>5. CASE Ended
  BY <1>1, <1>5 DEF Ended
<1> QED
  BY <1>1, <1>2, <1>3, <1>4, <1>5 DEF Next

\* The conversation is always in order
THEOREM ConnInvHolds == Spec => []ConnInv
  BY InitInv, StepKeeps, PTL DEF Spec

\* A caller that was given an answer was given the server's answer to its own
\* request, for any number of calls and notices (ndmconn_exchange_nmb)
THEOREM AnswersAreOurs == Spec => []ReplyIsOurs
<1>1. ConnInv => ReplyIsOurs
  BY DEF ConnInv
<1> QED
  BY <1>1, ConnInvHolds, PTL

\* Between calls nothing is under way to the client but notices, so that none is
\* dispatched for a request that is a reply (ndma_dispatch_conn)
THEOREM NothingAstray == Spec => []NoReplyAstray
<1>1. ConnInv => NoReplyAstray
  <2> SUFFICES ASSUME ConnInv, ~Waiting, NEW i \in DOMAIN s2c PROVE s2c[i].type = "request"
    BY DEF NoReplyAstray
  <2>1. s2c[i] \in AnyMessage
    BY DEF ConnInv, ConnTypes
  <2>2. s2c[i].type # "reply"
    BY DEF ConnInv, OneReply
  <2> QED
    BY <2>1, <2>2 DEF AnyMessage
<1> QED
  BY <1>1, ConnInvHolds, PTL

\* Whatever versions there are, the ends use one that both know, and no body is
\* decoded in another version than it was encoded in (connect_open_common)
THEOREM OneVersion == Spec => []VersionsAgree
<1>1. ConnInv => VersionsAgree
  BY DEF ConnInv, Agreed, Shaken, NeverGarbled, VersionsAgree
<1> QED
  BY <1>1, ConnInvHolds, PTL
=============================================================================
