------------------------------ MODULE NdmConn ------------------------------
(***************************************************************************)
(* One control connection: the CONTROL agent's ndmconn at one end and the   *)
(* session of a DATA, TAPE or ROBOT server at the other (ndml_conn.c, the   *)
(* access paths to ndma_dispatch_request() in ndma_comm_dispatch.c, and     *)
(* ndma_server_session()).  The ends greet each other, agree on a protocol  *)
(* version, authenticate, and then the client calls while the server also   *)
(* sends notices of its own.                                                *)
(*                                                                          *)
(* A message is its header, with the version its body was encoded in.       *)
(* What a body holds is left out, except the arguments of OPEN and AUTH.    *)
(***************************************************************************)
EXTENDS Naturals, Sequences

CONSTANTS
    Versions,       \* the protocol versions there are, 0 not among them
    AuthTypes,      \* what the agent's auth_type may ask for
    CallLimit,      \* calls a client makes once it is ready
    NoticeLimit,    \* notices a server sends
    Faults          \* of "breaks" (the connection), "late" (a reply)

ASSUME ConnAssumption ==
    /\ Versions # {} /\ Versions \subseteq Nat \ {0}
    /\ AuthTypes \subseteq {"none", "text", "md5", "void"}
    /\ CallLimit \in Nat /\ NoticeLimit \in Nat
    /\ Faults \subseteq {"breaks", "late"}

VARIABLES
    client,     \* pc, version, next sequence number, what it wants, its outstanding call
    server,     \* session alive, conn_open, conn_authorized, challenge, version, last request
    c2s, s2c,   \* what is under way in each direction
    made        \* calls and notices made so far

vars == <<client, server, c2s, s2c, made>>

NoMessage == [name |-> "none", seq |-> 0, result |-> "none"]

\* Messages of NDMP0 have the same body in every version
Common == {"Connected", "Open", "Close"}

\* What may be asked for before the client has authenticated
\* (NDM_DRT_FLAG_OK_NOT_AUTHORIZED)
Free == {"Open", "AuthAttr", "Auth", "Close", "Info"}

Requests == Free \cup {"Work"}

Message(type, name, seq, re, ver, error, arg) ==
    [type |-> type, name |-> name, seq |-> seq, re |-> re, ver |-> ver,
     error |-> error, arg |-> arg]

(***************************************************************************)
(* The client.  It encodes and decodes in the version it has agreed to, 0   *)
(* before that.                                                             *)
(***************************************************************************)

\* The client sends a request and waits (ndmconn_exchange_nmb)
Sends(name, arg, pc) ==
    /\ c2s' = Append(c2s, Message("request", name, client.seq, 0, client.ver, "none", arg))
    /\ client' = [client EXCEPT !.pc = pc, !.seq = @ + 1,
                                !.call = [name |-> name, seq |-> client.seq, result |-> "none"]]

\* Mutant: whatever comes next is taken for the answer
AnswersAnything(m) == m.type \in {"request", "reply"}

\* Which message ends the exchange
Answers(m) == m.type = "reply" /\ m.re = client.call.seq

\* ndmconn_connect_sockaddr_in closes the connection on any error
GivesUp == client' = [client EXCEPT !.pc = "closed"]

\* The client's highest version and the server's offer bound the version
Ceiling(offered) == IF offered < client.max THEN offered ELSE client.max

\* NOTIFY_CONNECTED has come: choose a version and send CONNECT_OPEN
Greeted ==
    /\ client.pc = "greeting"
    /\ s2c # <<>>
    /\ s2c' = Tail(s2c)
    /\ LET ceiling == Ceiling(Head(s2c).arg)
           want == IF client.want = 0 THEN ceiling ELSE client.want
       IN IF want > ceiling
          THEN GivesUp /\ UNCHANGED c2s
          ELSE /\ c2s' = Append(c2s, Message("request", "Open", client.seq, 0, 0, "none", want))
               /\ client' = [client EXCEPT !.pc = "opening", !.seq = @ + 1, !.want = want,
                              !.call = [name |-> "Open", seq |-> client.seq, result |-> "none"]]
    /\ UNCHANGED <<server, made>>

\* A client that does not send CONNECT_OPEN takes the version it was offered
Assumes ==
    /\ client.pc = "greeting"
    /\ s2c # <<>> /\ Head(s2c).arg <= client.max
    /\ client' = [client EXCEPT !.pc = "opened", !.ver = Head(s2c).arg]
    /\ s2c' = Tail(s2c)
    /\ UNCHANGED <<server, c2s, made>>

\* ndmconn_auth_agent: nothing to do for 'v', a challenge first for 'm'
Authenticates ==
    /\ client.pc = "opened"
    /\ UNCHANGED <<server, s2c, made>>
    /\ CASE client.auth = "void" -> client' = [client EXCEPT !.pc = "ready"] /\ UNCHANGED c2s
         [] client.auth = "md5" -> Sends("AuthAttr", "md5", "asking")
         [] OTHER -> Sends("Auth", client.auth, "proving")

ShowsDigest ==
    /\ client.pc = "asked"
    /\ Sends("Auth", "md5", "proving")
    /\ UNCHANGED <<server, s2c, made>>

\* A call of the CONTROL agent
Calls ==
    /\ client.pc = "ready"
    /\ made.calls < CallLimit
    /\ \E name \in Requests \ {"Open", "AuthAttr", "Auth"} : Sends(name, "none", "calling")
    /\ made' = [made EXCEPT !.calls = @ + 1]
    /\ UNCHANGED <<server, s2c>>

\* Mutant: the error of the reply is not looked at
ResultBlind(m) == IF m.type = "reply" THEN {"ok"} ELSE {}

\* The exchange has its reply, in time or too late
Result(m) ==
    IF m.error # "none" THEN {m.error}
    ELSE {"ok"} \cup ({"late"} \cap Faults)

\* Where the client goes with the result of what it asked for
Onward(result) ==
    IF client.pc = "calling" THEN "ready"
    ELSE IF result # "ok" THEN "closed"
    ELSE CASE client.pc = "opening" -> "opened"
           [] client.pc = "asking" -> "asked"
           [] client.pc = "proving" -> "ready"

Waiting == client.pc \in {"opening", "asking", "proving", "calling"}

\* The reply: the caller goes on with its result
TakesReply ==
    /\ Waiting
    /\ s2c # <<>> /\ Answers(Head(s2c))
    /\ \E result \in Result(Head(s2c)) :
         client' = [client EXCEPT
            !.pc = Onward(result),
            !.ver = IF client.pc = "opening" /\ result = "ok" THEN client.want ELSE @,
            !.call.result = result,
            !.garbled = @ \/ (Head(s2c).ver # client.ver /\ Head(s2c).name \notin Common)]
    /\ s2c' = Tail(s2c)
    /\ UNCHANGED <<server, c2s, made>>

\* Anything else meanwhile is unexpected: a notice is dispatched, and a reply
\* that is not ours dropped (ndma_dispatch_ctrl_unexpected)
TakesUnexpected ==
    /\ Waiting
    /\ s2c # <<>> /\ ~Answers(Head(s2c))
    /\ client' = [client EXCEPT
         !.garbled = @ \/ (Head(s2c).ver # client.ver /\ Head(s2c).name \notin Common)]
    /\ s2c' = Tail(s2c)
    /\ UNCHANGED <<server, c2s, made>>

\* A quantum between calls: what comes is dispatched as a request, whatever it is
TakesIdle ==
    /\ client.pc = "ready"
    /\ s2c # <<>>
    /\ client' = [client EXCEPT
         !.garbled = @ \/ Head(s2c).ver # client.ver \/ Head(s2c).type # "request"]
    /\ s2c' = Tail(s2c)
    /\ UNCHANGED <<server, c2s, made>>

\* The end of the connection: the call that waits for a reply is botched
SeesEnd ==
    /\ client.pc = "greeting" \/ Waiting
    /\ s2c = <<>> /\ ~server.up
    /\ client' = [client EXCEPT !.pc = "closed",
                    !.call.result = IF Waiting THEN "botch" ELSE @]
    /\ UNCHANGED <<server, c2s, s2c, made>>

(***************************************************************************)
(* The server                                                               *)
(***************************************************************************)

\* Mutant: the version that was agreed is not kept
OpenAsOffered(s, version) == IF version = 0 THEN s ELSE [s EXCEPT !.open = TRUE]

\* connect_open_common
OpenCommon(s, version) == [s EXCEPT !.open = TRUE, !.ver = version]

\* A message other than CONNECT_OPEN accepts the version that was offered
Implied(s, m) ==
    IF ~s.open /\ m.name # "Open" THEN OpenCommon(s, s.ver) ELSE s

Permitted(s, m) == s.authorized \/ m.name \in Free

\* ndmp_sxa_connect_open
Opens(s, version) ==
    IF s.open
    THEN [to |-> s, error |-> IF version # s.ver THEN "illegal" ELSE "none"]
    ELSE IF version \in Versions /\ version <= s.max
         THEN [to |-> OpenCommon(s, version), error |-> "none"]
         ELSE [to |-> s, error |-> "illegal"]

\* ndmp_sxa_connect_client_auth, for a client that knows the password or not
Proves(s, type) ==
    IF type = "none" THEN [to |-> s, error |-> "illegal"]
    ELSE IF (type = "md5" /\ ~s.challenge) \/ ~client.knows
         THEN [to |-> s, error |-> "denied"]
         ELSE [to |-> [s EXCEPT !.authorized = TRUE], error |-> "none"]

\* ndma_dispatch_request: the session after a request, and the error of its reply
Handled(s, m) ==
    LET t == Implied(s, m)
    IN CASE ~Permitted(t, m) -> [to |-> t, error |-> "refused"]
         [] m.name = "Open" -> Opens(t, m.arg)
         [] m.name = "AuthAttr" -> [to |-> [t EXCEPT !.challenge = TRUE], error |-> "none"]
         [] m.name = "Auth" -> Proves(t, m.arg)
         [] m.name = "Close" -> [to |-> [t EXCEPT !.up = FALSE], error |-> "none"]
         [] OTHER -> [to |-> t, error |-> "none"]

\* Mutant: the reply names its own sequence number
ReplyToOwn(m, error) ==
    Message("reply", m.name, server.seq, server.seq, server.ver, error, 0)

\* A reply goes out in the version the request was decoded in
ReplyTo(m, error) ==
    Message("reply", m.name, server.seq, m.seq, server.ver, error, 0)

Notice(seq) == Message("request", "Notice", seq, 0, server.ver, "none", 0)

\* ndma_dispatch_conn: one request, and its reply unless it has none.  Work may
\* change the state of an agent, whose notice then goes out before the reply.
Serves ==
    /\ server.up
    /\ c2s # <<>>
    /\ LET m == Head(c2s)
           done == Handled(server, m)
           did == [name |-> m.name, seq |-> m.seq,
                   result |-> IF done.error = "none" THEN "ok" ELSE done.error]
       IN \/ /\ m.name # "Close"
             /\ s2c' = Append(s2c, ReplyTo(m, done.error))
             /\ server' = [done.to EXCEPT !.seq = @ + 1, !.did = did,
                  !.garbled = @ \/ (m.ver # server.ver /\ m.name \notin Common)]
             /\ UNCHANGED made
          \/ /\ m.name = "Close"
             /\ server' = [done.to EXCEPT !.did = did]
             /\ UNCHANGED <<s2c, made>>
          \/ /\ m.name = "Work" /\ done.error = "none" /\ made.notices < NoticeLimit
             /\ s2c' = s2c \o <<Notice(server.seq),
                                [ReplyTo(m, "none") EXCEPT !.seq = @ + 1]>>
             /\ server' = [done.to EXCEPT !.seq = @ + 2, !.did = did,
                  !.garbled = @ \/ m.ver # server.ver]
             /\ made' = [made EXCEPT !.notices = @ + 1]
    /\ c2s' = Tail(c2s)
    /\ UNCHANGED client

\* An agent's state changes in a quantum: ndma_send_to_control
Notifies ==
    /\ server.up /\ server.authorized
    /\ made.notices < NoticeLimit
    /\ s2c' = Append(s2c, Notice(server.seq))
    /\ server' = [server EXCEPT !.seq = @ + 1]
    /\ made' = [made EXCEPT !.notices = @ + 1]
    /\ UNCHANGED <<client, c2s>>

\* The client has closed: ndma_server_session leaves its loop
ServerEnds ==
    /\ server.up
    /\ client.pc = "closed" /\ c2s = <<>>
    /\ server' = [server EXCEPT !.up = FALSE]
    /\ UNCHANGED <<client, c2s, s2c, made>>

\* The connection breaks or the server dies: a prefix of what is under way arrives
Breaks ==
    /\ "breaks" \in Faults
    /\ server.up
    /\ server' = [server EXCEPT !.up = FALSE]
    /\ \E n \in 0 .. Len(s2c) : s2c' = SubSeq(s2c, 1, n)
    /\ c2s' = <<>>
    /\ UNCHANGED <<client, made>>

\* The CONTROL agent is done
HangsUp ==
    /\ client.pc \in {"ready", "opened", "asked"}
    /\ client' = [client EXCEPT !.pc = "closed"]
    /\ UNCHANGED <<server, c2s, s2c, made>>

(***************************************************************************)
(* The connection has been accepted: ndmconn_accept has sent its greeting   *)
(***************************************************************************)
Init ==
    \E cmax, smax \in Versions, want \in Versions \cup {0}, auth \in AuthTypes, knows \in BOOLEAN :
        /\ client = [pc |-> "greeting", ver |-> 0, seq |-> 1, max |-> cmax, want |-> want,
                     auth |-> auth, knows |-> knows, call |-> NoMessage, garbled |-> FALSE]
        /\ server = [up |-> TRUE, open |-> FALSE, authorized |-> FALSE, challenge |-> FALSE,
                     ver |-> smax, max |-> smax, seq |-> 2, did |-> NoMessage, garbled |-> FALSE]
        /\ c2s = <<>>
        /\ s2c = <<Message("request", "Connected", 1, 0, 0, "none", smax)>>
        /\ made = [calls |-> 0, notices |-> 0]

Ended == client.pc = "closed" /\ ~server.up /\ UNCHANGED vars

Next ==
    \/ Greeted \/ Assumes \/ Authenticates \/ ShowsDigest \/ Calls
    \/ TakesReply \/ TakesUnexpected \/ TakesIdle \/ SeesEnd \/ HangsUp
    \/ Serves \/ Notifies \/ ServerEnds \/ Breaks
    \/ Ended

\* The ends run, and what is sent arrives or the connection ends
Fairness == WF_vars(TakesReply) /\ WF_vars(TakesUnexpected) /\ WF_vars(SeesEnd) /\ WF_vars(Serves)

Spec == Init /\ [][Next]_vars /\ Fairness

(***************************************************************************)
(* Properties                                                               *)
(***************************************************************************)

Phases == {"greeting", "opening", "opened", "asking", "asked", "proving",
           "ready", "calling", "closed"}

Outcomes == {"none", "ok", "late", "botch", "illegal", "denied", "refused"}

\* The variables keep their types
TypeOK ==
    /\ client.pc \in Phases /\ client.call.result \in Outcomes
    /\ client.seq \in Nat /\ server.seq \in Nat
    /\ client.ver \in Versions \cup {0} /\ server.ver \in Versions
    /\ \A i \in DOMAIN s2c : s2c[i].type \in {"request", "reply"}
    /\ \A i \in DOMAIN c2s : c2s[i].name \in Requests
    /\ made.calls \in 0 .. CallLimit /\ made.notices \in 0 .. NoticeLimit

\* A caller that was given an answer was given the server's answer to its own
\* request, whatever notices came before it: no reply is taken for another's, and
\* a call the server has not served does not end well (ndmconn_exchange_nmb)
ReplyIsOurs ==
    client.call.result \in Outcomes \ {"none", "botch"} =>
        server.did = [client.call EXCEPT !.result = IF @ = "late" THEN "ok" ELSE @]

\* Between calls there is nothing on the way but notices: a reply that came then
\* would be dispatched as a request (ndma_dispatch_conn does not look at the type)
NoReplyAstray ==
    ~Waiting /\ client.pc # "closed" =>
        \A i \in DOMAIN s2c : s2c[i].type = "request"

\* Once the handshake is over both ends use one version that both know, and no
\* body is ever decoded in another version than it was encoded in, notices that
\* were under way included (connect_open_common, ndmconn_connect_sockaddr_in)
VersionsAgree ==
    /\ client.pc \notin {"greeting", "opening", "closed"} =>
         /\ client.ver = server.ver
         /\ client.ver <= client.max /\ client.ver <= server.max
    /\ ~client.garbled /\ ~server.garbled

\* Every call ends, with a reply or with the connection: no request is left
\* unanswered by the dispatcher, and no notice takes the answer's place
CallsEnd == Waiting ~> ~Waiting
=============================================================================
