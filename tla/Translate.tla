----------------------------- MODULE Translate -----------------------------
(***************************************************************************)
(* One message across a connection of an agreed version: the CONTROL        *)
(* agent's call (ndma_call_no_tattle(), ndmconn_call()) or an agent's       *)
(* notice, the dispatch at the other end (ndma_dispatch_request()), and the *)
(* reply.  At each end stands this program or another one that speaks the   *)
(* version and may send whatever the version has.                           *)
(***************************************************************************)
EXTENDS Translation

CONSTANT Versions       \* versions this program is built with

ASSUME VersionsAssumption == Versions \subseteq {2, 3, 4} /\ Versions # {}

V2 == INSTANCE TranslationV2
V3 == INSTANCE TranslationV3
V4 == INSTANCE TranslationV4

VARIABLES
    version,    \* of the connection
    stage,      \* of the call: "idle", "sent", "dispatched", "answered", "told", "stray", "stuck"
    call,       \* the message, who sends it, and the NDMP9 body that is sent, if it is ours
    wire,       \* what is under way: a body of the version, or an error in the header
    peer,       \* what the called agent was given, whether it did it, and its NDMP9 reply
    told        \* the status the caller is left with, and the NDMP9 reply

vars == <<version, stage, call, wire, peer, told>>

NoBody == [f \in {} |-> ""]
NoCall == [message |-> "none", ours |-> TRUE, body |-> NoBody]
NoPeer == [seen |-> NoBody, ours |-> TRUE, done |-> FALSE, reply |-> NoBody]
NotTold == [status |-> "none", reply |-> NoBody]

Body(wireBody) == [header |-> "NO_ERR", body |-> wireBody]
Header(error) == [header |-> error, body |-> NoBody]

(***************************************************************************)
(* The tables of the version                                                *)
(***************************************************************************)

\* reqrep_xlate_version_table
Translations == [v \in Versions |-> CASE v = 2 -> V2!Messages
                                      [] v = 3 -> V3!Messages
                                      [] v = 4 -> V4!Messages]

\* Mutant: one version expects an answer to a notice
WithReplyToPause ==
    [v \in Versions |-> {"NOTIFY_MOVER_PAUSED"} \cup
        CASE v = 2 -> V2!Called [] v = 3 -> V3!Called [] v = 4 -> V4!Called]
\* ndmp_xmt_lookup: the messages that have a reply, and those that have none
WithReply == [v \in Versions |-> CASE v = 2 -> V2!Called [] v = 3 -> V3!Called [] v = 4 -> V4!Called]

Encoded == [v \in Versions |-> WithReply[v] \cup CASE v = 2 -> V2!PostedOnly
                                                   [] v = 3 -> V3!PostedOnly
                                                   [] v = 4 -> V4!PostedOnly]

\* The NDMP9 dispatch table lacks one
Dispatched == DOMAIN Shapes \ {"DATA_LISTEN"}

\* Classes 0x500, 0x600 and 0x700, which are dispatched and not answered
NotAnswered == DOMAIN NoticeShapes

Translated(m) == m \in DOMAIN Translations[version]
Half(m, which) == Translations[version][m][which]

(***************************************************************************)
(* Bodies.  Of the many there are, those that differ from a zero-filled one *)
(* in at most one field.                                                    *)
(***************************************************************************)

Bodies(fields) ==
    {ZeroFilled(fields)} \cup
    UNION {{[ZeroFilled(fields) EXCEPT ![f] = x] : x \in Values(fields[f])} : f \in DOMAIN fields}

\* What a version can carry in a field: what ours sends, and of an enumeration a
\* value that nobody knows
Unheard == "unheard of"
OnTheWire(codec, domain) ==
    CASE codec.kind = "mapped" -> DOMAIN codec.in
      [] codec.kind = "always" -> Values(domain) \ {"unknown"}
      [] OTHER -> {FieldOut(codec, v) : v \in {x \in Values(domain) : ~Fails(codec, 2, x)}}
                  \cup (IF codec.kind \in {"enum", "passing", "strict"} THEN {Unheard} ELSE {})

WireBase(half, fields) == [f \in DOMAIN half.in \cap DOMAIN half.out |->
                              FieldOut(half.out[f], Zero(fields[f]))]
WireBodies(half, fields) ==
    LET base == WireBase(half, fields)
    IN  {base} \cup
        UNION {{[base EXCEPT ![f] = x] : x \in OnTheWire(half.out[f], fields[f])} : f \in DOMAIN base}

(***************************************************************************)
(* The caller                                                               *)
(***************************************************************************)

\* What this program sends in NDMP9: the CONTROL agent, and the agents' notices
Sent == {"CONFIG_GET_SCSI_INFO", "CONFIG_GET_TAPE_INFO", "DATA_ABORT", "DATA_CONNECT",
    "DATA_GET_ENV", "DATA_GET_STATE", "DATA_LISTEN", "DATA_START_BACKUP", "DATA_START_RECOVER",
    "DATA_START_RECOVER_FILEHIST", "DATA_STOP", "MOVER_ABORT", "MOVER_CLOSE", "MOVER_CONNECT",
    "MOVER_CONTINUE", "MOVER_GET_STATE", "MOVER_LISTEN", "MOVER_READ", "MOVER_SET_RECORD_SIZE",
    "MOVER_SET_WINDOW", "MOVER_STOP", "NOTIFY_DATA_HALTED", "NOTIFY_DATA_READ",
    "NOTIFY_MOVER_HALTED", "NOTIFY_MOVER_PAUSED", "SCSI_CLOSE", "SCSI_EXECUTE_CDB",
    "SCSI_GET_STATE", "SCSI_OPEN", "SCSI_SET_TARGET", "TAPE_CLOSE", "TAPE_GET_STATE",
    "TAPE_MTIO", "TAPE_OPEN", "TAPE_READ", "TAPE_WRITE", "FH_ADD_FILE", "FH_ADD_DIR",
    "FH_ADD_NODE"}

\* The caller finds out without anything sent
RefusedHere ==
    /\ stage' = "told"
    /\ told' = [status |-> "header", reply |-> NoBody]
    /\ UNCHANGED wire

\* ndma_call_no_tattle: to the version, and away with it
Ask(m, body) ==
    /\ stage = "idle"
    /\ call' = [message |-> m, ours |-> TRUE, body |-> body]
    /\ IF ~Translated(m) \/ OutFails(Half(m, "request"), body) \/ m \notin Encoded[version]
       THEN RefusedHere
       ELSE /\ stage' = "sent"
            /\ wire' = Body(Outwards(Half(m, "request"), body))
            /\ UNCHANGED told
    /\ UNCHANGED <<version, peer>>

\* Another program's call, or this one's in the version's own terms
AskNatively(m, wireBody) ==
    /\ stage = "idle" /\ Translated(m)
    /\ call' = [message |-> m, ours |-> FALSE, body |-> NoBody]
    /\ stage' = "sent"
    /\ wire' = Body(wireBody)
    /\ UNCHANGED <<version, peer, told>>

(***************************************************************************)
(* The agent that is called                                                 *)
(***************************************************************************)

\* The end of ndma_dispatch_request: a reply goes out, unless the class has none.
\* A caller that expects one waits for it; one that does not never reads it.
Replies(w) ==
    IF call.message \in NotAnswered
    THEN /\ stage' = IF call.message \in WithReply[version] THEN "stuck" ELSE "told"
         /\ told' = [status |-> "ok", reply |-> NoBody]
         /\ UNCHANGED wire
    ELSE /\ stage' = IF call.message \in WithReply[version] THEN "answered" ELSE "stray"
         /\ wire' = w
         /\ UNCHANGED told

\* The request is translated, or that fails and the agent never sees it
Arrive ==
    LET half == Half(call.message, "request")
    IN  /\ stage = "sent"
        /\ \/ call.message \notin Dispatched
              /\ Replies(Header("NOT_SUPPORTED_ERR"))
              /\ UNCHANGED peer
           \/ /\ call.message \in Dispatched /\ InFails(half, wire.body)
              /\ Replies(Header("UNDEFINED_ERR"))
              /\ UNCHANGED peer
           \/ /\ call.message \in Dispatched /\ ~InFails(half, wire.body)
              /\ stage' = "dispatched"
              /\ peer' = [peer EXCEPT !.seen =
                             Inwards(half, Shapes[call.message].request, wire.body)]
              /\ UNCHANGED <<wire, told>>
        /\ UNCHANGED <<version, call>>

\* What a dispatch function replies with: an error it raises, or all it was asked
\* for.  The address of a listener is of the type that was asked for.
HandlerReplies(m) ==
    LET fields == Shapes[m].reply
    IN  {[ZeroFilled(fields) EXCEPT !.error = e] : e \in Values(Error)}
        \cup {b \in Bodies(fields) :
                  b.error = "NO_ERR" /\ (m = "MOVER_LISTEN" => b.data_connection_addr # "AS_CONNECTED")}

\* The dispatch function has replied: with no error if it did what it was asked.
\* Only then can the translation of the reply fail.
Handle ==
    /\ stage = "dispatched" /\ call.message \notin NotAnswered
    /\ \E reply \in HandlerReplies(call.message) :
          /\ peer' = [peer EXCEPT !.done = (reply.error = "NO_ERR"), !.reply = reply]
          /\ Replies(IF OutFails(Half(call.message, "reply"), reply)
                     THEN Header("UNDEFINED_ERR")
                     ELSE Body(Outwards(Half(call.message, "reply"), reply)))
    /\ UNCHANGED <<version, call>>

\* A notice has no error to reply with
HandleNotice ==
    /\ stage = "dispatched" /\ call.message \in NotAnswered
    /\ peer' = [peer EXCEPT !.done = TRUE]
    /\ Replies(Body(NoBody))
    /\ UNCHANGED <<version, call>>

\* The dispatch function gives up: not implemented, or not for this version
Decline ==
    /\ stage = "dispatched" /\ call.message \notin NotAnswered
    /\ Replies(Header("NOT_SUPPORTED_ERR"))
    /\ UNCHANGED <<version, call, peer>>

\* The agent is another program: it replies whatever it likes
Foreign ==
    /\ stage = "sent" /\ call.ours /\ call.message \notin NotAnswered
    /\ \E w \in {Header("NOT_SUPPORTED_ERR")} \cup
               {Body(b) : b \in WireBodies(Half(call.message, "reply"), Shapes[call.message].reply)} :
          /\ peer' = [peer EXCEPT !.ours = FALSE,
                                  !.done = (w.header = "NO_ERR" /\ w.body.error = "NO_ERR")]
          /\ Replies(w)
    /\ UNCHANGED <<version, call>>

(***************************************************************************)
(* The caller again                                                         *)
(***************************************************************************)

\* ndmconn_call: the error of the header, then that of the reply.  The
\* translation of the reply comes after, and may overrule them.  With an error in
\* the header there is no body to read.
Return ==
    LET half == Half(call.message, "reply")
        error == FieldIn(half.in["error"], wire.body.error)
        read == IF error = "NO_ERR" THEN "ok" ELSE "error"
    IN  /\ stage = "answered"
        /\ stage' = "told"
        /\ told' = IF wire.header # "NO_ERR" \/ (call.ours /\ InFails(half, wire.body))
                   THEN [status |-> "header", reply |-> NoBody]
                   ELSE [status |-> read,
                         reply |-> IF call.ours
                                   THEN Inwards(half, Shapes[call.message].reply, wire.body)
                                   ELSE NoBody]
        /\ UNCHANGED <<version, call, wire, peer>>

\* The caller goes on
GoesOn ==
    /\ stage = "told"
    /\ stage' = "idle"
    /\ call' = NoCall /\ wire' = Body(NoBody) /\ peer' = NoPeer /\ told' = NotTold
    /\ UNCHANGED version

Init ==
    /\ version \in Versions
    /\ stage = "idle"
    /\ call = NoCall /\ wire = Body(NoBody) /\ peer = NoPeer /\ told = NotTold

Asks == \E m \in Sent : \E body \in Bodies(Shapes[m].request) : Ask(m, body)

AsksNatively ==
    \E m \in DOMAIN Translations[version] :
        \E w \in WireBodies(Half(m, "request"), Shapes[m].request) : AskNatively(m, w)

Next ==
    \/ Asks \/ AsksNatively
    \/ Arrive \/ Handle \/ HandleNotice \/ Decline \/ Foreign
    \/ Return \/ GoesOn

Spec == Init /\ [][Next]_vars

(***************************************************************************)
(* Properties                                                               *)
(***************************************************************************)

\* The largest number means "not known" in the older dialects
Largest(sent, got) == sent = "max" /\ got = "unknown"

\* What a version has no word for, and what it says instead
Instead(f, sent) ==
    CASE f = "state" /\ sent = "STANDBY" -> "ACTIVE"
      [] version = 2 /\ call.message = "DATA_GET_STATE" /\ f = "state"
            /\ sent \in {"CONNECTED", "LISTEN"} -> "ACTIVE"
      [] version = 4 /\ f \in {"reason", "pause_reason"} /\ sent = "MEDIA_ERROR" 
            /\ call.message # "NOTIFY_MOVER_HALTED" -> "EOF"
      [] version = 2 /\ f = "pause_reason" /\ sent = "EOW" -> Invalid
      [] version < 4 /\ f = "halt_reason" /\ sent = "MEDIA_ERROR" -> Invalid
      [] version = 2 /\ f = "ftype" /\ sent \in {"REGISTRY", "OTHER"} -> Invalid
      [] f = "data_connection_addr" /\ sent = "AS_CONNECTED" -> Invalid
      [] call.message \in {"FH_ADD_FILE", "FH_ADD_NODE"} /\ sent = "unknown"
            /\ (f = "node" \/ (f = "fh_info" /\ version # 2)) -> "0"
      [] f = "data_dir" /\ sent = "OUT" -> "IN"
      [] OTHER -> sent

\* What this program's caller asks of this program's agent is what the agent is
\* given, and what an agent notifies is what the CONTROL agent is told: every
\* field the version carries arrives as it was, the largest number apart and
\* what Instead names.  Two of those are not for want of a word: the direction of
\* a command that sends data, and the node of a file's history, in NDMP3 and NDMP4
\* its fh_info too.  They are sent as bare numbers, without the flag that says
\* whether the number is known, so that an unknown one arrives as a known 0
\* (ndmp3_translate.c:3258-3259, 3489-3490, ndmp2_translate.c:2627-2628, 2669).
\* The names of a recovery by NDMP3 are NamesArrive's.
RequestArrives ==
    stage = "dispatched" /\ call.ours =>
        LET half == Half(call.message, "request")
            elsewhere == IF version = 3 THEN {"nlist"} ELSE {}
        IN  \A f \in (DOMAIN half.in \cap DOMAIN half.out) \ elsewhere :
                \/ peer.seen[f] = Instead(f, call.body[f])
                \/ Largest(call.body[f], peer.seen[f])

\* A recovery by NDMP3 asks for the file by the path it was asked for by: the
\* comment of ndmp_3to9_name() says that a new name changes where it goes
NamesArrive ==
    stage = "dispatched" /\ call.ours /\ call.message = "DATA_START_RECOVER" =>
        peer.seen.nlist.original = call.body.nlist.original

\* A state that comes back is the agent's: no value turns into another, a number
\* that is not known is not taken for one, and the value nobody knows is read
\* as such.  The attributes of a device are the exception, which no agent of
\* this program has.
ReplyArrives ==
    stage = "told" /\ call.ours /\ peer.ours /\ told.status = "ok"
        /\ call.message \notin NotAnswered =>
        LET half == Half(call.message, "reply")
        IN  \A f \in (DOMAIN half.in \cap DOMAIN half.out) \ {"v3attr", "v4attr"} :
                \/ told.reply[f] = Instead(f, peer.reply[f])
                \/ Largest(peer.reply[f], told.reply[f])

\* The caller is told of success only when the called agent has done what it was
\* asked, whatever error code a foreign agent uses; and if this program's agent
\* has done it, its caller is told so: no translation that fails on the way
\* back turns what was done into a failure.
TruthfulOutcome ==
    stage = "told" /\ call.message \notin NotAnswered =>
        /\ told.status = "ok" => peer.done
        /\ peer.ours /\ peer.done => told.status = "ok"

\* Whoever waits for a reply gets one, and no reply comes to a caller that does
\* not wait: the tables that say which messages have a reply, in three versions,
\* agree with the classes that dispatch never answers.
NobodyWaitsInVain == stage \notin {"stuck", "stray"}
=============================================================================
