--------------------------- MODULE TranslationV2 ---------------------------
(***************************************************************************)
(* NDMP2 (ndmp2_translate.c, ndmp2_xmt.c): the tables of its enumerations    *)
(* and, for each message, what is converted and how.  A list of entries is  *)
(* converted entry by entry and stands here as one entry.                   *)
(***************************************************************************)
EXTENDS Translation

\* Mutant: what has no code is no error
ErrorTableHopeful == <<<<"NO_ERR", "NO_ERR">>>> \o
    Same(<<"NO_ERR", "NOT_SUPPORTED_ERR", "DEVICE_BUSY_ERR", "UNDEFINED_ERR">>)

ErrorTable == <<<<"UNDEFINED_ERR", "UNDEFINED_ERR">>>> \o
    Same(<<"NO_ERR", "NOT_SUPPORTED_ERR", "DEVICE_BUSY_ERR", "DEVICE_OPENED_ERR",
           "NOT_AUTHORIZED_ERR", "PERMISSION_ERR", "DEV_NOT_OPEN_ERR", "IO_ERR", "TIMEOUT_ERR",
           "ILLEGAL_ARGS_ERR", "NO_TAPE_LOADED_ERR", "WRITE_PROTECT_ERR", "EOF_ERR", "EOM_ERR",
           "FILE_NOT_FOUND_ERR", "BAD_FILE_ERR", "NO_DEVICE_ERR", "NO_BUS_ERR",
           "XDR_DECODE_ERR", "ILLEGAL_STATE_ERR", "UNDEFINED_ERR", "XDR_ENCODE_ERR",
           "NO_MEM_ERR">>)

\* The reply of most messages
ErrorReply == [error |-> Enum(ErrorTable)]

\* ndmp_pval lists, copied name by name and value by value
Environment == Copy

\* An address other than these two cannot be translated
Address == Strict(Table(Same(<<"LOCAL", "TCP">>)))
AddressType == Passing(Table(Same(<<"LOCAL", "TCP">>)))

\* The secrets go with their type; an unknown type is let through without any
AuthData == Passing(Table(Same(<<"NONE", "TEXT", "MD5">>)))
AuthAttr == Passing(Table(Same(<<"NONE", "TEXT", "MD5">>)))

ConnectMessages ==
       "CONNECT_OPEN" :> Halves(Both([protocol_version |-> Copy]), Both(ErrorReply))
    @@ "CONNECT_CLIENT_AUTH" :> Halves(Both([auth_data |-> AuthData]), Both(ErrorReply))
    @@ "CONNECT_CLOSE" :> Halves(Both(NoCodecs), Both(ErrorReply))

HostInfo ==
    "CONFIG_GET_HOST_INFO" :> Halves(Both(NoCodecs),
        Both(ErrorReply @@ [hostname |-> Copy, os_type |-> Copy, os_vers |-> Copy, hostid |-> Copy,
                            authtypes |-> ListOf(<<"NONE", "TEXT", "MD5">>)]))

\* CONFIG_GET_MOVER_TYPE of NDMP2
MoverTypes ==
    "CONFIG_GET_CONNECTION_TYPE" :> Halves(Both(NoCodecs),
        Both(ErrorReply @@ [conntypes |-> ListOf(<<"LOCAL", "TCP">>)]))

AuthAttrQuery ==
    "CONFIG_GET_AUTH_ATTR" :> Halves(
        Both([auth_type |-> Passing(Table(Same(<<"NONE", "TEXT", "MD5">>)))]),
        Both(ErrorReply @@ [server_attr |-> AuthAttr]))

ScsiMessages ==
       "SCSI_OPEN" :> Halves(Both([device |-> Copy]), Both(ErrorReply))
    @@ "SCSI_GET_STATE" :> Halves(Both(NoCodecs), Both(ErrorReply @@ [target |-> Copy]))
    @@ "SCSI_SET_TARGET" :> Halves(Both([device |-> Copy, target |-> Copy]), Both(ErrorReply))
    @@ [m \in {"SCSI_CLOSE", "SCSI_RESET_DEVICE", "SCSI_RESET_BUS"} |->
            Halves(Both(NoCodecs), Both(ErrorReply))]

\* The direction of a command: what goes out as OUT comes in as IN
CdbRequest ==
    LET rest == [timeout |-> Copy, datain_len |-> Copy, cdb |-> Copy, dataout |-> Copy]
        in == Table(<<<<"NONE", "NONE">>, <<"DATA_IN", "IN">>, <<"DATA_OUT", "IN">>>>)
        out == Table(<<<<"NONE", "NONE">>, <<"DATA_IN", "IN">>, <<"DATA_OUT", "OUT">>>>)
    IN  [out |-> [data_dir |-> Strict(out)] @@ rest, in |-> [data_dir |-> Strict(in)] @@ rest]

CdbReply == Both(ErrorReply @@ [status |-> Copy, dataout_len |-> Copy, datain |-> Copy,
                                ext_sense |-> Copy])

CdbMessages == [m \in {"SCSI_EXECUTE_CDB", "TAPE_EXECUTE_CDB"} |-> Halves(CdbRequest, CdbReply)]

\* NDMP2 has no raw mode
TapeOpen ==
       "TAPE_OPEN" :> Halves(
            Both([device |-> Copy, mode |-> Passing(Table(<<<<"READ", "READ">>, <<"WRITE", "RDWR">>>>))]),
            Both(ErrorReply))
    @@ "TAPE_CLOSE" :> Halves(Both(NoCodecs), Both(ErrorReply))

TapeState ==
    "TAPE_GET_STATE" :> Halves(Both(NoCodecs),
        Both(ErrorReply @@ [flags |-> Copy, file_num |-> ValidOrMax, soft_errors |-> ValidOrMax,
                            block_size |-> ValidOrMax, blockno |-> ValidOrMax,
                            total_space |-> ValidOrMax, space_remain |-> ValidOrMax]))

TapeMotion ==
    "TAPE_MTIO" :> Halves(
        Both([tape_op |-> Passing(Table(Same(<<"FSF", "BSF", "FSR", "BSR", "REW", "EOF", "OFF">>))),
              count |-> Copy]),
        Both(ErrorReply @@ [resid_count |-> Copy]))

TapeData ==
       "TAPE_WRITE" :> Halves(Both([data_out |-> Copy]), Both(ErrorReply @@ [count |-> Copy]))
    @@ "TAPE_READ" :> Halves(Both([count |-> Copy]), Both(ErrorReply @@ [data_in |-> Copy]))

ModeTable == Table(Same(<<"READ", "WRITE">>))
\* A mover that waits for a connection's data counts as active
StateTable == Table(Same(<<"IDLE", "LISTEN", "ACTIVE", "PAUSED", "HALTED">>)
                    \o <<<<"ACTIVE", "STANDBY">>>>)
PauseTable == Table(Same(<<"NA", "EOM", "EOF", "SEEK", "MEDIA_ERROR">>))
HaltTable == Table(Same(<<"NA", "CONNECT_CLOSED", "ABORTED", "INTERNAL_ERROR", "CONNECT_ERROR">>))

MoverStateReply ==
    "MOVER_GET_STATE" :> Halves(Both(NoCodecs),
        Both(ErrorReply @@
             [state |-> Enum(StateTable), pause_reason |-> Enum(PauseTable),
              halt_reason |-> Enum(HaltTable), record_size |-> Copy, record_num |-> Copy,
              bytes_moved |-> Copy, seek_position |-> Copy, bytes_left_to_read |-> Copy,
              window_offset |-> Copy, window_length |-> Copy]))

MoverListen ==
    "MOVER_LISTEN" :> Halves(
        Both([mode |-> Passing(ModeTable), addr_type |-> AddressType]),
        Both(ErrorReply @@ [data_connection_addr |-> Address]))

MoverMessages ==
       [m \in {"MOVER_CONTINUE", "MOVER_ABORT", "MOVER_STOP", "MOVER_CLOSE"} |->
            Halves(Both(NoCodecs), Both(ErrorReply))]
    @@ [m \in {"MOVER_SET_WINDOW", "MOVER_READ"} |->
            Halves(Both([offset |-> Copy, length |-> Copy]), Both(ErrorReply))]
    @@ "MOVER_SET_RECORD_SIZE" :> Halves(Both([record_size |-> Copy]), Both(ErrorReply))

\* Both paths of a name are copied
NameFields == [nlist |-> Copy, fh_info |-> ValidOrMax]

OperationTable == Table(<<<<"NOACTION", "NOACTION">>, <<"BACKUP", "BACKUP">>, <<"RESTORE", "RECOVER">>,
                          <<"RESTORE_FILEHIST", "RECOVER_FILEHIST">>>>)
\* A DATA agent that has its connection and not yet its operation counts as active
DataStateTable == Table(Same(<<"IDLE", "ACTIVE", "HALTED">>)
                        \o <<<<"ACTIVE", "CONNECTED">>, <<"ACTIVE", "LISTEN">>>>)
DataHaltTable == Table(Same(<<"NA", "SUCCESSFUL", "ABORTED", "INTERNAL_ERROR", "CONNECT_ERROR">>))

\* What the address has unknown is -1 here, and the failure passed over
DataStateReply ==
    "DATA_GET_STATE" :> Halves(Both(NoCodecs),
        Both(ErrorReply @@
             [operation |-> Enum(OperationTable), state |-> Enum(DataStateTable),
              halt_reason |-> Enum(DataHaltTable), bytes_processed |-> Copy,
              est_bytes_remain |-> ValidOrMax, est_time_remain |-> ValidOrMax,
              data_connection_addr |-> Enum(Table(Same(<<"LOCAL", "TCP">>))),
              read_offset |-> Copy, read_length |-> Copy]))

\* The address the DATA agent connects to goes with the start
StartMessages ==
       "DATA_START_BACKUP" :> Halves(
            Both([bu_type |-> Copy, env |-> Environment, addr |-> Address]), Both(ErrorReply))
    @@ [m \in {"DATA_START_RECOVER", "DATA_START_RECOVER_FILEHIST"} |-> Halves(
            Both([bu_type |-> Copy, env |-> Environment, addr |-> Address] @@ NameFields),
            Both(ErrorReply))]

DataMessages ==
       [m \in {"DATA_ABORT", "DATA_STOP"} |-> Halves(Both(NoCodecs), Both(ErrorReply))]
    @@ "DATA_GET_ENV" :> Halves(Both(NoCodecs), Both(ErrorReply @@ [env |-> Environment]))

Posted(codecs) == Halves(Both(codecs), Both(NoCodecs))

DataNotices ==
       "NOTIFY_DATA_HALTED" :> Posted([reason |-> Passing(DataHaltTable)])
    @@ "NOTIFY_CONNECTED" :> Posted(
            [reason |-> Passing(Table(Same(<<"CONNECTED", "SHUTDOWN", "REFUSED">>))),
             protocol_version |-> Copy, text_reason |-> Copy])

MoverNotices ==
       "NOTIFY_MOVER_HALTED" :> Posted([reason |-> Passing(HaltTable)])
    @@ "NOTIFY_MOVER_PAUSED" :> Posted([reason |-> Passing(PauseTable), seek_position |-> Copy])
    @@ "NOTIFY_DATA_READ" :> Posted([offset |-> Copy, length |-> Copy])

\* The status of a recovered file goes as an error code
RecoveryTable == <<<<"UNDEFINED_ERR", "UNDEFINED_ERROR">>, <<"NO_ERR", "SUCCESSFUL">>,
    <<"PERMISSION_ERR", "PERMISSION">>, <<"FILE_NOT_FOUND_ERR", "NOT_FOUND">>,
    <<"BAD_FILE_ERR", "NO_DIRECTORY">>, <<"NO_MEM_ERR", "OUT_OF_MEMORY">>,
    <<"IO_ERR", "IO_ERROR">>, <<"UNDEFINED_ERR", "UNDEFINED_ERROR">>>>

LogFile == "LOG_FILE" :> Posted([recovery_status |-> Enum(RecoveryTable), name |-> Copy])

\* Without links and node
StatFields ==
    [ftype |-> Enum(Table(Same(<<"DIR", "FIFO", "CSPEC", "BSPEC", "REG", "SLINK", "SOCK">>))),
     mtime |-> ValidOrMax, atime |-> ValidOrMax, ctime |-> ValidOrMax, uid |-> ValidOrMax,
     gid |-> ValidOrMax, mode |-> ValidOrMax, size |-> ValidOrMax, fh_info |-> ValidOrMax]

AddFile == "FH_ADD_FILE" :> Posted([unix_path |-> Copy] @@ StatFields)
AddDir == "FH_ADD_DIR" :> Posted([unix_name |-> Copy, node |-> Copy, parent |-> Copy])
\* The number of a node has a place of its own
AddNode == "FH_ADD_NODE" :> Posted([node |-> Bare] @@ StatFields)

(***************************************************************************)
(* The messages of NDMP2                                                    *)
(***************************************************************************)

\* The first half of ndmp2_reqrep_xlate_table
DeviceRows == ConnectMessages @@ HostInfo @@ MoverTypes @@ AuthAttrQuery @@ ScsiMessages
              @@ CdbMessages @@ TapeOpen @@ TapeState @@ TapeMotion @@ TapeData

\* The second half
AgentRows == DataStateReply @@ StartMessages @@ DataMessages @@ DataNotices @@ MoverNotices
             @@ LogFile @@ AddFile @@ AddDir @@ AddNode @@ MoverStateReply @@ MoverListen
             @@ MoverMessages

Messages == DeviceRows @@ AgentRows

\* ndmp2_xdr_message_table: those that have a reply ...
Called == {"CONNECT_OPEN", "CONNECT_CLIENT_AUTH", "CONNECT_CLOSE", "CONNECT_SERVER_AUTH",
    "CONFIG_GET_HOST_INFO", "CONFIG_GET_BUTYPE_ATTR", "CONFIG_GET_CONNECTION_TYPE",
    "CONFIG_GET_AUTH_ATTR", "SCSI_OPEN", "SCSI_CLOSE", "SCSI_GET_STATE", "SCSI_SET_TARGET",
    "SCSI_RESET_DEVICE", "SCSI_RESET_BUS", "SCSI_EXECUTE_CDB", "TAPE_OPEN", "TAPE_CLOSE",
    "TAPE_GET_STATE", "TAPE_MTIO", "TAPE_WRITE", "TAPE_READ", "TAPE_EXECUTE_CDB",
    "DATA_GET_STATE", "DATA_START_BACKUP", "DATA_START_RECOVER", "DATA_START_RECOVER_FILEHIST",
    "DATA_ABORT", "DATA_GET_ENV", "DATA_STOP", "MOVER_GET_STATE", "MOVER_LISTEN",
    "MOVER_CONTINUE", "MOVER_ABORT", "MOVER_STOP", "MOVER_SET_WINDOW", "MOVER_READ",
    "MOVER_CLOSE", "MOVER_SET_RECORD_SIZE"}

\* ... and those with a null reply
PostedOnly == {"NOTIFY_DATA_HALTED", "NOTIFY_CONNECTED", "NOTIFY_MOVER_HALTED",
    "NOTIFY_MOVER_PAUSED", "NOTIFY_DATA_READ", "LOG_LOG", "LOG_DEBUG", "LOG_FILE",
    "FH_ADD_FILE", "FH_ADD_DIR", "FH_ADD_NODE"}
=============================================================================
