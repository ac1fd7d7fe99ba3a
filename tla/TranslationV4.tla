--------------------------- MODULE TranslationV4 ---------------------------
(***************************************************************************)
(* NDMP4 (ndmp4_translate.c, ndmp4_xmt.c), in the manner of TranslationV3.   *)
(* Every error and every reason to halt has a name here, an address is a    *)
(* list, a path that is recovered is given as it is, and what an agent      *)
(* sends of its own is a post: nobody acknowledges it.                      *)
(***************************************************************************)
EXTENDS Translation

ErrorTable == <<<<"UNDEFINED_ERR", "UNDEFINED_ERR">>>> \o
    Same(<<"NO_ERR", "NOT_SUPPORTED_ERR", "DEVICE_BUSY_ERR", "DEVICE_OPENED_ERR",
           "NOT_AUTHORIZED_ERR", "PERMISSION_ERR", "DEV_NOT_OPEN_ERR", "IO_ERR", "TIMEOUT_ERR",
           "ILLEGAL_ARGS_ERR", "NO_TAPE_LOADED_ERR", "WRITE_PROTECT_ERR", "EOF_ERR", "EOM_ERR",
           "FILE_NOT_FOUND_ERR", "BAD_FILE_ERR", "NO_DEVICE_ERR", "NO_BUS_ERR",
           "XDR_DECODE_ERR", "ILLEGAL_STATE_ERR", "UNDEFINED_ERR", "XDR_ENCODE_ERR",
           "NO_MEM_ERR", "CONNECT_ERR", "SEQUENCE_NUM_ERR", "READ_IN_PROGRESS_ERR",
           "PRECONDITION_ERR", "CLASS_NOT_SUPPORTED", "VERSION_NOT_SUPPORTED",
           "EXT_DUPL_CLASSES", "EXT_DN_ILLEGAL">>)

ErrorReply == [error |-> Enum(ErrorTable)]

Environment == Copy

AddressTable == Table(Same(<<"LOCAL", "TCP">>))
\* The first address of a list; the list is empty in a peer's message only
Address == Strict(AddressTable)
AddressInState == Enum(AddressTable \o <<<<"TCP, none", "TCP">>>>)

AuthTable == Table(Same(<<"NONE", "TEXT", "MD5">>))
AuthData == Passing(AuthTable)
AuthAttr == Passing(AuthTable)

ConnectMessages ==
       "CONNECT_OPEN" :> Halves(Both([protocol_version |-> Copy]), Both(ErrorReply))
    @@ "CONNECT_CLIENT_AUTH" :> Halves(Both([auth_data |-> AuthData]), Both(ErrorReply))
    @@ "CONNECT_CLOSE" :> Halves(Both(NoCodecs), Both(ErrorReply))

HostInfo ==
       "CONFIG_GET_HOST_INFO" :> Halves(Both(NoCodecs),
            Both(ErrorReply @@ [hostname |-> Copy, os_type |-> Copy, os_vers |-> Copy, hostid |-> Copy]))
    @@ "CONFIG_GET_CONNECTION_TYPE" :> Halves(Both(NoCodecs),
            Both(ErrorReply @@ [conntypes |-> ListOf(<<"LOCAL", "TCP">>)]))

AuthAttrQuery ==
    "CONFIG_GET_AUTH_ATTR" :> Halves(Both([auth_type |-> Passing(AuthTable)]),
                                     Both(ErrorReply @@ [server_attr |-> AuthAttr]))

ServerInfo ==
    "CONFIG_GET_SERVER_INFO" :> Halves(Both(NoCodecs),
        Both(ErrorReply @@ [vendor_name |-> Copy, product_name |-> Copy, revision_number |-> Copy,
                            authtypes |-> ListOf(<<"NONE", "TEXT", "MD5">>)]))

BackupTypes ==
    "CONFIG_GET_BUTYPE_INFO" :> Halves(Both(NoCodecs),
        Both(ErrorReply @@ [butype_name |-> Copy, default_env |-> Environment, v4attr |-> Bare]))

\* Without the sizes
FileSystems ==
    "CONFIG_GET_FS_INFO" :> Halves(Both(NoCodecs),
        Both(ErrorReply @@ [fs_type |-> Copy, fs_logical_device |-> Copy,
                            fs_physical_device |-> Copy, fs_status |-> Copy,
                            fs_env |-> Environment]))

\* The attributes of a device are never sent, and come back as valid
DeviceInfo ==
    LET text == ErrorReply @@ [model |-> Copy, device |-> Copy, capability |-> Copy]
    IN  [out |-> text @@ [v4attr |-> Always("0")], in |-> text @@ [v4attr |-> Bare]]

Devices == [m \in {"CONFIG_GET_TAPE_INFO", "CONFIG_GET_SCSI_INFO"} |->
                Halves(Both(NoCodecs), DeviceInfo)]

ScsiMessages ==
       "SCSI_OPEN" :> Halves(Both([device |-> Copy]), Both(ErrorReply))
    @@ "SCSI_GET_STATE" :> Halves(Both(NoCodecs), Both(ErrorReply @@ [target |-> Copy]))
    @@ [m \in {"SCSI_CLOSE", "SCSI_RESET_DEVICE"} |-> Halves(Both(NoCodecs), Both(ErrorReply))]

CdbRequest ==
    LET rest == [timeout |-> Copy, datain_len |-> Copy, cdb |-> Copy, dataout |-> Copy]
        in == Table(<<<<"NONE", "NONE">>, <<"DATA_IN", "IN">>, <<"DATA_OUT", "IN">>>>)
        out == Table(<<<<"NONE", "NONE">>, <<"DATA_IN", "IN">>, <<"DATA_OUT", "OUT">>>>)
    IN  [out |-> [data_dir |-> Strict(out)] @@ rest, in |-> [data_dir |-> Strict(in)] @@ rest]

CdbReply == Both(ErrorReply @@ [status |-> Copy, dataout_len |-> Copy, datain |-> Copy,
                                ext_sense |-> Copy])

CdbMessages == [m \in {"SCSI_EXECUTE_CDB", "TAPE_EXECUTE_CDB"} |-> Halves(CdbRequest, CdbReply)]

TapeOpen ==
       "TAPE_OPEN" :> Halves(
            Both([device |-> Copy, mode |-> Passing(Table(Same(<<"READ", "RDWR">>)))]),
            Both(ErrorReply))
    @@ "TAPE_CLOSE" :> Halves(Both(NoCodecs), Both(ErrorReply))

\* The numbers of the state have a mask of their own; the partition is never sent
TapeState ==
    "TAPE_GET_STATE" :> Halves(Both(NoCodecs),
        Both(ErrorReply @@ [flags |-> Copy, file_num |-> Flagged, soft_errors |-> Flagged,
                            block_size |-> Flagged, blockno |-> Flagged,
                            total_space |-> Flagged, space_remain |-> Flagged]))

TapeMotion ==
    "TAPE_MTIO" :> Halves(
        Both([tape_op |-> Passing(Table(Same(<<"FSF", "BSF", "FSR", "BSR", "REW", "EOF", "OFF">>))),
              count |-> Copy]),
        Both(ErrorReply @@ [resid_count |-> Copy]))

TapeData ==
       "TAPE_WRITE" :> Halves(Both([data_out |-> Copy]), Both(ErrorReply @@ [count |-> Copy]))
    @@ "TAPE_READ" :> Halves(Both([count |-> Copy]), Both(ErrorReply @@ [data_in |-> Copy]))

ModeTable == Table(Same(<<"READ", "WRITE">>))
StateTable == Table(Same(<<"IDLE", "LISTEN", "ACTIVE", "PAUSED", "HALTED">>)
                    \o <<<<"ACTIVE", "STANDBY">>>>)
\* Mutant: the alias before the reason it stands for
PauseTableAliasFirst == Table(<<<<"EOF", "MEDIA_ERROR">>>> \o Same(<<"NA", "EOM", "EOF", "SEEK", "EOW">>))
\* No MEDIA_ERROR, so EOF
PauseTable == Table(Same(<<"NA", "EOM", "EOF", "SEEK">>)
                    \o <<<<"EOF", "MEDIA_ERROR">>, <<"EOW", "EOW">>>>)

HaltTable == Table(Same(<<"NA", "CONNECT_CLOSED", "ABORTED", "INTERNAL_ERROR", "CONNECT_ERROR",
                          "MEDIA_ERROR">>))

MoverStateReply ==
    "MOVER_GET_STATE" :> Halves(Both(NoCodecs),
        Both(ErrorReply @@
             [state |-> Enum(StateTable), pause_reason |-> Enum(PauseTable),
              halt_reason |-> Enum(HaltTable), record_size |-> Copy, record_num |-> Copy,
              bytes_moved |-> Copy, seek_position |-> Copy, bytes_left_to_read |-> Copy,
              window_offset |-> Copy, window_length |-> Copy,
              data_connection_addr |-> AddressInState]))

MoverOpens ==
       "MOVER_LISTEN" :> Halves(
            Both([mode |-> Passing(ModeTable), addr_type |-> Passing(AddressTable)]),
            Both(ErrorReply @@ [data_connection_addr |-> Address]))
    @@ "MOVER_CONNECT" :> Halves(Both([mode |-> Passing(ModeTable), addr |-> Address]),
                                 Both(ErrorReply))

MoverMessages ==
       [m \in {"MOVER_CONTINUE", "MOVER_ABORT", "MOVER_STOP", "MOVER_CLOSE"} |->
            Halves(Both(NoCodecs), Both(ErrorReply))]
    @@ [m \in {"MOVER_SET_WINDOW", "MOVER_READ"} |->
            Halves(Both([offset |-> Copy, length |-> Copy]), Both(ErrorReply))]
    @@ "MOVER_SET_RECORD_SIZE" :> Halves(Both([record_size |-> Copy]), Both(ErrorReply))

(***************************************************************************)
(* A name in NDMP4: both paths, and a name to append to the second, which   *)
(* this program leaves empty                                                *)
(***************************************************************************)

Name4(original, destination, name) ==
    [original |-> original, destination |-> destination, name |-> name]

NameOut(n) == Name4(n.original, n.destination, <<>>)
NameIn(w) ==
    Name(w.original, w.destination \o (IF w.name = <<>> THEN <<>> ELSE <<"/">> \o w.name))

\* Another program's, with a name to append
Foreign4 == Name4(<<"d", "/", "f">>, <<"r">>, <<"f">>)

NamePair == Mapped([n \in Values(Names) |-> NameOut(n)],
                   [w \in {NameOut(n) : n \in Values(Names)} \cup {Foreign4} |-> NameIn(w)])

NameFields == [nlist |-> NamePair, fh_info |-> ValidOrMax]

OperationTable == Table(Same(<<"NOACTION", "BACKUP", "RECOVER", "RECOVER_FILEHIST">>))
DataStateTable == Table(Same(<<"IDLE", "ACTIVE", "HALTED", "CONNECTED", "LISTEN">>))
DataHaltTable == Table(Same(<<"NA", "SUCCESSFUL", "ABORTED", "INTERNAL_ERROR", "CONNECT_ERROR">>))

DataStateReply ==
    "DATA_GET_STATE" :> Halves(Both(NoCodecs),
        Both(ErrorReply @@
             [operation |-> Enum(OperationTable), state |-> Enum(DataStateTable),
              halt_reason |-> Enum(DataHaltTable), bytes_processed |-> Copy,
              est_bytes_remain |-> ValidOrMax, est_time_remain |-> ValidOrMax,
              data_connection_addr |-> AddressInState, read_offset |-> Copy,
              read_length |-> Copy]))

\* The start of an operation has no address: the DATA agent is connected by then
Started(codecs) ==
    Halves([out |-> codecs, in |-> codecs @@ [addr |-> Always("AS_CONNECTED")]], Both(ErrorReply))

StartMessages ==
       "DATA_START_BACKUP" :> Started([bu_type |-> Copy, env |-> Environment])
    @@ [m \in {"DATA_START_RECOVER", "DATA_START_RECOVER_FILEHIST"} |->
            Started([bu_type |-> Copy, env |-> Environment] @@ NameFields)]

DataMessages ==
       [m \in {"DATA_ABORT", "DATA_STOP"} |-> Halves(Both(NoCodecs), Both(ErrorReply))]
    @@ "DATA_GET_ENV" :> Halves(Both(NoCodecs), Both(ErrorReply @@ [env |-> Environment]))
    @@ "DATA_LISTEN" :> Halves(Both([addr_type |-> Passing(AddressTable)]),
                               Both(ErrorReply @@ [data_connection_addr |-> Address]))
    @@ "DATA_CONNECT" :> Halves(Both([addr |-> Address]), Both(ErrorReply))

Posted(out, in) == Halves([out |-> out, in |-> in], Both(NoCodecs))

DataNotices ==
    LET halted == [reason |-> Passing(DataHaltTable)]
        connected == [reason |-> Passing(Table(Same(<<"CONNECTED", "SHUTDOWN", "REFUSED">>))),
                      protocol_version |-> Copy, text_reason |-> Copy]
    IN  "NOTIFY_DATA_HALTED" :> Posted(halted, halted)
        @@ "NOTIFY_CONNECTED" :> Posted(connected, connected)

MoverNotices ==
    LET halted == [reason |-> Passing(HaltTable)]
        paused == [reason |-> Passing(PauseTable), seek_position |-> Copy]
        read == [offset |-> Copy, length |-> Copy]
    IN  "NOTIFY_MOVER_HALTED" :> Posted(halted, halted)
        @@ "NOTIFY_MOVER_PAUSED" :> Posted(paused, paused)
        @@ "NOTIFY_DATA_READ" :> Posted(read, read)

RecoveryTable == <<<<"UNDEFINED_ERROR", "UNDEFINED_ERROR">>>> \o
    Same(<<"SUCCESSFUL", "PERMISSION", "NOT_FOUND", "NO_DIRECTORY", "OUT_OF_MEMORY", "IO_ERROR",
           "UNDEFINED_ERROR">>)

\* The text of a log message is copied the wrong way: none goes out
LogMessages ==
    LET file == [recovery_status |-> Enum(RecoveryTable), name |-> Copy]
        message == [log_type |-> Enum(<<<<"NORMAL", Invalid>>>>
                                        \o Same(<<"NORMAL", "DEBUG", "ERROR", "WARNING">>)),
                    message_id |-> Copy, associated_message_sequence |-> Copy]
    IN  "LOG_FILE" :> Posted(file, file)
        @@ "LOG_MESSAGE" :> Posted(message @@ [entry |-> Always("")], message @@ [entry |-> Copy])

\* The mask has flags for three of the numbers only; node and fh_info are sent
\* beside it, whether they are valid or not
StatFields ==
    [ftype |-> Enum(<<<<"OTHER", Invalid>>>>
                    \o Same(<<"DIR", "FIFO", "CSPEC", "BSPEC", "REG", "SLINK", "SOCK", "REGISTRY",
                              "OTHER">>)),
     mtime |-> ValidOrMax, atime |-> Flagged, ctime |-> Flagged, uid |-> ValidOrMax,
     gid |-> Flagged, mode |-> ValidOrMax, size |-> ValidOrMax, links |-> ValidOrMax]
StatOut == StatFields @@ [node |-> Bare, fh_info |-> Bare]
StatIn == StatFields @@ [node |-> ValidOrMax, fh_info |-> ValidOrMax]

\* The first name for a UNIX file system is taken
UnixName == Copy

AddFile == "FH_ADD_FILE" :> Posted([unix_path |-> UnixName] @@ StatOut, [unix_path |-> UnixName] @@ StatIn)
AddDir == LET dir == [unix_name |-> UnixName, node |-> Copy, parent |-> Copy]
          IN  "FH_ADD_DIR" :> Posted(dir, dir)
AddNode == "FH_ADD_NODE" :> Posted(StatOut, StatIn)

(***************************************************************************)
(* The messages of NDMP4                                                    *)
(***************************************************************************)

\* The parts of ndmp4_reqrep_xlate_table
ConfigRows == ConnectMessages @@ HostInfo @@ AuthAttrQuery @@ ServerInfo @@ BackupTypes
              @@ FileSystems @@ Devices @@ ScsiMessages
DeviceRows == CdbMessages @@ TapeOpen @@ TapeState @@ TapeMotion @@ TapeData @@ DataStateReply
              @@ StartMessages @@ DataMessages
AgentRows == DataNotices @@ MoverNotices @@ LogMessages @@ AddFile @@ AddDir @@ AddNode
             @@ MoverStateReply @@ MoverOpens @@ MoverMessages

Messages == ConfigRows @@ DeviceRows @@ AgentRows

\* ndmp4_xdr_message_table: those that have a reply ...
Called == {"CONNECT_OPEN", "CONNECT_CLIENT_AUTH", "CONNECT_CLOSE", "CONNECT_SERVER_AUTH",
    "CONFIG_GET_HOST_INFO", "CONFIG_GET_CONNECTION_TYPE", "CONFIG_GET_AUTH_ATTR",
    "CONFIG_GET_BUTYPE_INFO", "CONFIG_GET_FS_INFO", "CONFIG_GET_TAPE_INFO",
    "CONFIG_GET_SCSI_INFO", "CONFIG_GET_SERVER_INFO", "SCSI_OPEN", "SCSI_CLOSE",
    "SCSI_GET_STATE", "SCSI_RESET_DEVICE", "SCSI_EXECUTE_CDB", "TAPE_OPEN", "TAPE_CLOSE",
    "TAPE_GET_STATE", "TAPE_MTIO", "TAPE_WRITE", "TAPE_READ", "TAPE_EXECUTE_CDB",
    "DATA_GET_STATE", "DATA_START_BACKUP", "DATA_START_RECOVER",
    "DATA_START_RECOVER_FILEHIST", "DATA_ABORT", "DATA_GET_ENV", "DATA_STOP", "DATA_LISTEN",
    "DATA_CONNECT", "MOVER_GET_STATE", "MOVER_LISTEN", "MOVER_CONTINUE", "MOVER_ABORT",
    "MOVER_STOP", "MOVER_SET_WINDOW", "MOVER_READ", "MOVER_CLOSE", "MOVER_SET_RECORD_SIZE",
    "MOVER_CONNECT"}

\* ... and those with a null reply
PostedOnly == {"NOTIFY_DATA_HALTED", "NOTIFY_CONNECTED", "NOTIFY_MOVER_HALTED",
    "NOTIFY_MOVER_PAUSED", "NOTIFY_DATA_READ", "LOG_FILE", "LOG_MESSAGE", "FH_ADD_FILE",
    "FH_ADD_DIR", "FH_ADD_NODE"}
=============================================================================
