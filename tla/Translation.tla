---------------------------- MODULE Translation ----------------------------
(***************************************************************************)
(* The agents of ndmjob all speak one internal dialect, NDMP9, and every     *)
(* message that crosses a connection is translated from it to the dialect   *)
(* of the agreed protocol version and back (ndmp_translate.[ch] and the      *)
(* tables of ndmp[234]_translate.c).  This module has what the three         *)
(* translations share: the bodies of NDMP9, the conversions of one field,   *)
(* and the translation of a body field by field.                            *)
(*                                                                          *)
(* A body is a function from fields to values.  A field's values are        *)
(* listed with the one of a zero-filled body first.  Of a number only two    *)
(* values matter besides zero: an ordinary one, and the largest, which the   *)
(* older dialects use for "not known".                                      *)
(***************************************************************************)
EXTENDS Naturals, Sequences, FiniteSets, TLC

Values(domain) == {domain[i] : i \in 1..Len(domain)}
Zero(domain) == domain[1]

(***************************************************************************)
(* The fields of NDMP9                                                      *)
(***************************************************************************)

Number == <<"0", "n", "max">>

\* ndmp9_valid_u_long and ndmp9_valid_u_quad: a number, or none
ValidNumber == <<"unknown", "0", "n", "max">>

Text == <<"", "text">>
Bytes == <<"no bytes", "bytes">>

Error == <<"NO_ERR", "NOT_SUPPORTED_ERR", "DEVICE_BUSY_ERR", "DEVICE_OPENED_ERR",
    "NOT_AUTHORIZED_ERR", "PERMISSION_ERR", "DEV_NOT_OPEN_ERR", "IO_ERR", "TIMEOUT_ERR",
    "ILLEGAL_ARGS_ERR", "NO_TAPE_LOADED_ERR", "WRITE_PROTECT_ERR", "EOF_ERR", "EOM_ERR",
    "FILE_NOT_FOUND_ERR", "BAD_FILE_ERR", "NO_DEVICE_ERR", "NO_BUS_ERR", "XDR_DECODE_ERR",
    "ILLEGAL_STATE_ERR", "UNDEFINED_ERR", "XDR_ENCODE_ERR", "NO_MEM_ERR", "CONNECT_ERR",
    "SEQUENCE_NUM_ERR", "READ_IN_PROGRESS_ERR", "PRECONDITION_ERR", "CLASS_NOT_SUPPORTED",
    "VERSION_NOT_SUPPORTED", "EXT_DUPL_CLASSES", "EXT_DN_ILLEGAL">>

AuthType == <<"NONE", "TEXT", "MD5">>
AddrType == <<"LOCAL", "TCP", "AS_CONNECTED">>

MoverMode == <<"READ", "WRITE">>
MoverState == <<"IDLE", "LISTEN", "ACTIVE", "PAUSED", "HALTED", "STANDBY">>
PauseReason == <<"NA", "EOM", "EOF", "SEEK", "MEDIA_ERROR", "EOW">>
MoverHaltReason ==
    <<"NA", "CONNECT_CLOSED", "ABORTED", "INTERNAL_ERROR", "CONNECT_ERROR", "MEDIA_ERROR">>
DataOperation == <<"NOACTION", "BACKUP", "RECOVER", "RECOVER_FILEHIST">>
DataState == <<"IDLE", "ACTIVE", "HALTED", "LISTEN", "CONNECTED">>
DataHaltReason == <<"NA", "SUCCESSFUL", "ABORTED", "INTERNAL_ERROR", "CONNECT_ERROR">>

\* What a recovery asks for (ndmp9_name): where the file was in the backup, and
\* where it shall go.  A path is a sequence of letters and slashes.
Name(original, destination) == [original |-> original, destination |-> destination]

Names == <<Name(<<>>, <<>>),
           Name(<<"d", "/", "f">>, <<"r", "/", "d", "/", "f">>),    \* the same name elsewhere
           Name(<<"f">>, <<"r", "/", "g">>),                        \* another name
           Name(<<"f">>, <<"r", "/", "g", "f">>),                   \* one that ends like it
           Name(<<".">>, <<"r">>)>>                                 \* all there is

\* ndmp9_file_stat
FileStat == [ftype |-> <<"DIR", "FIFO", "CSPEC", "BSPEC", "REG", "SLINK", "SOCK", "REGISTRY",
                         "OTHER">>,
             mtime |-> ValidNumber, atime |-> ValidNumber, ctime |-> ValidNumber,
             uid |-> ValidNumber, gid |-> ValidNumber, mode |-> ValidNumber,
             size |-> ValidNumber, links |-> ValidNumber, node |-> ValidNumber,
             fh_info |-> ValidNumber]

NoFields == [f \in {} |-> Text]
JustError == [error |-> Error]

Shape(request, reply) == [request |-> request, reply |-> reply]

ConnectShapes ==
       "CONNECT_OPEN" :> Shape([protocol_version |-> Number], JustError)
    @@ "CONNECT_CLIENT_AUTH" :> Shape([auth_data |-> AuthType], JustError)
    @@ "CONNECT_CLOSE" :> Shape(NoFields, JustError)

\* authtypes and conntypes are sets of bits
Subsets(all) == <<{}, {all[1]}, {all[2]}, {all[i] : i \in 1..Len(all)}>>

ConfigShapes ==
       "CONFIG_GET_HOST_INFO" :> Shape(NoFields,
            JustError @@ [hostname |-> Text, os_type |-> Text, os_vers |-> Text, hostid |-> Text,
                          authtypes |-> Subsets(AuthType)])
    @@ "CONFIG_GET_CONNECTION_TYPE" :> Shape(NoFields,
            JustError @@ [conntypes |-> Subsets(<<"LOCAL", "TCP">>)])
    @@ "CONFIG_GET_AUTH_ATTR" :> Shape([auth_type |-> AuthType],
            JustError @@ [server_attr |-> AuthType])
    @@ "CONFIG_GET_SERVER_INFO" :> Shape(NoFields,
            JustError @@ [vendor_name |-> Text, product_name |-> Text, revision_number |-> Text,
                          authtypes |-> Subsets(AuthType)])
    @@ "CONFIG_GET_BUTYPE_INFO" :> Shape(NoFields,
            JustError @@ [butype_name |-> Text, default_env |-> Bytes,
                          v3attr |-> ValidNumber, v4attr |-> ValidNumber])
    @@ "CONFIG_GET_FS_INFO" :> Shape(NoFields,
            JustError @@ [fs_type |-> Text, fs_logical_device |-> Text, fs_physical_device |-> Text,
                          total_size |-> ValidNumber, used_size |-> ValidNumber,
                          avail_size |-> ValidNumber, total_inodes |-> ValidNumber,
                          used_inodes |-> ValidNumber, fs_env |-> Bytes, fs_status |-> Text])
    @@ [m \in {"CONFIG_GET_TAPE_INFO", "CONFIG_GET_SCSI_INFO"} |-> Shape(NoFields,
            JustError @@ [model |-> Text, device |-> Text, capability |-> Bytes,
                          v3attr |-> ValidNumber, v4attr |-> ValidNumber])]

ScsiShapes ==
       "SCSI_OPEN" :> Shape([device |-> Text], JustError)
    @@ "SCSI_SET_TARGET" :> Shape([device |-> Text, target |-> Number], JustError)
    @@ "SCSI_GET_STATE" :> Shape(NoFields, JustError @@ [target |-> Number])
    @@ [m \in {"SCSI_CLOSE", "SCSI_RESET_DEVICE", "SCSI_RESET_BUS"} |-> Shape(NoFields, JustError)]
    @@ [m \in {"SCSI_EXECUTE_CDB", "TAPE_EXECUTE_CDB"} |-> Shape(
            [data_dir |-> <<"NONE", "IN", "OUT">>, timeout |-> Number, datain_len |-> Number,
             cdb |-> Bytes, dataout |-> Bytes],
            JustError @@ [status |-> Number, dataout_len |-> Number, datain |-> Bytes,
                          ext_sense |-> Bytes])]

TapeShapes ==
       "TAPE_OPEN" :> Shape([device |-> Text, mode |-> <<"READ", "RDWR", "RAW">>], JustError)
    @@ "TAPE_CLOSE" :> Shape(NoFields, JustError)
    @@ "TAPE_GET_STATE" :> Shape(NoFields,
            JustError @@ [flags |-> Number, file_num |-> ValidNumber, soft_errors |-> ValidNumber,
                          block_size |-> ValidNumber, blockno |-> ValidNumber,
                          total_space |-> ValidNumber, space_remain |-> ValidNumber,
                          partition |-> ValidNumber])
    @@ "TAPE_MTIO" :> Shape([tape_op |-> <<"FSF", "BSF", "FSR", "BSR", "REW", "EOF", "OFF">>,
                             count |-> Number],
            JustError @@ [resid_count |-> Number])
    @@ "TAPE_WRITE" :> Shape([data_out |-> Bytes], JustError @@ [count |-> Number])
    @@ "TAPE_READ" :> Shape([count |-> Number], JustError @@ [data_in |-> Bytes])

MoverShapes ==
       "MOVER_GET_STATE" :> Shape(NoFields,
            JustError @@ [state |-> MoverState, mode |-> MoverMode, pause_reason |-> PauseReason,
                          halt_reason |-> MoverHaltReason, record_size |-> Number,
                          record_num |-> Number, bytes_moved |-> Number,
                          seek_position |-> Number, bytes_left_to_read |-> Number,
                          window_offset |-> Number, window_length |-> Number,
                          data_connection_addr |-> AddrType])
    @@ "MOVER_LISTEN" :> Shape([mode |-> MoverMode, addr_type |-> AddrType],
            JustError @@ [data_connection_addr |-> AddrType])
    @@ "MOVER_CONNECT" :> Shape([mode |-> MoverMode, addr |-> AddrType], JustError)
    @@ "MOVER_SET_RECORD_SIZE" :> Shape([record_size |-> Number], JustError)
    @@ [m \in {"MOVER_SET_WINDOW", "MOVER_READ"} |->
            Shape([offset |-> Number, length |-> Number], JustError)]
    @@ [m \in {"MOVER_CONTINUE", "MOVER_ABORT", "MOVER_STOP", "MOVER_CLOSE"} |->
            Shape(NoFields, JustError)]

DataShapes ==
       "DATA_GET_STATE" :> Shape(NoFields,
            JustError @@ [operation |-> DataOperation, state |-> DataState,
                          halt_reason |-> DataHaltReason, bytes_processed |-> Number,
                          est_bytes_remain |-> ValidNumber, est_time_remain |-> ValidNumber,
                          data_connection_addr |-> AddrType, read_offset |-> Number,
                          read_length |-> Number])
    @@ "DATA_START_BACKUP" :> Shape([bu_type |-> Text, env |-> Bytes, addr |-> AddrType], JustError)
    @@ [m \in {"DATA_START_RECOVER", "DATA_START_RECOVER_FILEHIST"} |->
            Shape([bu_type |-> Text, env |-> Bytes, nlist |-> Names, fh_info |-> ValidNumber,
                   addr |-> AddrType], JustError)]
    @@ "DATA_GET_ENV" :> Shape(NoFields, JustError @@ [env |-> Bytes])
    @@ "DATA_LISTEN" :> Shape([addr_type |-> AddrType],
            JustError @@ [data_connection_addr |-> AddrType])
    @@ "DATA_CONNECT" :> Shape([addr |-> AddrType], JustError)
    @@ [m \in {"DATA_ABORT", "DATA_STOP"} |-> Shape(NoFields, JustError)]

\* What an agent sends to the CONTROL agent of its own: nobody answers
NoticeShapes ==
       "NOTIFY_DATA_HALTED" :> Shape([reason |-> DataHaltReason], NoFields)
    @@ "NOTIFY_MOVER_HALTED" :> Shape([reason |-> MoverHaltReason], NoFields)
    @@ "NOTIFY_MOVER_PAUSED" :> Shape([reason |-> PauseReason, seek_position |-> Number], NoFields)
    @@ "NOTIFY_DATA_READ" :> Shape([offset |-> Number, length |-> Number], NoFields)
    @@ "NOTIFY_CONNECTED" :> Shape([reason |-> <<"CONNECTED", "SHUTDOWN", "REFUSED">>,
                                    protocol_version |-> Number, text_reason |-> Text], NoFields)
    @@ "LOG_MESSAGE" :> Shape([log_type |-> <<"NORMAL", "DEBUG", "ERROR", "WARNING">>,
                               message_id |-> Number, entry |-> Text,
                               associated_message_sequence |-> ValidNumber], NoFields)
    @@ "LOG_FILE" :> Shape([name |-> Text,
                            recovery_status |-> <<"SUCCESSFUL", "PERMISSION", "NOT_FOUND",
                                "NO_DIRECTORY", "OUT_OF_MEMORY", "IO_ERROR", "UNDEFINED_ERROR">>],
            NoFields)
    @@ "FH_ADD_FILE" :> Shape(FileStat @@ [unix_path |-> Text], NoFields)
    @@ "FH_ADD_DIR" :> Shape([unix_name |-> Text, node |-> Number, parent |-> Number], NoFields)
    @@ "FH_ADD_NODE" :> Shape(FileStat, NoFields)

Shapes == ConnectShapes @@ ConfigShapes @@ ScsiShapes @@ TapeShapes @@ MoverShapes
          @@ DataShapes @@ NoticeShapes

ZeroFilled(fields) == [f \in DOMAIN fields |-> Zero(fields[f])]

(***************************************************************************)
(* Enumerations: a table of rows <<in the version, in NDMP9>>, the first of *)
(* which is for the values no other row has.  Values with the same name in  *)
(* both dialects stand alone in a list of names.                            *)
(***************************************************************************)

Invalid == "-1"

Same(names) == [i \in 1..Len(names) |-> <<names[i], names[i]>>]

\* A table with default -1 in both directions
Table(rows) == <<<<Invalid, Invalid>>>> \o rows

\* convert_enum_to_9 (from = 1) and convert_enum_from_9 (from = 2): the first
\* row that has the value, the default row never tried
Converted(table, from, v) ==
    LET hits == {i \in 2..Len(table) : table[i][from] = v}
    IN  table[IF hits = {} THEN 1 ELSE CHOOSE i \in hits : \A j \in hits : i <= j][3 - from]

InTable(table, from, v) == \E i \in 2..Len(table) : table[i][from] = v

(***************************************************************************)
(* The conversions of one field                                             *)
(***************************************************************************)

Copy == [kind |-> "copy"]                               \* CNVT_TO_9, CNVT_STRDUP_TO_9, bytes copied
Enum(table) == [kind |-> "enum", table |-> table]       \* CNVT_E_TO_9
\* An enumeration whose unknown values are let through as they are
Passing(table) == [kind |-> "passing", table |-> table]
\* An enumeration whose unknown values make the translation fail
Strict(table) == [kind |-> "strict", table |-> table]
ValidOrMax == [kind |-> "valid or max"]                 \* CNVT_VUL_TO_9, CNVT_VUQ_TO_9
\* The number alone, whether it is valid or not, and valid when it comes back
Bare == [kind |-> "bare"]
\* A number with a flag of its own beside it that says it is not valid
Flagged == [kind |-> "flagged"]
\* A list of types of which unknown ones are left out
ListOf(names) == [kind |-> "list", names |-> Values(names)]
\* A value set whatever the other side has
Always(v) == [kind |-> "always", value |-> v]
\* A conversion given by the functions of its two directions
Mapped(out, in) == [kind |-> "mapped", out |-> out, in |-> in]

\* A conversion of v that fails, from = 2 outwards and 1 inwards
Fails(codec, from, v) == codec.kind = "strict" /\ ~InTable(codec.table, from, v)

\* convert_valid_u_long_from_9 and convert_valid_u_long_to_9
NumberOut(v) == IF v = "unknown" THEN "max" ELSE v
NumberIn(v) == IF v = "max" THEN "unknown" ELSE v

FieldOut(codec, v) ==
    CASE codec.kind \in {"enum", "strict"} -> Converted(codec.table, 2, v)
      [] codec.kind = "passing" -> IF InTable(codec.table, 2, v) THEN Converted(codec.table, 2, v)
                                                                 ELSE v
      [] codec.kind = "valid or max" -> NumberOut(v)
      [] codec.kind = "bare" -> IF v = "unknown" THEN "0" ELSE v
      [] codec.kind = "flagged" -> IF v = "unknown" THEN "flagged" ELSE v
      [] codec.kind = "list" -> v \cap codec.names
      [] codec.kind = "always" -> codec.value
      [] codec.kind = "mapped" -> codec.out[v]
      [] codec.kind = "copy" -> v

FieldIn(codec, v) ==
    CASE codec.kind \in {"enum", "strict"} -> Converted(codec.table, 1, v)
      [] codec.kind = "passing" -> IF InTable(codec.table, 1, v) THEN Converted(codec.table, 1, v)
                                                                 ELSE v
      [] codec.kind = "valid or max" -> NumberIn(v)
      [] codec.kind = "flagged" -> IF v = "flagged" THEN "unknown" ELSE NumberIn(v)
      [] codec.kind = "list" -> v \cap codec.names
      [] codec.kind = "mapped" -> codec.in[v]
      [] codec.kind \in {"copy", "bare"} -> v

(***************************************************************************)
(* The translation of a body.  Each direction of each half of a message has *)
(* the fields it converts; what it does not name is left out on the way out *)
(* and stays zero on the way in.                                            *)
(***************************************************************************)

Both(codecs) == [out |-> codecs, in |-> codecs]
Halves(request, reply) == [request |-> request, reply |-> reply]

NoCodecs == [f \in {} |-> Copy]

OutFails(half, body) == \E f \in DOMAIN half.out : Fails(half.out[f], 2, body[f])
InFails(half, wire) ==
    \E f \in DOMAIN half.in : half.in[f].kind = "strict" /\ Fails(half.in[f], 1, wire[f])

Outwards(half, body) == [f \in DOMAIN half.out |-> FieldOut(half.out[f], body[f])]

Inwards(half, fields, wire) ==
    [f \in DOMAIN fields |->
        IF f \notin DOMAIN half.in THEN Zero(fields[f])
        ELSE IF half.in[f].kind = "always" THEN half.in[f].value
        ELSE FieldIn(half.in[f], wire[f])]
=============================================================================
