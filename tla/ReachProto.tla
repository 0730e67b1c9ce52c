----------------------------- MODULE ReachProto -----------------------------
(***************************************************************************)
(* The messages of the Reach protocol as the generated reach.pb.h declares *)
(* them: first the room its C structures have, then the fields, then the   *)
(* greatest encoded sizes it announces and the sizes of the structures.    *)
(***************************************************************************)
EXTENDS Coding

NoRoom == << >>

Room_device ==
  [ ReachMessage |-> [payload |-> 208],
    ErrorReport |-> [result_string |-> 194],
    PingRequest |-> [echo_data |-> 194],
    PingResponse |-> [echo_data |-> 194],
    DeviceInfoResponse |->
      [device_name |-> 24, manufacturer |-> 24, device_description |-> 48,
       firmware_version |-> 16, application_identifier |-> 16, sizes_struct |-> 16] ]

Room_parameters ==
  [ ParameterInfoRequest |-> [parameter_ids |-> 32],
    ParameterInfo |-> [name |-> 24, description |-> 32, units |-> 16],
    ParameterInfoResponse |-> [parameter_infos |-> 2],
    ParamExKey |-> [name |-> 16],
    ParamExInfoResponse |-> [enumerations |-> 8],
    ParameterValue |-> [string_value |-> 32, bytes_value |-> 32],
    ParameterRead |-> [parameter_ids |-> 32],
    ParameterReadResult |-> [values |-> 4],
    ParameterWrite |-> [values |-> 4],
    ParameterNotification |-> [values |-> 4] ]

Room_files ==
  [ FileInfo |-> [file_name |-> 24],
    DiscoverFilesResponse |-> [file_infos |-> 4],
    FileTransferInitResponse |-> [error_message |-> 194],
    FileTransferData |-> [message_data |-> 194],
    FileTransferDataNotification |-> [error_message |-> 194],
    FileEraseResponse |-> [error_message |-> 194] ]

Room_streams ==
  [ StreamInfo |-> [name |-> 24],
    DiscoverStreamsResponse |-> [streams |-> 4],
    StreamData |-> [message_data |-> 194] ]

Room_commands ==
  [ CommandInfo |-> [name |-> 24],
    DiscoverCommandsResponse |-> [available_commands |-> 6],
    SendCommandResponse |-> [result_message |-> 194],
    CLIData |-> [message_data |-> 194] ]

Room_time ==
  [ TimeSetResponse |-> [result_message |-> 194],
    TimeGetResponse |-> [result_message |-> 194] ]

-----------------------------------------------------------------------------
(* Device. *)

ReachMessageHeader ==
  Message(<< One("message_type", "UINT32", 1), One("endpoint_id", "UINT32", 2),
             One("number_of_objects", "UINT32", 3),
             One("remaining_objects", "UINT32", 4),
             One("transaction_id", "UINT32", 5) >>,
          NoRoom)

ReachMessage ==
  Message(<< OptSub("header", ReachMessageHeader, 1),
             One("payload", "BYTES", 2) >>,
          Room_device.ReachMessage)

ErrorReport ==
  Message(<< One("result_value", "INT32", 1), One("result_string", "STRING", 2) >>,
          Room_device.ErrorReport)

PingRequest ==
  Message(<< One("echo_data", "BYTES", 1) >>,
          Room_device.PingRequest)

PingResponse ==
  Message(<< One("echo_data", "BYTES", 1), One("signal_strength", "INT32", 2) >>,
          Room_device.PingResponse)

DeviceInfoRequest ==
  Message(<< Opt("challenge_key", "UINT32", 1) >>,
          NoRoom)

DeviceInfoResponse ==
  Message(<< One("protocol_version", "INT32", 1),
             One("device_name", "STRING", 2), One("manufacturer", "STRING", 3),
             One("device_description", "STRING", 4),
             One("firmware_version", "STRING", 6), One("services", "UINT32", 8),
             One("parameter_metadata_hash", "UINT32", 9),
             Opt("application_identifier", "BYTES", 10),
             One("endpoints", "UINT32", 11), One("sizes_struct", "BYTES", 20) >>,
          Room_device.DeviceInfoResponse)

-----------------------------------------------------------------------------
(* Parameters. *)

ParameterInfoRequest ==
  Message(<< One("parameter_key", "UINT32", 1),
             Rep("parameter_ids", "UINT32", 2) >>,
          Room_parameters.ParameterInfoRequest)

ParameterInfo ==
  Message(<< One("id", "UINT32", 1), One("data_type", "UENUM", 2),
             One("size_in_bytes", "UINT32", 3), One("name", "STRING", 4),
             One("access", "UENUM", 5), Opt("description", "STRING", 6),
             One("units", "STRING", 7), Opt("range_min", "DOUBLE", 8),
             Opt("range_max", "DOUBLE", 9), Opt("default_value", "DOUBLE", 10),
             One("storage_location", "UENUM", 11) >>,
          Room_parameters.ParameterInfo)

ParameterInfoResponse ==
  Message(<< RepSub("parameter_infos", ParameterInfo, 1) >>,
          Room_parameters.ParameterInfoResponse)

ParamExKey ==
  Message(<< One("id", "UINT32", 1), One("name", "STRING", 2) >>,
          Room_parameters.ParamExKey)

ParamExInfoResponse ==
  Message(<< One("associated_pid", "UINT32", 1), One("data_type", "UENUM", 2),
             RepSub("enumerations", ParamExKey, 3) >>,
          Room_parameters.ParamExInfoResponse)

ParameterValue ==
  Message(<< One("parameter_id", "UINT32", 1), One("timestamp", "UINT32", 2),
             Alt("uint32_value", "UINT32", 3), Alt("sint32_value", "SINT32", 4),
             Alt("float32_value", "FLOAT", 5), Alt("uint64_value", "UINT64", 6),
             Alt("sint64_value", "SINT64", 7),
             Alt("float64_value", "DOUBLE", 8), Alt("bool_value", "BOOL", 9),
             Alt("string_value", "STRING", 10), Alt("enum_value", "UINT32", 11),
             Alt("bitfield_value", "UINT32", 12),
             Alt("bytes_value", "BYTES", 13) >>,
          Room_parameters.ParameterValue)

ParameterRead ==
  Message(<< Opt("parameter_key", "UINT32", 1),
             Rep("parameter_ids", "UINT32", 2),
             One("read_after_timestamp", "UINT32", 3) >>,
          Room_parameters.ParameterRead)

ParameterReadResult ==
  Message(<< One("read_timestamp", "UINT32", 1),
             RepSub("values", ParameterValue, 3) >>,
          Room_parameters.ParameterReadResult)

ParameterWrite ==
  Message(<< Opt("parameter_key", "UINT32", 1),
             RepSub("values", ParameterValue, 3) >>,
          Room_parameters.ParameterWrite)

ParameterWriteResult ==
  Message(<< One("result", "INT32", 1) >>,
          NoRoom)

ParameterNotifyConfig ==
  Message(<< One("parameter_id", "UINT32", 1), One("enabled", "BOOL", 2),
             One("minimum_notification_period", "UINT32", 3),
             One("maximum_notification_period", "UINT32", 4),
             One("minimum_delta", "FLOAT", 5) >>,
          NoRoom)

ParameterNotifyConfigResponse ==
  Message(<< One("result", "INT32", 1) >>,
          NoRoom)

ParameterNotification ==
  Message(<< RepSub("values", ParameterValue, 2) >>,
          Room_parameters.ParameterNotification)

-----------------------------------------------------------------------------
(* Files. *)

DiscoverFiles == Message(<< >>, NoRoom)

FileInfo ==
  Message(<< One("file_id", "UINT32", 1), One("file_name", "STRING", 2),
             One("access", "UENUM", 3), One("current_size_bytes", "INT32", 4),
             One("storage_location", "UENUM", 5) >>,
          Room_files.FileInfo)

DiscoverFilesResponse ==
  Message(<< RepSub("file_infos", FileInfo, 1) >>,
          Room_files.DiscoverFilesResponse)

FileTransferInit ==
  Message(<< One("file_id", "UINT32", 1), One("read_write", "UINT32", 2),
             One("request_offset", "UINT32", 3),
             One("transfer_length", "UINT32", 4),
             One("transfer_id", "UINT32", 5),
             One("messages_per_ack", "UINT32", 6),
             One("timeout_in_ms", "UINT32", 7) >>,
          NoRoom)

FileTransferInitResponse ==
  Message(<< One("result", "INT32", 1), One("transfer_id", "UINT32", 2),
             One("preferred_ack_rate", "UINT32", 3),
             One("error_message", "STRING", 4) >>,
          Room_files.FileTransferInitResponse)

FileTransferData ==
  Message(<< One("result", "INT32", 1), One("transfer_id", "UINT32", 2),
             One("message_number", "UINT32", 3),
             One("message_data", "BYTES", 4), Opt("crc32", "INT32", 5) >>,
          Room_files.FileTransferData)

FileTransferDataNotification ==
  Message(<< One("result", "INT32", 1), One("error_message", "STRING", 2),
             One("is_complete", "BOOL", 3), One("transfer_id", "UINT32", 4),
             One("retry_offset", "UINT32", 5) >>,
          Room_files.FileTransferDataNotification)

FileEraseRequest ==
  Message(<< One("file_id", "UINT32", 1) >>,
          NoRoom)

FileEraseResponse ==
  Message(<< One("file_id", "UINT32", 1), One("result", "INT32", 2),
             One("error_message", "STRING", 3) >>,
          Room_files.FileEraseResponse)

-----------------------------------------------------------------------------
(* Streams. *)

DiscoverStreams == Message(<< >>, NoRoom)

StreamInfo ==
  Message(<< One("stream_id", "INT32", 1), One("access", "UENUM", 2),
             One("name", "STRING", 3), One("max_bytes_per_message", "INT32", 4) >>,
          Room_streams.StreamInfo)

DiscoverStreamsResponse ==
  Message(<< RepSub("streams", StreamInfo, 1) >>,
          Room_streams.DiscoverStreamsResponse)

StreamOpen ==
  Message(<< One("stream_id", "INT32", 1), One("access", "UENUM", 2) >>,
          NoRoom)

StreamOpenResponse ==
  Message(<< One("stream_id", "INT32", 1), One("result", "INT32", 2) >>,
          NoRoom)

StreamClose ==
  Message(<< One("stream_id", "INT32", 1) >>,
          NoRoom)

StreamData ==
  Message(<< One("stream_id", "INT32", 1), One("roll_count", "UINT32", 2),
             One("message_data", "BYTES", 3), One("crc32", "INT32", 4) >>,
          Room_streams.StreamData)

-----------------------------------------------------------------------------
(* Commands. *)

DiscoverCommands == Message(<< >>, NoRoom)

CommandInfo ==
  Message(<< One("id", "UINT32", 1), One("name", "STRING", 2) >>,
          Room_commands.CommandInfo)

DiscoverCommandsResponse ==
  Message(<< RepSub("available_commands", CommandInfo, 1) >>,
          Room_commands.DiscoverCommandsResponse)

SendCommand ==
  Message(<< One("command_id", "UINT32", 1) >>,
          NoRoom)

SendCommandResponse ==
  Message(<< One("result", "INT32", 1), One("result_message", "STRING", 2) >>,
          Room_commands.SendCommandResponse)

CLIData ==
  Message(<< One("message_data", "STRING", 1), One("is_complete", "BOOL", 2) >>,
          Room_commands.CLIData)

-----------------------------------------------------------------------------
(* Time. *)

TimeSetRequest ==
  Message(<< One("seconds_utc", "INT64", 1), Opt("timezone", "INT32", 2) >>,
          NoRoom)

TimeSetResponse ==
  Message(<< One("result", "INT32", 1), One("result_message", "STRING", 2) >>,
          Room_time.TimeSetResponse)

TimeGetRequest == Message(<< >>, NoRoom)

TimeGetResponse ==
  Message(<< One("result", "INT32", 1), One("result_message", "STRING", 2),
             One("seconds_utc", "INT64", 3), Opt("timezone", "INT32", 4) >>,
          Room_time.TimeGetResponse)


-----------------------------------------------------------------------------
(* Sizes. *)

\* The greatest encoded sizes that the header announces, and the messages.
DeclaredSize ==
  [ ReachMessageHeader |-> 30, ReachMessage |-> 243, ErrorReport |-> 207,
    PingRequest |-> 197, PingResponse |-> 208, DeviceInfoRequest |-> 6,
    DeviceInfoResponse |-> 182, ParameterInfoRequest |-> 198,
    ParameterInfo |-> 120, ParameterInfoResponse |-> 244,
    ParamExKey |-> 23, ParamExInfoResponse |-> 208, ParameterValue |-> 46,
    ParameterRead |-> 204, ParameterReadResult |-> 198,
    ParameterWrite |-> 198, ParameterWriteResult |-> 11,
    ParameterNotifyConfig |-> 25, ParameterNotifyConfigResponse |-> 11,
    ParameterNotification |-> 192, DiscoverFiles |-> 0, FileInfo |-> 46,
    DiscoverFilesResponse |-> 192, FileTransferInit |-> 42,
    FileTransferInitResponse |-> 219, FileTransferData |-> 231,
    FileTransferDataNotification |-> 221, FileEraseRequest |-> 6,
    FileEraseResponse |-> 213, DiscoverStreams |-> 0, StreamInfo |-> 49,
    DiscoverStreamsResponse |-> 204, StreamOpen |-> 13,
    StreamOpenResponse |-> 22, StreamClose |-> 11, StreamData |-> 225,
    DiscoverCommands |-> 0, CommandInfo |-> 31,
    DiscoverCommandsResponse |-> 198, SendCommand |-> 6,
    SendCommandResponse |-> 207, CLIData |-> 198, TimeSetRequest |-> 22,
    TimeSetResponse |-> 207, TimeGetRequest |-> 0, TimeGetResponse |-> 229 ]

Messages ==
  [ ReachMessageHeader |-> ReachMessageHeader,
    ReachMessage |-> ReachMessage, ErrorReport |-> ErrorReport,
    PingRequest |-> PingRequest, PingResponse |-> PingResponse,
    DeviceInfoRequest |-> DeviceInfoRequest,
    DeviceInfoResponse |-> DeviceInfoResponse,
    ParameterInfoRequest |-> ParameterInfoRequest,
    ParameterInfo |-> ParameterInfo,
    ParameterInfoResponse |-> ParameterInfoResponse,
    ParamExKey |-> ParamExKey, ParamExInfoResponse |-> ParamExInfoResponse,
    ParameterValue |-> ParameterValue, ParameterRead |-> ParameterRead,
    ParameterReadResult |-> ParameterReadResult,
    ParameterWrite |-> ParameterWrite,
    ParameterWriteResult |-> ParameterWriteResult,
    ParameterNotifyConfig |-> ParameterNotifyConfig,
    ParameterNotifyConfigResponse |-> ParameterNotifyConfigResponse,
    ParameterNotification |-> ParameterNotification,
    DiscoverFiles |-> DiscoverFiles, FileInfo |-> FileInfo,
    DiscoverFilesResponse |-> DiscoverFilesResponse,
    FileTransferInit |-> FileTransferInit,
    FileTransferInitResponse |-> FileTransferInitResponse,
    FileTransferData |-> FileTransferData,
    FileTransferDataNotification |-> FileTransferDataNotification,
    FileEraseRequest |-> FileEraseRequest,
    FileEraseResponse |-> FileEraseResponse,
    DiscoverStreams |-> DiscoverStreams, StreamInfo |-> StreamInfo,
    DiscoverStreamsResponse |-> DiscoverStreamsResponse,
    StreamOpen |-> StreamOpen, StreamOpenResponse |-> StreamOpenResponse,
    StreamClose |-> StreamClose, StreamData |-> StreamData,
    DiscoverCommands |-> DiscoverCommands, CommandInfo |-> CommandInfo,
    DiscoverCommandsResponse |-> DiscoverCommandsResponse,
    SendCommand |-> SendCommand,
    SendCommandResponse |-> SendCommandResponse, CLIData |-> CLIData,
    TimeSetRequest |-> TimeSetRequest, TimeSetResponse |-> TimeSetResponse,
    TimeGetRequest |-> TimeGetRequest, TimeGetResponse |-> TimeGetResponse ]

\* Encoded, a value takes at most so many bytes.
Total(sizes) ==
  LET upTo[i \in 0..Len(sizes)] == IF i = 0 THEN 0 ELSE upTo[i - 1] + sizes[i]
  IN  upTo[Len(sizes)]

SizedLength(n) == Len(Varint(Digits(n))) + n

GreatestScalar(m, f) ==
  CASE f.type = "STRING"  -> SizedLength(m.room[f.name] - 1)
    [] f.type = "BYTES"   -> SizedLength(m.room[f.name])
    [] f.type \in Fixed   -> Bytes[f.type]
    [] f.type \in {"UINT32", "SINT32"} -> 5
    [] f.type \in {"BOOL", "UENUM"}    -> 1
    [] OTHER              -> 10
GreatestField(Value(_, _), m, f) ==
  (Len(Tag(f.tag, 0)) + Value(m, f)) * (IF f.label = "REPEATED" THEN m.room[f.name] ELSE 1)
GreatestOf(Value(_, _), m) ==
  LET alternatives == {f \in Fields(m) : f.label = "ONEOF"}
      others == Total([i \in DOMAIN m.fields |->
                         IF m.fields[i] \in alternatives THEN 0
                                                         ELSE GreatestField(Value, m, m.fields[i])])
  IN  IF alternatives = {} THEN others
                           ELSE others + Max({GreatestField(Value, m, f) : f \in alternatives})

GreatestFlat(m) == GreatestOf(GreatestScalar, m)
GreatestValue(m, f) ==
  IF f.type = "MESSAGE" THEN SizedLength(GreatestFlat(f.of)) ELSE GreatestScalar(m, f)
GreatestSize(m) == GreatestOf(GreatestValue, m)

\* What the generator makes of the protocol's description: names and tags are
\* distinct, everything of a bounded size has its room, messages nest once.
Limit == 9999
Tags  == 1..Limit \ {15, 16, 99, 1000}
Rooms == 1..Limit
SoundField(m, f) ==
  /\ f.label \in {"SINGULAR", "OPTIONAL", "REPEATED", "ONEOF"}
  /\ f.type \in Unsigned \cup Signed \cup ZigZags \cup Fixed \cup Delimited \cup {"BOOL"}
  /\ f.tag \in Tags
  /\ f.type \in {"STRING", "BYTES"} \/ f.label = "REPEATED" => m.room[f.name] \in Rooms
  /\ f.type \in {"STRING", "BYTES"} => f.label # "REPEATED"
  /\ f.label = "REPEATED" /\ Packable(f) => m.room[f.name] >= 4
  /\ f.type = "MESSAGE" => f.label \in {"OPTIONAL", "REPEATED"}
SoundFields(m) ==
  /\ m.fields \in Seq(Fields(m))
  /\ \A i, j \in DOMAIN m.fields :
       m.fields[i].name = m.fields[j].name \/ m.fields[i].tag = m.fields[j].tag => i = j
  /\ \A f \in Fields(m) : SoundField(m, f)
IsFlat(m) == \A f \in Fields(m) : f.type # "MESSAGE"
Sound(m) ==
  /\ SoundFields(m)
  /\ \A f \in Fields(m) : f.type = "MESSAGE" =>
       SoundFields(f.of) /\ IsFlat(f.of) /\ GreatestFlat(f.of) \in 0..Limit

\* Enumerations have numbers below 128: one byte, as the header announces them.
FlatDeclared(m, v) ==
  \A f \in Fields(m) : f.type = "UENUM" => \A i \in DOMAIN v[f.name] : Len(v[f.name][i]) <= 1
Declared(m, v) ==
  /\ FlatDeclared(m, v)
  /\ \A f \in Fields(m) :
       f.type = "MESSAGE" => \A i \in DOMAIN v[f.name] : FlatDeclared(f.of, v[f.name][i])

ASSUME DescriptorsAreSound == \A name \in DOMAIN Messages : Sound(Messages[name])
ASSUME SizesAreAnnounced ==
  \A name \in DOMAIN Messages : GreatestSize(Messages[name]) = DeclaredSize[name]
=============================================================================
