----------------------------- MODULE MessagePath -----------------------------
(***************************************************************************)
(* A message on its way between a client and the device: its payload is    *)
(* encoded, put into an envelope with a header, encoded again, carried by  *)
(* the link, and decoded twice at the other end.                           *)
(*                                                                         *)
(* Prompts are written by clients, which this repository does not hold:    *)
(* they may be built with greater limits, with fields this device does not *)
(* know, or by an encoder that writes what this one leaves out.            *)
(***************************************************************************)
EXTENDS AppTables

CONSTANTS
  Prompts,    \* what clients ask: [type, transaction, value]
  Replies,    \* what the handlers compose: [type, objects, remaining, transaction, value]
  Lines,      \* lengths of the lines that the log echoes to the client
  Errors,     \* error reports: [code, length] of the text before it is cut
  Values,     \* parameter values that a client is notified of
  Garbage     \* what a word of the stack may hold that was not written

VARIABLES
  air,    \* the message on the link: to whom, its bytes, and whether it was cut
  meant,  \* what was put into it: name of the payload, size, header, value
  got     \* what the other end made of it

vars == <<air, meant, got>>

Nothing == [to |-> "nobody"]

CR_CODED_BUFFER_SIZE      == 244
UNCODED_PAYLOAD_SIZE      == CR_CODED_BUFFER_SIZE - 4
REACH_MESSAGE_PAYLOAD_MAX == Room_device.ReachMessage.payload

-----------------------------------------------------------------------------
(* Which payload a message type has, by direction.                          *)

MessageType ==
  [ ERROR_REPORT |-> 1, PING |-> 2, GET_DEVICE_INFO |-> 3, DISCOVER_PARAMETERS |-> 5,
    DISCOVER_PARAM_EX |-> 6, READ_PARAMETERS |-> 7, WRITE_PARAMETERS |-> 8,
    CONFIG_PARAM_NOTIFY |-> 9, PARAMETER_NOTIFICATION |-> 10, DISCOVER_FILES |-> 12,
    TRANSFER_INIT |-> 13, TRANSFER_DATA |-> 14, TRANSFER_DATA_NOTIFICATION |-> 15,
    DISCOVER_COMMANDS |-> 17, SEND_COMMAND |-> 18, CLI_NOTIFICATION |-> 20,
    DISCOVER_STREAMS |-> 25, OPEN_STREAM |-> 26, CLOSE_STREAM |-> 27,
    STREAM_DATA_NOTIFICATION |-> 28, SET_TIME |-> 30, GET_TIME |-> 31 ]

PromptOf ==
  [ GET_DEVICE_INFO |-> "DeviceInfoRequest", PING |-> "PingRequest",
    DISCOVER_PARAMETERS |-> "ParameterInfoRequest",
    DISCOVER_PARAM_EX |-> "ParameterInfoRequest",
    READ_PARAMETERS |-> "ParameterRead", WRITE_PARAMETERS |-> "ParameterWrite",
    CONFIG_PARAM_NOTIFY |-> "ParameterNotifyConfig", DISCOVER_FILES |-> "DiscoverFiles",
    TRANSFER_INIT |-> "FileTransferInit", TRANSFER_DATA |-> "FileTransferData",
    TRANSFER_DATA_NOTIFICATION |-> "FileTransferDataNotification",
    DISCOVER_COMMANDS |-> "DiscoverCommands", SEND_COMMAND |-> "SendCommand",
    CLI_NOTIFICATION |-> "CLIData", GET_TIME |-> "TimeGetRequest",
    SET_TIME |-> "TimeSetRequest" ]

ReplyOf ==
  [ GET_DEVICE_INFO |-> "DeviceInfoResponse", PING |-> "PingResponse",
    DISCOVER_PARAMETERS |-> "ParameterInfoResponse",
    DISCOVER_PARAM_EX |-> "ParamExInfoResponse",
    READ_PARAMETERS |-> "ParameterReadResult", WRITE_PARAMETERS |-> "ParameterWriteResult",
    CONFIG_PARAM_NOTIFY |-> "ParameterNotifyConfigResponse",
    DISCOVER_FILES |-> "DiscoverFilesResponse",
    TRANSFER_INIT |-> "FileTransferInitResponse", TRANSFER_DATA |-> "FileTransferData",
    TRANSFER_DATA_NOTIFICATION |-> "FileTransferDataNotification",
    DISCOVER_COMMANDS |-> "DiscoverCommandsResponse", SEND_COMMAND |-> "SendCommandResponse",
    SET_TIME |-> "TimeSetResponse", GET_TIME |-> "TimeGetResponse" ]

NoteOf ==
  [ ERROR_REPORT |-> "ErrorReport", CLI_NOTIFICATION |-> "CLIData",
    PARAMETER_NOTIFICATION |-> "ParameterNotification" ]

\* What comes from the device is an answer or a notification.
FromDevice ==
  [t \in DOMAIN NoteOf \cup DOMAIN ReplyOf |-> IF t \in DOMAIN NoteOf THEN NoteOf[t] ELSE ReplyOf[t]]

TypeIn(table, code) == {t \in DOMAIN table : Digits(MessageType[t]) = code}

Header(type, endpoint, objects, remaining, transaction) ==
  [ message_type |-> <<Digits(MessageType[type])>>, endpoint_id |-> <<endpoint>>,
    number_of_objects |-> <<Digits(objects)>>, remaining_objects |-> <<Digits(remaining)>>,
    transaction_id |-> <<transaction>> ]
Envelope(header, payload) == [header |-> <<header>>, payload |-> <<payload>>]

ASSUME TablesAreSound ==
  /\ \A s, t \in DOMAIN MessageType : MessageType[s] = MessageType[t] => s = t
  /\ \A t \in DOMAIN MessageType : MessageType[t] \in 1..127
  /\ \A table \in {PromptOf, ReplyOf, NoteOf} : \A t \in DOMAIN table :
       t \in DOMAIN MessageType /\ table[t] \in DOMAIN Messages
  /\ DOMAIN ReplyOf \cap DOMAIN NoteOf = {}

-----------------------------------------------------------------------------
(* What is assumed of the messages: that they are messages.                 *)

Word(d) == Pattern(d) /\ Fits(d, 4)
Meaningful(name, v) == IsValue(Messages[name], v) /\ Declared(Messages[name], v)

ASSUME PromptsAssumption ==
  \A p \in Prompts :
    /\ p.type \in DOMAIN PromptOf
    /\ Word(p.transaction)
    /\ Meaningful(PromptOf[p.type], p.value)

\* Of the answers that could be longer than the payload of an envelope none is.
ASSUME RepliesAssumption ==
  \A r \in Replies :
    /\ r.type \in DOMAIN ReplyOf
    /\ r.objects \in Nat /\ r.remaining \in Nat /\ Word(r.transaction)
    /\ Meaningful(ReplyOf[r.type], r.value) /\ HasRoom(Messages[ReplyOf[r.type]], r.value)
    /\ \/ DeclaredSize[ReplyOf[r.type]] <= REACH_MESSAGE_PAYLOAD_MAX
       \/ Len(Encode(Messages[ReplyOf[r.type]], r.value)) <= REACH_MESSAGE_PAYLOAD_MAX

ASSUME NotesAssumption ==
  /\ Lines \subseteq Nat
  /\ \A e \in Errors : Pattern(e.code) /\ e.code = Int32(e.code) /\ e.length \in Nat
  /\ \A v \in Values : Meaningful("ParameterValue", v) /\ HasRoom(ParameterValue, v)
ASSUME GarbageAssumption == \A d \in Garbage : Word(d)

-----------------------------------------------------------------------------
(* Clients.                                                                 *)

\* Fields that this device does not know, one of each wire type.
Strange ==
  Tag(15, WT_VARINT) \o Varint(Digits(300)) \o Tag(1000, WT_STRING) \o Sized(Text(4))
  \o Tag(99, WT_32BIT) \o Text(4) \o Tag(16, WT_64BIT) \o Text(8)

\* Every value written, a default too, and the values of arrays one by one.
EncodeAll(m, v) ==
  FlattenSeq([i \in DOMAIN m.fields |->
                EncodeEach(EncodeValue, m.fields[i], v[m.fields[i].name])])

EncodeAs(form, m, v) ==
  CASE form = "plain"    -> Encode(m, v)
    [] form = "explicit" -> EncodeAll(m, v)
    [] form = "newer"    -> Strange \o Encode(m, v) \o Strange

Ask(p, form) ==
  LET payload == EncodeAs(form, Messages[PromptOf[p.type]], p.value)
      header  == Header(p.type, Zero, 0, 0, p.transaction)
      bytes   == EncodeAs(form, ReachMessage, Envelope(header, payload))
  IN  /\ meant = Nothing
      /\ Len(payload) <= REACH_MESSAGE_PAYLOAD_MAX
      /\ Len(bytes) <= CR_CODED_BUFFER_SIZE
      /\ air' = [to |-> "device", bytes |-> bytes, cut |-> FALSE]
      /\ meant' = [name |-> PromptOf[p.type], header |-> header, value |-> p.value,
                   size |-> Len(Encode(Messages[PromptOf[p.type]], p.value))]
      /\ UNCHANGED got

-----------------------------------------------------------------------------
(* The device's answers and notifications.                                  *)

\* What cr_report_error() formats, cut to its room; of several reports of one
\* failure the first is kept here.
ErrorValue(code, length) ==
  [ result_value |-> <<code>>,
    result_string |-> <<Text(Min({length, Room_device.ErrorReport.result_string - 1}))>> ]

\* In two steps, each into a buffer of its own size.
Coded(name, limit, header, value) ==
  LET payload == EncodeInto(limit, Messages[name], value)
      message == EncodeInto(CR_CODED_BUFFER_SIZE, ReachMessage, Envelope(header, payload.bytes))
  IN  [ok |-> payload.ok /\ message.ok, bytes |-> message.bytes]

NotifiedCode(type, value) ==
  Coded(NoteOf[type], REACH_MESSAGE_PAYLOAD_MAX, Header(type, Zero, 0, 0, Zero), value)
ENCODING_FAILED == 12
FailureReport == NotifiedCode("ERROR_REPORT", ErrorValue(Digits(ENCODING_FAILED), 40))

Give(name, header, value, coded) ==
  /\ meant = Nothing
  /\ air' = [to |-> "client", bytes |-> IF coded.ok THEN coded.bytes ELSE FailureReport.bytes,
             cut |-> FALSE]
  /\ meant' = [name |-> name, size |-> Len(Encode(Messages[name], value)), header |-> header,
               value |-> value]
  /\ UNCHANGED got

\* handle_message() leaves the endpoint_id of its header as the stack has it.
Answer(r) ==
  \E endpoint \in Garbage :
    LET header == Header(r.type, endpoint, r.objects, r.remaining, r.transaction)
    IN  Give(ReplyOf[r.type], header, r.value,
             Coded(ReplyOf[r.type], UNCODED_PAYLOAD_SIZE, header, r.value))

Notify(type, value) ==
  Give(NoteOf[type], Header(type, Zero, 0, 0, Zero), value, NotifiedCode(type, value))

\* i3_log() leaves eight characters of its buffer for the line's end, which is
\* written after all that the line would have had.
LineShown(length) == LET kept == Room_commands.CLIData.message_data - 8 - 1
                     IN  IF length <= kept THEN length + 2 ELSE kept

crcb_cli_respond(line) ==
  Notify("CLI_NOTIFICATION",
         [message_data |-> <<Text(LineShown(line))>>, is_complete |-> <<Digits(1)>>])
crcb_notify_error(e) == Notify("ERROR_REPORT", ErrorValue(e.code, e.length))
crcb_notify_param(v) == Notify("PARAMETER_NOTIFICATION", [values |-> <<v>>])

-----------------------------------------------------------------------------
(* The other end.                                                           *)

\* Of a prompt longer than the link carries, its head is stored: the device's own
\* messages are refused by the link instead.
Cut(n) ==
  /\ air.to = "device" /\ ~air.cut
  /\ n < Len(air.bytes)
  /\ air' = [air EXCEPT !.bytes = SubSeq(@, 1, n), !.cut = TRUE]
  /\ UNCHANGED <<meant, got>>

Refused(cut) == [to |-> "refused", cut |-> cut]

\* decode_reach_payload(), by the type that the header names.
TakenAs(types, table, header, bytes, cut) ==
  LET name == table[CHOOSE t \in types : TRUE]
      p    == Decode(Messages[name], bytes)
  IN  IF types # {} /\ p.ok
        THEN [to |-> "taken", cut |-> cut, name |-> name, header |-> header, value |-> p.value]
        ELSE Refused(cut)

\* decode_reach_message(): without a header the type is the one that has no payload.
HeaderOf(v) == IF v.header = << >> THEN Default(ReachMessageHeader) ELSE v.header[1]
PayloadOf(table, header, bytes, cut) ==
  TakenAs(TypeIn(table, header.message_type[1]), table, header, bytes, cut)
Taken(table, bytes, cut) ==
  LET m == Decode(ReachMessage, bytes)
  IN  IF m.ok THEN PayloadOf(table, HeaderOf(m.value), m.value.payload[1], cut)
              ELSE Refused(cut)

Arrive ==
  /\ air # Nothing
  /\ got' = Taken(IF air.to = "device" THEN PromptOf ELSE FromDevice, air.bytes, air.cut)
  /\ air' = Nothing
  /\ UNCHANGED meant

\* Messages are independent of each other: the next one.
Another ==
  /\ got # Nothing
  /\ got' = Nothing /\ meant' = Nothing
  /\ UNCHANGED air

-----------------------------------------------------------------------------
Init == air = Nothing /\ meant = Nothing /\ got = Nothing

Next ==
  \/ \E p \in Prompts, form \in {"plain", "explicit", "newer"} : Ask(p, form)
  \/ \E r \in Replies : Answer(r)
  \/ \E line \in Lines : crcb_cli_respond(line)
  \/ \E e \in Errors : crcb_notify_error(e)
  \/ \E v \in Values : crcb_notify_param(v)
  \/ \E n \in 1..CR_CODED_BUFFER_SIZE : Cut(n)
  \/ Arrive
  \/ Another

Spec == Init /\ [][Next]_vars

-----------------------------------------------------------------------------
(* Properties.                                                              *)

\* Whatever arrives, cut or with fields nobody knows, what is taken fills the C
\* structure it is decoded into and no more, with at most one member of a union.
TypeOK ==
  /\ air.to \in {"nobody", "device", "client"}
  /\ got.to = "taken" =>
       IsValue(Messages[got.name], got.value) /\ HasRoom(Messages[got.name], got.value)

\* A message that is carried whole is taken as it was meant, whichever of the
\* encoders wrote it: both coders agree on every field, width and sign, fields
\* that are not known change nothing, and every answer the handlers can compose
\* gets through the buffers of 240, 208 and 244 bytes (a ping and a packet of a
\* file fill the 208 to the last).  What has no room here is refused, not shortened.
ArrivesAsMeant ==
  got # Nothing /\ ~got.cut =>
    got = IF HasRoom(Messages[meant.name], meant.value)
            THEN [to |-> "taken", cut |-> FALSE, name |-> meant.name, header |-> meant.header,
                  value |-> meant.value]
            ELSE Refused(FALSE)

\* The head of a message is never taken for another message: it is refused, or
\* lacks nothing, or has its header and nothing else.
CutIsNoOther ==
  got.to = "taken" /\ got.cut =>
    /\ got.header = meant.header
    /\ got.value \in {meant.value, Default(Messages[got.name])}

\* cr_test_sizes() checks the greatest encoded sizes that the generated header
\* announces, once, at start-up: they are those of the messages, and nothing
\* that is sent is longer.
SizesAreDeclared ==
  meant # Nothing /\ HasRoom(Messages[meant.name], meant.value) =>
    meant.size <= DeclaredSize[meant.name]
==============================================================================
