------------------------------ MODULE MCMessages ------------------------------
(***************************************************************************)
(* Messages to try: of every prompt, each field alone at its boundaries,   *)
(* all of them at their greatest, and more than there is room for; of the  *)
(* answers, all that the application's tables give and the greatest of the *)
(* others.                                                                 *)
(***************************************************************************)
EXTENDS Structures

Max32 == <<127, 127, 127, 127, 15>>
Max64 == <<127, 127, 127, 127, 127, 127, 127, 127, 127, 1>>
Min32 == Complement(<<127, 127, 127, 127, 7>>)

RECURSIVE Most(_)
MostValue(m, f) ==
  CASE f.type = "UINT32"  -> Max32
    [] f.type = "UINT64"  -> Max64
    [] f.type \in {"UENUM", "BOOL"}    -> Digits(1)
    [] f.type \in {"INT32", "SINT32"}  -> Min32
    [] f.type \in {"INT64", "SINT64"}  -> Minus(1)
    [] f.type \in Fixed   -> [i \in 1..Bytes[f.type] |-> 200]
    [] f.type = "STRING"  -> Text(m.room[f.name] - 1)
    [] f.type = "BYTES"   -> Text(m.room[f.name])
    [] f.type = "MESSAGE" -> Most(f.of)
\* All fields at their greatest; of a ONEOF its longest member.
Chosen(m, f) == f.label = "ONEOF" => f.name = "bytes_value"
Most(m) ==
  [n \in Names(m) |->
     LET f == CHOOSE f \in Fields(m) : f.name = n
     IN  IF ~Chosen(m, f) THEN << >>
         ELSE [i \in 1..(IF f.label = "REPEATED" THEN m.room[n] ELSE 1) |-> MostValue(m, f)]]

RECURSIVE Samples(_)
SamplesOf(m, f) ==
  CASE f.type = "UINT32"  -> {Digits(1), Digits(127), Digits(128), Digits(300), Max32}
    [] f.type = "UINT64"  -> {Digits(1), Max32, Max64}
    [] f.type = "UENUM"   -> {Digits(1), Digits(10)}
    [] f.type = "BOOL"    -> {Digits(1)}
    [] f.type \in {"INT32", "SINT32"} -> {Digits(1), Digits(64), Minus(1), Minus(65), Min32}
    [] f.type \in {"INT64", "SINT64"} ->
         {Digits(1), Minus(1), Complement(<<127, 127, 127, 127, 127, 127, 127, 127, 127>>)}
    [] f.type \in Fixed   -> {[i \in 1..Bytes[f.type] |-> 200]}
    [] f.type = "STRING"  -> {Text(n) : n \in {1, m.room[f.name] - 1, m.room[f.name]}}
    [] f.type = "BYTES"   -> {Text(n) : n \in {1, m.room[f.name], m.room[f.name] + 1}}
    [] f.type = "MESSAGE" -> Samples(f.of)
Lists(m, f) ==
  IF f.label = "REPEATED"
    THEN {<<x>> : x \in SamplesOf(m, f)}
         \cup {[i \in 1..n |-> IF f.type = "MESSAGE" THEN Default(f.of) ELSE Digits(7)] :
                 n \in {m.room[f.name], m.room[f.name] + 1}}
    ELSE {<<x>> : x \in SamplesOf(m, f)}
Only(m, f, xs) == [n \in Names(m) |-> IF n = f.name THEN xs ELSE Default(m)[n]]
Samples(m) ==
  {Default(m), Most(m)} \cup UNION {{Only(m, f, xs) : xs \in Lists(m, f)} : f \in Fields(m)}

MCPrompts ==
  UNION {[type : {t}, transaction : {Zero}, value : Samples(Messages[PromptOf[t]])] :
           t \in DOMAIN PromptOf}
  \cup [type : {"PING"}, transaction : {Digits(1), Max32},
        value : {Default(PingRequest), Most(PingRequest)}]

-----------------------------------------------------------------------------
Reply(type, value) ==
  [type |-> type, objects |-> 0, remaining |-> 0, transaction |-> Max32, value |-> value]
Replies1(type, values) == {Reply(type, v) : v \in values}

\* What a field of an answer may be, the others being as their default.
With(m, changes) == changes @@ Default(m)

Infos ==
  {[parameter_infos |-> <<param_desc[i], param_desc[j]>>] : i, j \in DOMAIN param_desc}
  \cup {[parameter_infos |-> <<param_desc[i]>>] : i \in DOMAIN param_desc}
\* Each kind of value alone, and four of the longest.
Reads ==
  {With(ParameterReadResult, [read_timestamp |-> <<Max32>>, values |-> vs]) :
     vs \in {<<v>> : v \in {x \in Samples(ParameterValue) : HasRoom(ParameterValue, x)}}
            \cup {[i \in 1..4 |-> Most(ParameterValue)]}}
Pings ==
  {With(PingResponse, [echo_data |-> <<Text(n)>>, signal_strength |-> <<rssi>>]) :
     n \in {0, 1, 194}, rssi \in {Digits(127), Minus(1), Minus(128), Zero}}
\* Messages of a transfer are numbered up to its size in packets.
Packets ==
  {With(FileTransferData, [transfer_id |-> <<id>>, message_number |-> <<k>>,
                           message_data |-> <<Text(n)>>]) :
     id \in {Digits(1), Max32}, k \in {Digits(1), <<127, 127, 127, 127>>}, n \in {1, 193, 194}}
Results(m) ==
  {With(m, [result |-> <<code>>]) : code \in {Zero, Digits(3), Minus(1)}}

MCReplies ==
  Replies1("DISCOVER_PARAMETERS", Infos)
  \cup Replies1("DISCOVER_PARAM_EX", ToSet(param_ex_desc))
  \cup Replies1("READ_PARAMETERS", Reads)
  \cup Replies1("WRITE_PARAMETERS", Results(ParameterWriteResult))
  \cup Replies1("CONFIG_PARAM_NOTIFY", Results(ParameterNotifyConfigResponse))
  \cup Replies1("DISCOVER_FILES", {[file_infos |-> sFiles]})
  \cup Replies1("DISCOVER_COMMANDS", {[available_commands |-> sCommands]})
  \cup Replies1("SEND_COMMAND", Results(SendCommandResponse))
  \cup Replies1("GET_DEVICE_INFO", {DeviceInfo(n, Max32) : n \in {0, 16, 24, 30}})
  \cup Replies1("PING", Pings)
  \cup Replies1("TRANSFER_INIT",
         {With(FileTransferInitResponse, [transfer_id |-> <<Max32>>, preferred_ack_rate |-> <<Max32>>])})
  \cup Replies1("TRANSFER_DATA", Packets)
  \cup Replies1("TRANSFER_DATA_NOTIFICATION",
         {With(FileTransferDataNotification,
               [result |-> <<Digits(7)>>, error_message |-> <<Text(69)>>,
                transfer_id |-> <<Max32>>, retry_offset |-> <<Max32>>])})
  \cup Replies1("SET_TIME", Results(TimeSetResponse))
  \cup Replies1("GET_TIME",
         {With(TimeGetResponse, [seconds_utc |-> <<s>>, timezone |-> z]) :
            s \in {Zero, Max32, Minus(1)}, z \in {<< >>, <<Minus(18000)>>, <<Zero>>}})
  \cup {[Reply("DISCOVER_PARAMETERS", [parameter_infos |-> << >>])
           EXCEPT !.objects = n, !.remaining = 35 - n] : n \in {0, 2, 34}}

MCLines   == {1, 130, 184, 185, 186, 193, 400}
MCErrors  == [code : {Digits(2), Minus(1)}, length : {1, 192, 193, 194, 300}]
MCValues  == {v \in Samples(ParameterValue) : HasRoom(ParameterValue, v)}
MCGarbage == {Zero, Max32}
=============================================================================
