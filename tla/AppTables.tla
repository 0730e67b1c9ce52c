------------------------------ MODULE AppTables ------------------------------
(***************************************************************************)
(* The constant tables of the application in src/App, as the messages that *)
(* carry them.  Of a text only the length matters to a message, of a range *)
(* or a default only whether it is there: a DOUBLE takes its eight bytes   *)
(* whatever its value.                                                     *)
(***************************************************************************)
EXTENDS ReachProto

Text(n) == [i \in 1..n |-> 65]

\* The codes of the enumerations.
DataType ==
  [UINT32 |-> 0, INT32 |-> 1, FLOAT32 |-> 2, UINT64 |-> 3, INT64 |-> 4, FLOAT64 |-> 5,
   BOOL |-> 6, STRING |-> 7, ENUMERATION |-> 8, BIT_FIELD |-> 9, BYTE_ARRAY |-> 10]
AccessLevel     == [READ |-> 1, WRITE |-> 2, READ_WRITE |-> 3]
StorageLocation == [RAM |-> 1, NONVOLATILE |-> 2, RAM_EXTENDED |-> 3]

-----------------------------------------------------------------------------
(* App/params.c: the descriptions of the parameters.                        *)

Real    == [i \in 1..8 |-> 64]
Bounded == {"range_min", "range_max"}
Preset  == {"default_value"}

Row(id, type, size, name, access, description, units, numbers, storage) ==
  [ id |-> <<Digits(id)>>, data_type |-> <<Digits(DataType[type])>>,
    size_in_bytes |-> <<Digits(size)>>, name |-> <<Text(name)>>,
    access |-> <<Digits(AccessLevel[access])>>,
    description |-> [i \in DOMAIN description |-> Text(description[i])],
    units |-> <<Text(units)>>, storage_location |-> <<Digits(StorageLocation[storage])>> ]
  @@ [n \in Bounded \cup Preset |-> IF n \in numbers THEN <<Real>> ELSE << >>]

param_desc_0to6 ==
  << Row(1, "UINT32", 0, 15, "READ_WRITE", <<26>>, 12, Bounded \cup Preset, "RAM"),
     Row(3, "INT32", 0, 10, "READ_WRITE", <<18>>, 2, Bounded \cup Preset, "RAM_EXTENDED"),
     Row(5, "FLOAT32", 0, 7, "READ_WRITE", <<7>>, 1, Bounded \cup Preset, "NONVOLATILE"),
     Row(7, "UINT64", 0, 16, "READ_WRITE", <<24>>, 13, Bounded \cup Preset, "NONVOLATILE"),
     Row(9, "INT64", 0, 15, "READ_WRITE", <<9>>, 11, Bounded \cup Preset, "RAM"),
     Row(11, "FLOAT64", 0, 12, "READ_WRITE", <<7>>, 8, Bounded \cup Preset, "RAM"),
     Row(13, "BOOL", 0, 10, "READ_WRITE", <<9>>, 5, Preset, "RAM") >>

param_desc_7to14 ==
  << Row(15, "STRING", 0, 13, "READ_WRITE", <<11>>, 5, {}, "NONVOLATILE"),
     Row(17, "ENUMERATION", 0, 11, "READ_WRITE", <<4>>, 4, Preset, "NONVOLATILE"),
     Row(19, "BIT_FIELD", 0, 15, "READ_WRITE", <<18>>, 4, Preset, "NONVOLATILE"),
     Row(21, "BYTE_ARRAY", 0, 12, "READ_WRITE", <<14>>, 4, {}, "NONVOLATILE"),
     Row(23, "STRING", 32, 15, "READ", <<15>>, 7, {}, "RAM"),
     Row(25, "UINT32", 4, 18, "READ", <<22>>, 7, {}, "NONVOLATILE"),
     Row(27, "UINT64", 0, 10, "WRITE", <<22>>, 7, Bounded \cup Preset, "NONVOLATILE"),
     Row(29, "INT64", 0, 9, "READ_WRITE", <<14>>, 14, Bounded \cup Preset, "RAM") >>

param_desc_15to22 ==
  << Row(31, "INT32", 0, 9, "READ", <<16>>, 10, Bounded \cup Preset, "RAM_EXTENDED"),
     Row(33, "INT32", 0, 9, "READ_WRITE", <<6>>, 10, {"range_max"} \cup Preset, "RAM"),
     Row(35, "INT32", 0, 9, "READ_WRITE", <<6>>, 10, {"range_min"}, "RAM"),
     Row(37, "INT32", 0, 3, "READ_WRITE", <<8>>, 10, Bounded, "RAM"),
     Row(39, "INT32", 0, 11, "READ", << >>, 10, Bounded, "RAM"),
     Row(41, "INT32", 0, 3, "READ", <<13>>, 10, Bounded, "RAM"),
     Row(43, "INT32", 0, 3, "READ", <<13>>, 10, Bounded, "RAM"),
     Row(45, "INT32", 0, 13, "READ_WRITE", << >>, 10, {}, "RAM") >>

param_desc_23to30 ==
  << Row(47, "INT32", 0, 14, "READ", <<13>>, 10, Bounded, "RAM"),
     Row(49, "INT32", 0, 14, "READ", <<16>>, 10, Bounded, "RAM"),
     Row(51, "INT32", 0, 3, "READ", <<13>>, 10, Bounded \cup Preset, "RAM"),
     Row(53, "INT32", 0, 3, "READ", <<13>>, 10, Bounded \cup Preset, "RAM"),
     Row(55, "INT32", 0, 3, "READ", <<13>>, 10, Bounded \cup Preset, "RAM"),
     Row(57, "INT32", 0, 3, "READ", <<13>>, 10, Bounded \cup Preset, "RAM"),
     Row(59, "INT32", 0, 3, "READ", <<13>>, 10, Bounded \cup Preset, "RAM"),
     Row(61, "INT32", 0, 3, "READ_WRITE", <<14>>, 10, Bounded \cup Preset, "RAM") >>

param_desc_31to34 ==
  << Row(63, "INT32", 0, 3, "READ_WRITE", <<14>>, 10, Bounded \cup Preset, "RAM"),
     Row(65, "INT32", 0, 3, "READ_WRITE", <<14>>, 10, Bounded \cup Preset, "RAM"),
     Row(67, "INT32", 0, 3, "READ", <<13>>, 10, Bounded \cup Preset, "RAM"),
     Row(69, "INT32", 0, 3, "READ_WRITE", <<12>>, 12, Preset, "RAM") >>

param_desc ==
  param_desc_0to6 \o param_desc_7to14 \o param_desc_15to22 \o param_desc_23to30
  \o param_desc_31to34

\* The names of the values of an enumeration, or of the bits of a bit field.
Labels(pid, type, keys) ==
  [ associated_pid |-> <<Digits(pid)>>, data_type |-> <<Digits(DataType[type])>>,
    enumerations |->
      [i \in DOMAIN keys |-> [id |-> <<Digits(keys[i][1])>>, name |-> <<Text(keys[i][2])>>]] ]

param_ex_desc ==
  << Labels(17, "ENUMERATION", <<<<1, 3>>, <<2, 3>>, <<3, 5>>, <<4, 4>>, <<5, 4>>, <<6, 3>>,
                                 <<7, 5>>, <<8, 5>>>>),
     Labels(17, "ENUMERATION", <<<<9, 4>>, <<10, 3>>, <<11, 6>>, <<12, 6>>, <<13, 8>>,
                                 <<14, 8>>>>),
     Labels(19, "BIT_FIELD", <<<<1, 3>>, <<2, 3>>, <<4, 4>>, <<8, 5>>, <<16, 7>>, <<32, 10>>,
                               <<64, 10>>, <<128, 14>>>>),
     Labels(19, "BIT_FIELD", <<<<256, 4>>, <<512, 4>>, <<1024, 5>>, <<2048, 5>>, <<4096, 5>>,
                               <<8192, 5>>>>) >>

-----------------------------------------------------------------------------
(* The files, the commands and the device.                                  *)

File(id, name, access, size, storage) ==
  [ file_id |-> <<Digits(id)>>, file_name |-> <<Text(name)>>,
    access |-> <<Digits(AccessLevel[access])>>, current_size_bytes |-> <<Digits(size)>>,
    storage_location |-> <<Digits(StorageLocation[storage])>> ]
sFiles ==
  << File(0, 12, "READ", 4000, "RAM"), File(1, 7, "READ_WRITE", 50000, "NONVOLATILE") >>

Command(id, name) == [id |-> <<Digits(id)>>, name |-> <<Text(name)>>]
sCommands ==
  << Command(1, 17), Command(2, 18), Command(3, 23), Command(4, 21), Command(10, 13) >>

\* The services compiled in: parameters, files, commands, command line, time.
Services == 1 + 2 + 8 + 16 + 32
CURRENT_VERSION == 12

\* The advertised name cut to the room it has; hash: any 32 bits.
DeviceInfo(advertised, hash) ==
  [ protocol_version |-> <<Digits(CURRENT_VERSION)>>,
    device_name |-> <<Text(Min({advertised, Room_device.DeviceInfoResponse.device_name - 1}))>>,
    manufacturer |-> <<Text(22)>>, device_description |-> <<Text(40)>>,
    firmware_version |-> <<Text(5)>>, services |-> <<Digits(Services)>>,
    parameter_metadata_hash |-> <<hash>>, application_identifier |-> << >>,
    endpoints |-> <<Zero>>, sizes_struct |-> <<[i \in 1..16 |-> 8]>> ]
=============================================================================
