------------------------------- MODULE Coding -------------------------------
(***************************************************************************)
(* Encoding and decoding of messages by their descriptors, as pb_encode()  *)
(* and pb_decode() do it.                                                  *)
(*                                                                         *)
(* A message m has fields, in the order of their tags, and room: for every *)
(* string, byte array and repeated field, the size the C structure gives   *)
(* it.  A value of m maps the name of each field to the sequence of its    *)
(* values: one for a SINGULAR field, at most one for an OPTIONAL field or  *)
(* a member of a ONEOF, any number that has room for a REPEATED field.     *)
(*                                                                         *)
(* The protocol nests messages once: the fields of a flat message are no   *)
(* messages, and those of any other are scalars or flat messages.  What    *)
(* the coders do with a field is the same at both levels; what they do     *)
(* with one value of it, Value, is given to them.                          *)
(***************************************************************************)
EXTENDS Wire

One(name, type, tag) == [label |-> "SINGULAR", type |-> type, name |-> name, tag |-> tag]
Opt(name, type, tag) == [label |-> "OPTIONAL", type |-> type, name |-> name, tag |-> tag]
Rep(name, type, tag) == [label |-> "REPEATED", type |-> type, name |-> name, tag |-> tag]
Alt(name, type, tag) == [label |-> "ONEOF", type |-> type, name |-> name, tag |-> tag]

\* A field that is a message itself.
OptSub(name, sub, tag) ==
  [label |-> "OPTIONAL", type |-> "MESSAGE", name |-> name, tag |-> tag, of |-> sub]
RepSub(name, sub, tag) ==
  [label |-> "REPEATED", type |-> "MESSAGE", name |-> name, tag |-> tag, of |-> sub]

Message(fields, room) == [fields |-> fields, room |-> room]
Fields(m)        == ToSet(m.fields)
Names(m)         == {f.name : f \in Fields(m)}
FieldsOf(m, tag) == {f \in Fields(m) : f.tag = tag}

EnumBytes == 1   \* sizeof of an enumeration: as few bytes as its values need
Bytes == [UINT32 |-> 4, UINT64 |-> 8, UENUM |-> EnumBytes, FLOAT |-> 4, DOUBLE |-> 8]
Unsigned == {"UINT32", "UINT64", "UENUM"}
Signed   == {"INT32", "INT64"}
ZigZags  == {"SINT32", "SINT64"}
Fixed    == {"FLOAT", "DOUBLE"}
Delimited == {"STRING", "BYTES", "MESSAGE"}
Packable(f) == f.type \notin Delimited

WireTypeOf(f) == CASE f.type \in Delimited -> WT_STRING
                   [] f.type = "FLOAT"     -> WT_32BIT
                   [] f.type = "DOUBLE"    -> WT_64BIT
                   [] OTHER                -> WT_VARINT

DefaultOf(f) == IF f.type \in Fixed THEN [i \in 1..Bytes[f.type] |-> 0] ELSE Zero
Default(m) ==
  [n \in Names(m) |->
     LET f == CHOOSE f \in Fields(m) : f.name = n
     IN  IF f.label = "SINGULAR" THEN <<DefaultOf(f)>> ELSE << >>]

-----------------------------------------------------------------------------
(* Values.                                                                 *)

True == Digits(1)

Scalar(f, x) ==
  CASE f.type \in Unsigned           -> Pattern(x) /\ Fits(x, Bytes[f.type])
    [] f.type = "BOOL"               -> x \in {Zero, True}
    [] f.type \in {"INT32", "SINT32"} -> Pattern(x) /\ x = Int32(x)
    [] f.type \in {"INT64", "SINT64"} -> Pattern(x)
    [] f.type \in Fixed              -> x \in [1..Bytes[f.type] -> Byte]
    [] f.type = "STRING"             -> x \in Seq(Byte \ {0})
    [] f.type = "BYTES"              -> x \in Seq(Byte)

\* As many values as the label of a field allows; of a ONEOF one member.
AsLabelled(m, v) ==
  /\ v = [n \in Names(m) |-> v[n]]
  /\ \A f \in Fields(m) : /\ f.label = "SINGULAR" => Len(v[f.name]) = 1
                          /\ f.label \in {"OPTIONAL", "ONEOF"} => Len(v[f.name]) <= 1
  /\ \A f, g \in Fields(m) :
        f.label = "ONEOF" /\ g.label = "ONEOF" /\ f # g => v[f.name] = << >> \/ v[g.name] = << >>

Sequence(xs) == xs \in Seq(ToSet(xs))

ValuesOf(Value(_, _), m, v) ==
  /\ AsLabelled(m, v)
  /\ \A f \in Fields(m) :
       Sequence(v[f.name]) /\ \A i \in DOMAIN v[f.name] : Value(f, v[f.name][i])

FlatValue(m, v) == ValuesOf(Scalar, m, v)
IsValue(m, v) ==
  ValuesOf(LAMBDA f, x : IF f.type = "MESSAGE" THEN FlatValue(f.of, x) ELSE Scalar(f, x), m, v)

\* Mutant: bytes are encoded without a look at the room for them.
ValueHasRoom_AnyBytes(m, f, x) == f.type = "STRING" => Len(x) < m.room[f.name]

\* What the encoder refuses: arrays that are too long, strings without room
\* for their end.
ValueHasRoom(m, f, x) ==
  CASE f.type = "STRING" -> Len(x) < m.room[f.name]
    [] f.type = "BYTES"  -> Len(x) <= m.room[f.name]
    [] OTHER             -> TRUE
FieldHasRoom(m, f, xs) ==
  /\ f.label = "REPEATED" => Len(xs) <= m.room[f.name]
  /\ \A i \in DOMAIN xs : ValueHasRoom(m, f, xs[i])
FlatHasRoom(m, v) == \A f \in Fields(m) : FieldHasRoom(m, f, v[f.name])
HasRoom(m, v) ==
  /\ FlatHasRoom(m, v)
  /\ \A f \in Fields(m) :
       f.type = "MESSAGE" => \A i \in DOMAIN v[f.name] : FlatHasRoom(f.of, v[f.name][i])

-----------------------------------------------------------------------------
(* Encoding.                                                               *)

EncodeScalar(f, x) ==
  CASE f.type \in Unsigned \cup Signed \cup {"BOOL"} -> Varint(x)
    [] f.type \in ZigZags             -> SVarint(x)
    [] f.type \in Fixed               -> x
    [] f.type \in {"STRING", "BYTES"} -> Sized(x)

EncodeItem(f, bytes) == Tag(f.tag, WireTypeOf(f)) \o bytes
EncodeEach(Value(_, _), f, xs) ==
  FlattenSeq([i \in DOMAIN xs |-> EncodeItem(f, Value(f, xs[i]))])

EncodePacked(f, xs) ==
  Tag(f.tag, WT_STRING) \o Sized(FlattenSeq([i \in DOMAIN xs |-> EncodeScalar(f, xs[i])]))

\* In proto3 a singular field that has its default value is not written.
IsDefault(f, xs) == f.label = "SINGULAR" /\ xs = <<DefaultOf(f)>>

LeftOut(f, xs) == xs = << >> \/ IsDefault(f, xs)

EncodeField(Value(_, _), f, xs) ==
  IF LeftOut(f, xs)                           THEN << >>
  ELSE IF f.label = "REPEATED" /\ Packable(f) THEN EncodePacked(f, xs)
  ELSE EncodeEach(Value, f, xs)

EncodeFields(Value(_, _), m, v) ==
  FlattenSeq([i \in DOMAIN m.fields |-> EncodeField(Value, m.fields[i], v[m.fields[i].name])])

EncodeFlat(m, v) == EncodeFields(EncodeScalar, m, v)
EncodeValue(f, x) ==
  IF f.type = "MESSAGE" THEN Sized(EncodeFlat(f.of, x)) ELSE EncodeScalar(f, x)
Encode(m, v) == EncodeFields(EncodeValue, m, v)

\* Into a buffer of so many bytes.
EncodeInto(size, m, v) ==
  IF HasRoom(m, v) /\ Len(Encode(m, v)) <= size
    THEN [ok |-> TRUE, bytes |-> Encode(m, v)]
    ELSE [ok |-> FALSE, bytes |-> << >>]

-----------------------------------------------------------------------------
(* Decoding: reads the value of a field, or a message, from a stream.      *)

WT_PACKED == 255
RightWireType(f, wireType) ==
  wireType = WireTypeOf(f) \/ (wireType = WT_PACKED /\ Packable(f))

\* Steps until nothing is left of the stream, of which each takes some.
UntilEnd(Step(_, _), v, stream) ==
  LET after[n \in 0..Len(stream)] ==
        IF n = 0 THEN Read(v, stream)
        ELSE LET last == after[n - 1]
             IN  IF last.rest = << >> THEN last ELSE Step(last.value, last.rest)
  IN  after[CHOOSE n \in 0..Len(stream) : after[n].rest = << >>]

ReadBool(stream) ==
  Then(ReadVarint32(stream), LAMBDA d, rest : Read(IF d = Zero THEN Zero ELSE True, rest))
ReadUnsigned(f, stream) ==
  Then(ReadVarint(stream), LAMBDA d, rest : ReadIf(Fits(d, Bytes[f.type]), d, rest))
\* A 32-bit field takes the low 32 bits of whatever comes.
ReadSigned(f, stream) ==
  Then(ReadVarint(stream), LAMBDA d, rest :
         Read(IF f.type = "INT32" THEN Int32(d) ELSE d, rest))
ReadZigZag(f, stream) ==
  Then(ReadSVarint(stream), LAMBDA d, rest :
         ReadIf(f.type = "SINT32" => d = Int32(d), d, rest))

\* Mutant: bytes are copied without a look at the room for them.
ReadBytes_Any(m, f, stream) == ReadSized(stream)

ReadBytes(m, f, stream) ==
  Then(ReadSized(stream), LAMBDA bytes, rest :
         ReadIf(Len(bytes) <= m.room[f.name], bytes, rest))
\* What a C program sees of a string ends at its first zero.
Seen(bytes) ==
  LET zeros == {i \in DOMAIN bytes : bytes[i] = 0}
  IN  IF zeros = {} THEN bytes ELSE SubSeq(bytes, 1, Min(zeros) - 1)
ReadString(m, f, stream) ==
  Then(ReadSized(stream), LAMBDA bytes, rest :
         ReadIf(Len(bytes) + 1 <= m.room[f.name], Seen(bytes), rest))

ReadScalar(m, f, old, wireType, stream) ==
  IF ~RightWireType(f, wireType) THEN NotRead
  ELSE CASE f.type = "BOOL"        -> ReadBool(stream)
         [] f.type \in Unsigned    -> ReadUnsigned(f, stream)
         [] f.type \in Signed      -> ReadSigned(f, stream)
         [] f.type \in ZigZags     -> ReadZigZag(f, stream)
         [] f.type \in Fixed       -> Take(stream, Bytes[f.type])
         [] f.type = "BYTES"       -> ReadBytes(m, f, stream)
         [] f.type = "STRING"      -> ReadString(m, f, stream)

Full(m, f, xs) == Len(xs) >= m.room[f.name]

ReadPacked(m, f, xs, stream) ==
  UntilEnd(LAMBDA ys, left :
             IF Full(m, f, ys) THEN NotRead
             ELSE Then(ReadScalar(m, f, Zero, WT_PACKED, left), LAMBDA x, rest :
                         Read(Append(ys, x), rest)),
           xs, stream)

ReadArray(Value(_, _, _, _, _), m, f, xs, wireType, stream) ==
  IF wireType = WT_STRING /\ Packable(f)
    THEN Then(ReadSized(stream), LAMBDA bytes, rest :
                Then(ReadPacked(m, f, xs, bytes), LAMBDA all, none : Read(all, rest)))
    ELSE LET fresh == IF f.type = "MESSAGE" THEN Default(f.of) ELSE Zero
         IN  Then(Value(m, f, fresh, wireType, stream), LAMBDA x, rest :
                    ReadIf(~Full(m, f, xs), Append(xs, x), rest))

\* A message is read over what its field holds already.
Held(f, xs) == IF f.type # "MESSAGE" THEN Zero
               ELSE IF xs = << >> THEN Default(f.of) ELSE xs[1]
ReadOne(Value(_, _, _, _, _), m, f, xs, wireType, stream) ==
  Then(Value(m, f, Held(f, xs), wireType, stream), LAMBDA x, rest : Read(<<x>>, rest))

\* The value v with field f set; of a ONEOF one member stays.
Set(m, v, f, xs) ==
  [n \in Names(m) |->
     IF n = f.name THEN xs
     ELSE IF f.label = "ONEOF" /\ \E g \in Fields(m) : g.name = n /\ g.label = "ONEOF"
       THEN << >>
     ELSE v[n]]

ReadField(Value(_, _, _, _, _), m, v, f, wireType, stream) ==
  Then(IF f.label = "REPEATED" THEN ReadArray(Value, m, f, v[f.name], wireType, stream)
                               ELSE ReadOne(Value, m, f, v[f.name], wireType, stream),
       LAMBDA xs, rest : Read(Set(m, v, f, xs), rest))

DecodeNext(Value(_, _, _, _, _), m, v, tag, stream) ==
  CASE tag.number = 0                -> NotRead
    [] tag.number # 0 /\ FieldsOf(m, tag.number) = {} ->
         Then(Skip(stream, tag.wireType), LAMBDA x, rest : Read(v, rest))
    [] OTHER ->
         ReadField(Value, m, v, CHOOSE f \in FieldsOf(m, tag.number) : TRUE, tag.wireType, stream)

DecodeFields(Value(_, _, _, _, _), m, v, stream) ==
  UntilEnd(LAMBDA w, left :
             Then(ReadTag(left), LAMBDA tag, rest : DecodeNext(Value, m, w, tag, rest)),
           v, stream)

DecodeFlat(m, v, stream) == DecodeFields(ReadScalar, m, v, stream)

ReadMessage(f, old, stream) ==
  Then(ReadSized(stream), LAMBDA bytes, rest :
         Then(DecodeFlat(f.of, old, bytes), LAMBDA v, none : Read(v, rest)))
ReadValue(m, f, old, wireType, stream) ==
  IF f.type # "MESSAGE"      THEN ReadScalar(m, f, old, wireType, stream)
  ELSE IF wireType # WT_STRING THEN NotRead
  ELSE ReadMessage(f, old, stream)

DecodeOnto(m, v, stream) == DecodeFields(ReadValue, m, v, stream)
Decode(m, stream) == DecodeOnto(m, Default(m), stream)
=============================================================================
