----------------------------- MODULE Structures -----------------------------
(***************************************************************************)
(* The C structures that nanopb decodes messages into and encodes them     *)
(* from, and the buffers of the stack they must fit: cr_test_sizes().      *)
(***************************************************************************)
EXTENDS MessagePath

\* The C structures: each member at a multiple of its alignment; a flag before
\* an optional member, a count before an array, the tag before a union.
RECURSIVE Alignment(_)
RECURSIVE StructSize(_)
RoundUp(n, a) == ((n + a - 1) \div a) * a
AlignmentOf(f) ==
  CASE f.type \in {"UINT32", "INT32", "SINT32", "FLOAT"}  -> 4
    [] f.type \in {"UINT64", "INT64", "SINT64", "DOUBLE"} -> 8
    [] f.type = "BYTES"   -> 2
    [] f.type = "MESSAGE" -> Alignment(f.of)
    [] f.type = "UENUM"   -> EnumBytes
    [] OTHER              -> 1
SizeOf(m, f) ==
  CASE f.type = "STRING"  -> m.room[f.name]
    [] f.type = "BYTES"   -> RoundUp(2 + m.room[f.name], 2)
    [] f.type = "MESSAGE" -> StructSize(f.of)
    [] f.type = "BOOL"    -> 1
    [] OTHER              -> AlignmentOf(f)
Alignment(m) ==
  Max({1} \cup {AlignmentOf(f) : f \in Fields(m)}
          \cup {2 : f \in {g \in Fields(m) : g.label \in {"REPEATED", "ONEOF"}}})
Placed(m, offset, f) ==
  LET flag  == CASE f.label = "OPTIONAL" -> offset + 1
                 [] f.label = "REPEATED" -> RoundUp(offset, 2) + 2
                 [] OTHER                -> offset
      many  == IF f.label = "REPEATED" THEN m.room[f.name] ELSE 1
  IN  RoundUp(flag, AlignmentOf(f)) + many * SizeOf(m, f)
Union(m, offset) ==
  LET members == {f \in Fields(m) : f.label = "ONEOF"}
      a       == Max({AlignmentOf(f) : f \in members})
  IN  RoundUp(RoundUp(offset, 2) + 2, a) + RoundUp(Max({SizeOf(m, f) : f \in members}), a)
StructSize(m) ==
  LET plain == SelectSeq(m.fields, LAMBDA f : f.label # "ONEOF")
      end   == FoldLeft(LAMBDA offset, f : Placed(m, offset, f), 0, plain)
  IN  IF m.fields = << >> THEN 1
      ELSE RoundUp(IF Len(plain) = Len(m.fields) THEN end ELSE Union(m, end), Alignment(m))

\* Prompts are decoded over the buffer they arrived in, answers are composed in
\* one of 240 bytes: the structures fit, but for that of two descriptions of
\* parameters, which takes 280 (with enumerations of one byte, as the target's
\* compiler has them) and is not among those that cr_test_sizes() tries.
ASSUME StructuresFit ==
  /\ \A t \in DOMAIN PromptOf : StructSize(Messages[PromptOf[t]]) <= CR_CODED_BUFFER_SIZE
  /\ \A t \in DOMAIN ReplyOf \ {"DISCOVER_PARAMETERS"} :
       StructSize(Messages[ReplyOf[t]]) <= UNCODED_PAYLOAD_SIZE
  /\ StructSize(ParameterInfoResponse) = 280
=============================================================================
