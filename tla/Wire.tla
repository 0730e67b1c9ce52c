-------------------------------- MODULE Wire --------------------------------
(***************************************************************************)
(* The wire format of src/reach_proto/ansic/nanopb: integers as varints,   *)
(* tags, and how much of a stream each of them takes.                      *)
(*                                                                         *)
(* A stream is the sequence of the bytes that are left of it.  An integer  *)
(* is its 64-bit two's complement pattern, written in base 128, least      *)
(* significant digit first and without leading zeros: exactly the groups   *)
(* of seven bits that a varint carries, so that the widths of the code, 32 *)
(* and 64 bits, are the widths of the model.                               *)
(***************************************************************************)
EXTENDS Integers, Sequences, FiniteSetsExt, SequencesExt

Zero   == << >>
Septet == 0..127

\* The digit of weight 128^(i - 1); a pattern has ten, the tenth of one bit.
Digit(d, i) == IF i \in DOMAIN d THEN d[i] ELSE 0
Places      == 1..10
Top(i)      == IF i = 10 THEN 2 ELSE 128

\* Without leading zeros, and within 64 bits.
Pattern(d) ==
  /\ d \in Seq(Septet)
  /\ Len(d) <= 10
  /\ d # Zero => d[Len(d)] # 0
  /\ Digit(d, 10) <= 1

Trimmed(d) ==
  LET used == {i \in DOMAIN d : d[i] # 0}
  IN  IF used = {} THEN Zero ELSE SubSeq(d, 1, Max(used))

\* A number below 2^28.
Weight == <<1, 128, (128 * 128), (128 * 128 * 128)>>
Digits(n) == Trimmed([i \in 1..4 |-> (n \div Weight[i]) % 128])

\* As a natural number; Huge stands for every number that is longer than any
\* buffer and larger than any tag.
Huge == 128 * 128 * 128
AsNat(d) == IF Len(d) > 3 THEN Huge
                          ELSE Digit(d, 1) + 128 * Digit(d, 2) + (128 * 128) * Digit(d, 3)

Complement(d) == Trimmed([i \in Places |-> Top(i) - 1 - Digit(d, i)])
Doubled(d) ==
  Trimmed([i \in Places |-> (2 * Digit(d, i) + Digit(d, i - 1) \div 64) % Top(i)])
Halved(d) == Trimmed([i \in Places |-> Digit(d, i) \div 2 + 64 * (Digit(d, i + 1) % 2)])

\* The pattern of -n, for n >= 1, and the sign of a pattern.
Minus(n)    == Complement(Digits(n - 1))
Negative(d) == Digit(d, 10) = 1

\* The low 32 bits, and those bits read as an int32_t and extended to 64.
Low32(d) == Trimmed([i \in 1..5 |-> IF i = 5 THEN Digit(d, 5) % 16 ELSE Digit(d, i)])
Int32(d) ==
  IF Digit(Low32(d), 5) < 8 THEN Low32(d)
  ELSE [i \in Places |-> CASE i < 5  -> Digit(d, i)
                           [] i = 5  -> 112 + (Digit(d, 5) % 16)
                           [] i = 10 -> 1
                           [] OTHER  -> 127]

\* Whether a pattern is that of an unsigned integer of so many bytes.
Fits(d, bytes) == CASE bytes = 1 -> AsNat(d) < 256
                    [] bytes = 4 -> d = Low32(d)
                    [] OTHER     -> TRUE

-----------------------------------------------------------------------------
(* Writing.                                                                *)

Varint(d) ==
  IF d = Zero THEN <<0>>
  ELSE [i \in DOMAIN d |-> IF i = Len(d) THEN d[i] ELSE 128 + d[i]]

ZigZag(d) == IF Negative(d) THEN Complement(Doubled(d)) ELSE Doubled(d)
SVarint(d) == Varint(ZigZag(d))

\* Wire types.
WT_VARINT == 0
WT_64BIT == 1
WT_STRING == 2
WT_32BIT == 5

Tag(number, wireType) == Varint(Digits(8 * number + wireType))
Sized(bytes) == Varint(Digits(Len(bytes))) \o bytes

-----------------------------------------------------------------------------
(* Reading: what was read, and the rest of the stream.                     *)

Byte == 0..255

Read(value, rest) == [ok |-> TRUE, value |-> value, rest |-> rest]
NotRead           == [ok |-> FALSE, value |-> Zero, rest |-> Zero]
ReadIf(condition, value, rest) == IF condition THEN Read(value, rest) ELSE NotRead
\* What follows of what was read, if it was.
Then(r, Continue(_, _)) == IF r.ok THEN Continue(r.value, r.rest) ELSE NotRead

Rest(stream, n) == SubSeq(stream, n + 1, Len(stream))
\* Mutant: a stream that ends too soon gives what it has.
Take_Short(stream, n) == Read(SubSeq(stream, 1, Min({n, Len(stream)})), Rest(stream, n))

Take(stream, n) == IF n > Len(stream) THEN NotRead
                                      ELSE Read(SubSeq(stream, 1, n), Rest(stream, n))

\* The length of the varint at the head of a stream; 0 when it has no end.
Extent(stream) ==
  LET last == {i \in DOMAIN stream : stream[i] < 128}
  IN  IF last = {} THEN 0 ELSE Min(last)

Groups(stream, n) == [i \in 1..n |-> stream[i] % 128]

ReadVarint(stream) ==
  LET n == Extent(stream)
  IN  IF n \in Places /\ (n = 10 => stream[10] \in {0, 1})
        THEN Read(Trimmed(Groups(stream, n)), Rest(stream, n))
        ELSE NotRead

\* Five bytes make 32 bits.  Bytes after the fifth must be the extension of
\* the sign, or zeros; of the fifth, the bits above the 32nd must be alike.
Extends(stream, i) ==
  LET negative == (stream[5] % 16) >= 8
      sign     == IF i < 10 THEN 255 ELSE 1
  IN  stream[i] % 128 = 0 \/ (negative /\ stream[i] = sign)
FifthIsSound(byte) == (byte % 128) \div 16 = 0 \/ (byte % 128) \div 8 = 15

ReadVarint32(stream) ==
  LET n == Extent(stream)
  IN  IF /\ n \in Places
         /\ n >= 5 => FifthIsSound(stream[5])
         /\ \A i \in 6..n : Extends(stream, i)
        THEN Read(Low32(Groups(stream, n)), Rest(stream, n))
        ELSE NotRead

ReadSVarint(stream) ==
  Then(ReadVarint(stream), LAMBDA d, rest :
         Read(IF Digit(d, 1) % 2 = 1 THEN Complement(Halved(d)) ELSE Halved(d), rest))

ReadTag(stream) ==
  Then(ReadVarint32(stream), LAMBDA d, rest :
         Read([number |-> AsNat(d) \div 8, wireType |-> Digit(d, 1) % 8], rest))

\* A length and as many bytes.
ReadSized(stream) ==
  Then(ReadVarint32(stream), LAMBDA length, rest : Take(rest, AsNat(length)))

SkipVarint(stream) ==
  IF Extent(stream) = 0 THEN NotRead ELSE Read(Zero, Rest(stream, Extent(stream)))

\* Mutant: of a string that is skipped, the length is.
Skip_Length(stream, wireType) ==
  CASE wireType \in {WT_VARINT, WT_STRING} -> SkipVarint(stream)
    [] wireType = WT_64BIT -> Take(stream, 8)
    [] wireType = WT_32BIT -> Take(stream, 4)
    [] OTHER             -> NotRead

Skip(stream, wireType) ==
  CASE wireType = WT_VARINT -> SkipVarint(stream)
    [] wireType = WT_64BIT -> Take(stream, 8)
    [] wireType = WT_STRING -> ReadSized(stream)
    [] wireType = WT_32BIT -> Take(stream, 4)
    [] OTHER             -> NotRead
=============================================================================
