--------------------------- MODULE ParamServiceProofs ---------------------------
(***************************************************************************)
(* The listings of the parameter service, for tables, requests and replies *)
(* of any size: the client is given what it asked for, in order and all of *)
(* it, every message tells exactly what is left, and the stack never looks *)
(* beyond its array of ids.                                                *)
(*                                                                         *)
(* The argument: while a listing goes on, what the client got is the part  *)
(* of its request, or of the table, before the cursor, and the count of    *)
(* what remains is the length of the part after it (AllSound, NamedSound). *)
(* The index is a multiple of what fits one reply, as the array's length   *)
(* is, and that keeps a whole reply inside the array.                      *)
(***************************************************************************)
EXTENDS ParamService, SequenceTheorems, FiniteSetTheorems, WellFoundedInduction, TLAPS

-------------------------------------------------------------------------------
(* Facts about the constants *)

LEMMA Constants ==
  /\ DescPerReply \in Nat /\ DescPerReply > 0
  /\ ValuesPerReply \in Nat /\ ValuesPerReply > 0
  /\ BufferCount \in Nat
  /\ DescPerReply < BufferCount /\ ValuesPerReply < BufferCount
  /\ Params \in Seq(Known) /\ Extended \in Seq(Known)
  /\ Len(Params) \in Nat /\ Len(Params) > DescPerReply
  /\ Len(Extended) \in Nat
  /\ All \notin Known
<1>1. Params \in Seq(Known) /\ Extended \in Seq(Known) /\ All \notin Known
  BY TableAssumption
<1>2. Len(Params) \in Nat /\ Len(Extended) \in Nat
  BY <1>1
<1> QED
  BY <1>1, <1>2, SizesAssumption

LEMMA KnownIds ==
  /\ Known \subseteq Ids
  /\ Params \in Seq(Ids) /\ Extended \in Seq(Ids)
  /\ \A i \in 1..Len(Params) : Params[i] \in Known
  /\ \A i \in 1..Len(Extended) : Extended[i] \in Known
<1>1. Known \subseteq Ids
  BY DEF Ids
<1> QED
  BY <1>1, Constants, SeqMonotonic, ElementOfSeq

LEMMA RequestFacts ==
  ASSUME NEW ids \in Requests
  PROVE  /\ ids \in Seq(Ids) /\ Len(ids) \in Nat /\ Len(ids) <= BufferCount
         /\ ids # <<>> => Len(ids) > 0
<1>1. ids \in Seq(Ids) /\ Len(ids) <= BufferCount
  BY RequestsAssumption
<1> QED
  BY <1>1

LEMMA EntryFacts == \A id : Entry(id) \in 1..Len(Params)
<1>1. TAKE id
<1>2. CASE id \in Known
  <2>1. \E i \in DOMAIN Params : Params[i] = id
    BY <1>2 DEF Known
  <2>2. DOMAIN Params = 1..Len(Params)
    BY Constants
  <2> QED
    BY <1>2, <2>1, <2>2 DEF Entry
<1>3. CASE id \notin Known
  BY <1>3, Constants DEF Entry
<1> QED
  BY <1>2, <1>3

-------------------------------------------------------------------------------
(* Parts of sequences *)

Until(s, from, n) == IF from + n < Len(s) THEN from + n ELSE Len(s)

LEMMA ChunkFacts ==
  ASSUME NEW S, NEW s \in Seq(S), NEW from \in 0..Len(s), NEW n \in Nat, n > 0
  PROVE  /\ Until(s, from, n) \in from..Len(s)
         /\ Chunk(s, from, n) \in Seq(S)
         /\ Len(Chunk(s, from, n)) = Until(s, from, n) - from
         /\ Len(Chunk(s, from, n)) <= n
         /\ Len(Chunk(s, from, n)) < n => Until(s, from, n) = Len(s)
         /\ Chunk(s, from, n) = <<>> <=> from = Len(s)
         /\ SubSeq(s, 1, from) \o Chunk(s, from, n) = SubSeq(s, 1, Until(s, from, n))
<1>1. Len(s) \in Nat
  OBVIOUS
<1>2. PICK to : to = Until(s, from, n)
  OBVIOUS
<1>3. /\ to \in from..Len(s) /\ to - from <= n /\ to \in Nat /\ from \in Nat
      /\ to - from < n => to = Len(s)
      /\ to = from <=> from = Len(s)
  BY <1>1, <1>2 DEF Until
<1>4. Chunk(s, from, n) = SubSeq(s, from + 1, to)
  BY <1>2 DEF Chunk, Until
<1>5. \A i \in (from + 1)..to : s[i] \in S
  BY <1>1, <1>3, ElementOfSeq
<1>6. /\ SubSeq(s, from + 1, to) \in Seq(S)
      /\ Len(SubSeq(s, from + 1, to)) = IF from + 1 <= to THEN to - (from + 1) + 1 ELSE 0
  BY <1>3, <1>5, SubSeqProperties
<1>7. Len(SubSeq(s, from + 1, to)) = to - from
  BY <1>3, <1>6
<1>8. SubSeq(s, 1, from) \o SubSeq(s, from + 1, to) = SubSeq(s, 1, to)
  BY <1>1, <1>3, ConcatAdjacentSubSeq
<1>9. SubSeq(s, from + 1, to) = <<>> <=> to = from
  BY <1>3, <1>6, <1>7, EmptySeq
<1> QED
  BY <1>2, <1>3, <1>4, <1>6, <1>7, <1>8, <1>9

\* The same in one word, to be cited where it is one fact of several.
IsChunk(s, from, n, chunk) ==
  /\ Until(s, from, n) \in from..Len(s)
  /\ Len(chunk) = Until(s, from, n) - from
  /\ Len(chunk) <= n
  /\ Len(chunk) < n => Until(s, from, n) = Len(s)
  /\ SubSeq(s, 1, from) \o chunk = SubSeq(s, 1, Until(s, from, n))

LEMMA ChunkIsChunk ==
  ASSUME NEW S, NEW s \in Seq(S), NEW from \in 0..Len(s), NEW n \in Nat, n > 0
  PROVE  IsChunk(s, from, n, Chunk(s, from, n))
  BY ChunkFacts DEF IsChunk

LEMMA WholeSeq ==
  ASSUME NEW S, NEW s \in Seq(S)
  PROVE  /\ SubSeq(s, 1, Len(s)) = s /\ SubSeq(s, 1, 0) = <<>>
         /\ s \o <<>> = s /\ <<>> \o s = s
  BY SubSeqFull, SubSeqEmpty, ConcatEmptySeq

Multiple(i, n) == \E k \in Nat : i = k * n

LEMMA ZeroIsMultiple == \A n \in Nat : Multiple(0, n)
<1>1. \A n \in Nat : 0 = 0 * n
  OBVIOUS
<1> QED
  BY <1>1 DEF Multiple

LEMMA NextMultiple ==
  ASSUME NEW n \in Nat, NEW i, Multiple(i, n)
  PROVE  Multiple(i + n, n)
<1>1. PICK k \in Nat : i = k * n
  BY DEF Multiple
<1>2. i + n = (k + 1) * n
  BY <1>1
<1> QED
  BY <1>2 DEF Multiple

LEMMA MultiplesApart ==
  ASSUME NEW n \in Nat, n > 0, NEW i, Multiple(i, n), NEW b, Multiple(b, n), i < b
  PROVE  i + n <= b
<1>1. PICK k \in Nat : i = k * n
  BY DEF Multiple
<1>2. PICK m \in Nat : b = m * n
  BY DEF Multiple
<1>3. ASSUME m <= k PROVE FALSE
  <2>1. PICK d \in Nat : k = m + d
    BY <1>3
  <2>2. k * n = m * n + d * n
    BY <2>1
  <2>3. d * n >= 0 /\ d * n \in Nat /\ m * n \in Nat
    OBVIOUS
  <2> QED
    BY <1>1, <1>2, <2>2, <2>3
<1>4. PICK d \in Nat : m = k + 1 + d
  BY <1>3
<1>5. m * n = k * n + n + d * n
  BY <1>4
<1>6. d * n \in Nat /\ k * n \in Nat
  OBVIOUS
<1> QED
  BY <1>1, <1>2, <1>5, <1>6

LEMMA BufferIsMultiple ==
  Multiple(BufferCount, DescPerReply) /\ Multiple(BufferCount, ValuesPerReply)
<1>1. \A b \in Nat, n \in Nat \ {0} : b % n = 0 => Multiple(b, n)
  <2>1. ASSUME NEW b \in Nat, NEW n \in Nat \ {0}, b % n = 0 PROVE Multiple(b, n)
    <3>1. b \div n \in Nat /\ b = (b \div n) * n
      BY <2>1
    <3> QED
      BY <3>1 DEF Multiple
  <2> QED
    BY <2>1
<1> QED
  BY <1>1, SizesAssumption

-------------------------------------------------------------------------------
(* The inductive invariant *)

Continued == [type : Types, count : Nat, remaining : Nat]
History == [want : Seq(Ids), got : Seq(Ids)]
Reply == [kind : {"none", "infos", "values", "ex", "other"},
          objects : Seq(Ids), count : Nat, remaining : Nat]

\* A listing of the table has come as far as the application's cursor.
AllSound ==
  /\ history.want = Params /\ history.got = SubSeq(Params, 1, cursor)
  /\ continued.count = Len(Params) /\ continued.remaining = Len(Params) - cursor

\* A listing of the ids asked for has come as far as the stack's index, at most
\* all the way in its first reply.
NamedSound(asking, n) ==
  /\ asking = Len(asked) /\ Len(asked) <= BufferCount
  /\ history.want = asked /\ Len(history.got) = index
  /\ continued.count = Len(asked)
  /\ index <= Len(asked) /\ continued.remaining = Len(asked) - index
  /\ Multiple(index, n) /\ (index = n \/ index < Len(asked))
  /\ AllKnown => history.got = SubSeq(asked, 1, index)

DiscoverSound ==
  continued.type = "DISCOVER_PARAMETERS" =>
    IF info_count = 0 THEN AllSound /\ cursor < Len(Params)
    ELSE NamedSound(info_count, DescPerReply)

ReadSound ==
  continued.type = "READ_PARAMETERS" =>
    IF read_count = 0 THEN AllSound ELSE NamedSound(read_count, ValuesPerReply)

ExSound ==
  continued.type = "DISCOVER_PARAM_EX" =>
    continued.remaining > 0 /\ (info_count # 0 => info_count = Len(asked))

\* Whatever else is under way, the last listing was given in full.
GotAll ==
  continued.type \in {"INVALID", "DISCOVER_PARAM_EX"} =>
    (AllKnown => history.got = history.want)

IInv == ListingTypeOK /\ DiscoverSound /\ ReadSound /\ ExSound /\ GotAll /\ RemainingIsExact

\* Reply, and history, of a listing that has come as far as at.
Given(ids, at, kind) ==
  /\ history' \in History /\ history'.want = ids
  /\ reply' \in Reply /\ reply'.kind \in {"none", kind}
  /\ reply'.kind # "none" => reply'.count = Len(ids) /\ reply'.remaining = Len(ids) - at

-------------------------------------------------------------------------------
(* One message of a listing *)

Wanted(ids) == IF ids = <<>> THEN Params ELSE ids

LEMMA RecordedFacts ==
  ASSUME ListingTypeOK, NEW ids \in Seq(Ids), NEW objects \in Seq(Ids), NEW first \in BOOLEAN,
         Recorded(ids, objects, first), ~first => history.want = Wanted(ids)
  PROVE  /\ history' \in History /\ history'.want = Wanted(ids)
         /\ history'.got = IF first THEN objects ELSE history.got \o objects
<1>1. Wanted(ids) \in Seq(Ids)
  BY KnownIds DEF Wanted
<1>2. history \in History
  BY DEF ListingTypeOK, History
<1>3. CASE first
  BY <1>1, <1>3 DEF Recorded, History, Wanted
<1>4. CASE ~first
  <2>1. PICK g : g = history.got \o objects
    OBVIOUS
  <2>2. g \in Seq(Ids)
    BY <1>2, <2>1, ConcatProperties DEF History
  <2>3. history' = [history EXCEPT !.got = g]
    BY <1>4, <2>1 DEF Recorded
  <2> QED
    BY <1>2, <1>4, <2>1, <2>2, <2>3 DEF History
<1> QED
  BY <1>3, <1>4

LEMMA SendFacts ==
  ASSUME NEW kind \in {"infos", "values", "ex"}, NEW objects \in Seq(Ids),
         continued' \in Continued, Send(kind, objects)
  PROVE  /\ reply' \in Reply /\ reply'.kind = kind
         /\ reply'.count = continued'.count /\ reply'.remaining = continued'.remaining
  BY DEF Send, Reply, Continued

LEMMA SilenceFacts == Silence \in Reply /\ Silence.kind = "none"
  BY EmptySeq DEF Silence, Reply

LEMMA ListAllStep ==
  ASSUME ListingTypeOK, NEW kind \in {"infos", "values"}, NEW c \in Continued,
         NEW from \in 0..Len(Params), NEW n \in Nat, n > 0, NEW first \in BOOLEAN,
         ListAll(kind, c, from, n, first),
         c.count = Len(Params), c.remaining = Len(Params) - from, c.type # "INVALID",
         first => from = 0,
         ~first => history.want = Params /\ history.got = SubSeq(Params, 1, from)
  PROVE  /\ cursor' = Until(Params, from, n) /\ cursor' \in from..Len(Params)
         /\ continued' \in Continued /\ continued'.count = Len(Params)
         /\ continued'.remaining = Len(Params) - cursor'
         /\ continued'.type \in {c.type, "INVALID"}
         /\ continued'.type = "INVALID" => cursor' = Len(Params)
         /\ continued'.type # "INVALID" =>
              first \/ cursor' < Len(Params) \/ (kind = "infos" /\ from = Len(Params))
         /\ history'.got = SubSeq(Params, 1, cursor')
         /\ Given(Params, cursor', kind)
<1>1. PICK objects : objects = Chunk(Params, from, n)
  OBVIOUS
<1>2. PICK to : to = Until(Params, from, n)
  OBVIOUS
<1>3. /\ Params \in Seq(Ids) /\ Len(Params) \in Nat /\ Len(Params) > 0
  BY KnownIds, Constants
<1>4. /\ to \in from..Len(Params) /\ objects \in Seq(Ids) /\ Len(objects) = to - from
      /\ Len(objects) <= n /\ Len(objects) < n => to = Len(Params)
      /\ objects = <<>> <=> from = Len(Params)
      /\ SubSeq(Params, 1, from) \o objects = SubSeq(Params, 1, to)
  <2>1. /\ Until(Params, from, n) \in from..Len(Params)
        /\ Chunk(Params, from, n) \in Seq(Ids)
        /\ Len(Chunk(Params, from, n)) = Until(Params, from, n) - from
        /\ Len(Chunk(Params, from, n)) <= n
        /\ Len(Chunk(Params, from, n)) < n => Until(Params, from, n) = Len(Params)
        /\ Chunk(Params, from, n) = <<>> <=> from = Len(Params)
        /\ SubSeq(Params, 1, from) \o Chunk(Params, from, n)
             = SubSeq(Params, 1, Until(Params, from, n))
    BY <1>3, ChunkFacts
  <2> QED
    BY <1>1, <1>2, <2>1
<1>5. from \in Nat /\ to \in Nat /\ from + Len(objects) = to
  BY <1>3, <1>4
<1>6. PICK left : left = LeftOfTable(c, objects, n)
  OBVIOUS
<1>7. left = Len(Params) - to
  BY <1>3, <1>4, <1>5, <1>6 DEF LeftOfTable
<1>8. /\ cursor' = to
      /\ Recorded(<<>>, objects, first)
      /\ objects = <<>> =>
           /\ continued' = [c EXCEPT !.remaining = 0,
                                     !.type = IF kind = "values" THEN "INVALID" ELSE @]
           /\ reply' = Silence
      /\ objects # <<>> =>
           /\ continued' = [c EXCEPT !.remaining = left, !.type = Over(@, left, first)]
           /\ Send(kind, objects)
  BY <1>1, <1>5, <1>6 DEF ListAll
<1>9. /\ history' \in History /\ history'.want = Params
      /\ history'.got = SubSeq(Params, 1, to)
  <2>1. /\ history' \in History /\ history'.want = Params
        /\ history'.got = IF first THEN objects ELSE history.got \o objects
    <3>1. Wanted(<<>>) = Params /\ <<>> \in Seq(Ids)
      BY EmptySeq DEF Wanted
    <3>2. ~first => history.want = Wanted(<<>>)
      BY <3>1
    <3>3. objects \in Seq(Ids) /\ Recorded(<<>>, objects, first)
      BY <1>4, <1>8
    <3>4. /\ history' \in History /\ history'.want = Wanted(<<>>)
          /\ history'.got = IF first THEN objects ELSE history.got \o objects
      BY <3>1, <3>2, <3>3, RecordedFacts
    <3> QED
      BY <3>1, <3>4
  <2>2. first => SubSeq(Params, 1, from) \o objects = objects
    BY <1>3, <1>4, WholeSeq
  <2> QED
    BY <1>4, <2>1, <2>2
<1>10. CASE objects = <<>>
  <2>1. from = Len(Params) /\ to = Len(Params)
    BY <1>3, <1>4, <1>10
  <2>2. PICK t : t = IF kind = "values" THEN "INVALID" ELSE c.type
    OBVIOUS
  <2>3. continued' = [c EXCEPT !.remaining = 0, !.type = t]
    BY <1>8, <1>10, <2>2
  <2>4. /\ continued' \in Continued /\ continued'.count = Len(Params)
        /\ continued'.remaining = 0 /\ continued'.type = t
    BY <2>2, <2>3 DEF Continued, Types
  <2>5. Given(Params, to, kind)
    BY <1>8, <1>9, <1>10, SilenceFacts DEF Given
  <2> QED
    BY <1>2, <1>3, <1>4, <1>8, <1>9, <2>1, <2>2, <2>4, <2>5
<1>11. CASE objects # <<>>
  <2>1. PICK t : t = Over(c.type, left, first)
    OBVIOUS
  <2>2. continued' = [c EXCEPT !.remaining = left, !.type = t]
    BY <1>8, <1>11, <2>1
  <2>3. left \in Nat /\ t \in {c.type, "INVALID"} /\ t \in Types
    BY <1>3, <1>4, <1>7, <2>1 DEF Over, Continued, Types
  <2>4. /\ continued' \in Continued /\ continued'.count = Len(Params)
        /\ continued'.remaining = left /\ continued'.type = t
    BY <2>2, <2>3 DEF Continued
  <2>5. (t = "INVALID" <=> left = 0 /\ ~first)
    BY <2>1 DEF Over
  <2>6. left = 0 <=> to = Len(Params)
    BY <1>3, <1>4, <1>5, <1>7
  <2>7. Given(Params, to, kind)
    BY <1>4, <1>7, <1>8, <1>9, <1>11, <2>4, SendFacts DEF Given
  <2> QED
    BY <1>2, <1>3, <1>4, <1>7, <1>8, <1>9, <2>3, <2>4, <2>5, <2>6, <2>7
<1> QED
  BY <1>10, <1>11

LEMMA ListNamedStep ==
  ASSUME ListingTypeOK, NEW kind \in {"infos", "values"}, NEW c \in Continued,
         NEW ids \in Seq(Ids), ids # <<>>, NEW from \in 0..Len(ids),
         NEW n \in Nat, n > 0, NEW objects \in Seq(Ids), NEW first \in BOOLEAN,
         ListNamed(kind, c, ids, from, n, objects, first),
         Len(objects) <= Until(ids, from, n) - from,
         c.count = Len(ids), c.remaining = Len(ids) - from, c.type # "INVALID",
         first => from = 0,
         ~first => history.want = ids /\ Len(history.got) = from
  PROVE  /\ index' = from + Len(objects) /\ index' \in from..Len(ids)
         /\ continued' \in Continued /\ continued'.count = Len(ids)
         /\ continued'.remaining = Len(ids) - index'
         /\ continued'.type \in {c.type, "INVALID"}
         /\ continued'.type # "INVALID" => Len(objects) = n /\ (first \/ index' < Len(ids))
         /\ continued'.type = "INVALID" /\ Len(objects) = Until(ids, from, n) - from =>
              index' = Len(ids)
         /\ history'.got = IF first THEN objects ELSE history.got \o objects
         /\ Len(history'.got) = index'
         /\ Given(ids, index', kind)
<1>1. PICK to : to = Until(ids, from, n)
  OBVIOUS
<1>2. /\ to \in from..Len(ids) /\ Len(objects) <= to - from
      /\ to - from <= n /\ (to - from < n => to = Len(ids)) /\ (to = from => from = Len(ids))
  <2>1. Until(ids, from, n) \in from..Len(ids)
    BY ChunkFacts
  <2> QED
    BY <1>1, <2>1 DEF Until
<1>3. /\ Len(ids) \in Nat /\ Len(objects) \in Nat /\ from \in Nat /\ to \in Nat
      /\ (objects = <<>> <=> Len(objects) = 0)
  BY <1>2, EmptySeq
<1>4. PICK at : at = from + Len(objects)
  OBVIOUS
<1>5. at \in from..Len(ids) /\ at \in Nat /\ at <= to
  BY <1>2, <1>3, <1>4
<1>6. PICK left : left = c.remaining - Len(objects)
  OBVIOUS
<1>7. left = Len(ids) - at /\ left \in Nat
  BY <1>3, <1>4, <1>5, <1>6
<1>8. PICK type : type = IF Len(objects) < n THEN "INVALID" ELSE c.type
  OBVIOUS
<1>9. /\ index' = at
      /\ Recorded(ids, objects, first)
      /\ objects = <<>> => continued' = [c EXCEPT !.type = "INVALID"] /\ reply' = Silence
      /\ objects # <<>> =>
           /\ continued' = [c EXCEPT !.remaining = left, !.type = Over(type, left, first)]
           /\ Send(kind, objects)
  BY <1>4, <1>6, <1>8 DEF ListNamed, Advanced
<1>10. /\ history' \in History /\ history'.want = ids
       /\ history'.got = IF first THEN objects ELSE history.got \o objects
  <2>1. Wanted(ids) = ids
    BY DEF Wanted
  <2>2. ~first => history.want = Wanted(ids)
    BY <2>1
  <2>3. /\ history' \in History /\ history'.want = Wanted(ids)
        /\ history'.got = IF first THEN objects ELSE history.got \o objects
    BY <1>9, <2>2, RecordedFacts
  <2> QED
    BY <2>1, <2>3
<1>11. Len(history'.got) = at
  <2>1. CASE first
    BY <1>3, <1>4, <1>10, <2>1
  <2>2. CASE ~first
    <3>1. history.got \in Seq(Ids)
      BY DEF ListingTypeOK
    <3>2. Len(history.got \o objects) = Len(history.got) + Len(objects)
      BY <3>1, ConcatProperties
    <3> QED
      BY <1>4, <1>10, <2>2, <3>2
  <2> QED
    BY <2>1, <2>2
<1>12. CASE objects = <<>>
  <2>1. continued' = [c EXCEPT !.type = "INVALID"]
    BY <1>9, <1>12
  <2>2. /\ continued' \in Continued /\ continued'.count = Len(ids)
        /\ continued'.remaining = Len(ids) - from /\ continued'.type = "INVALID"
    BY <2>1 DEF Continued, Types
  <2>3. at = from /\ (Len(objects) = to - from => at = Len(ids))
    BY <1>2, <1>3, <1>4, <1>12
  <2>4. Given(ids, at, kind)
    BY <1>9, <1>10, <1>12, SilenceFacts DEF Given
  <2> QED
    BY <1>1, <1>4, <1>5, <1>9, <1>10, <1>11, <2>2, <2>3, <2>4
<1>13. CASE objects # <<>>
  <2>1. PICK t : t = Over(type, left, first)
    OBVIOUS
  <2>2. continued' = [c EXCEPT !.remaining = left, !.type = t]
    BY <1>9, <1>13, <2>1
  <2>3. t \in {c.type, "INVALID"} /\ t \in Types
    BY <1>8, <2>1 DEF Over, Continued, Types
  <2>4. /\ continued' \in Continued /\ continued'.count = Len(ids)
        /\ continued'.remaining = left /\ continued'.type = t
    BY <1>7, <2>2, <2>3 DEF Continued
  <2>5. t = "INVALID" <=> Len(objects) < n \/ (left = 0 /\ ~first)
    BY <1>8, <2>1 DEF Over
  <2>6. t # "INVALID" => Len(objects) = n /\ (first \/ at < Len(ids))
    BY <1>2, <1>3, <1>5, <1>7, <2>5
  <2>7. t = "INVALID" /\ Len(objects) = to - from => at = Len(ids)
    BY <1>2, <1>3, <1>4, <1>5, <1>7, <2>5
  <2>8. Given(ids, at, kind)
    BY <1>7, <1>9, <1>10, <1>13, <2>4, SendFacts DEF Given
  <2> QED
    BY <1>1, <1>4, <1>5, <1>7, <1>9, <1>10, <1>11, <2>3, <2>4, <2>6, <2>7, <2>8
<1> QED
  BY <1>12, <1>13

\* What a message of a listing leaves the invariant to.
Kept ==
  /\ continued' \in Continued
  /\ history' \in History
  /\ reply' \in Reply
  /\ continued'.type = "INVALID" => (AllKnown' => history'.got = history'.want)
  /\ RemainingIsExact'

\* What a continued transaction does for its client.
Grown == history'.want = history.want /\ Len(history'.got) >= Len(history.got)

LEMMA NamedKept ==
  ASSUME ListingTypeOK, NEW kind \in {"infos", "values"}, NEW c \in Continued,
         NEW ids \in Seq(Ids), ids # <<>>, NEW from \in 0..Len(ids),
         NEW n \in Nat, n > 0, NEW objects \in Seq(Ids), NEW first \in BOOLEAN,
         ListNamed(kind, c, ids, from, n, objects, first),
         Len(objects) <= Until(ids, from, n) - from,
         c.count = Len(ids), c.remaining = Len(ids) - from, c.type # "INVALID",
         first => from = 0,
         ~first => history.want = ids /\ Len(history.got) = from,
         asked' = ids, Len(ids) <= BufferCount, Multiple(from, n),
         (\A i \in DOMAIN ids : ids[i] \in Known) =>
           /\ objects = Chunk(ids, from, n)
           /\ ~first => history.got = SubSeq(ids, 1, from)
  PROVE  /\ Kept /\ (~first => Grown)
         /\ index' \in Nat /\ continued'.type \in {c.type, "INVALID"}
         /\ continued'.type # "INVALID" => NamedSound(Len(asked), n)'
<1>1. /\ index' = from + Len(objects) /\ index' \in from..Len(ids)
      /\ continued' \in Continued /\ continued'.count = Len(ids)
      /\ continued'.remaining = Len(ids) - index'
      /\ continued'.type \in {c.type, "INVALID"}
      /\ continued'.type # "INVALID" => Len(objects) = n /\ (first \/ index' < Len(ids))
      /\ continued'.type = "INVALID" /\ Len(objects) = Until(ids, from, n) - from =>
           index' = Len(ids)
      /\ history'.got = IF first THEN objects ELSE history.got \o objects
      /\ Len(history'.got) = index'
      /\ Given(ids, index', kind)
  BY ListNamedStep
<1>2. /\ history' \in History /\ history'.want = ids
      /\ reply' \in Reply /\ reply'.kind \in {"none", kind}
      /\ reply'.kind # "none" => reply'.count = Len(ids)
                                 /\ reply'.remaining = Len(ids) - index'
  BY <1>1 DEF Given
<1>3. AllKnown' <=> \A i \in DOMAIN ids : ids[i] \in Known
  BY <1>2 DEF AllKnown
<1>4. AllKnown' => /\ history'.got = SubSeq(ids, 1, index')
                   /\ continued'.type = "INVALID" => history'.got = ids
  <2>1. SUFFICES ASSUME AllKnown'
                 PROVE  /\ history'.got = SubSeq(ids, 1, index')
                        /\ continued'.type = "INVALID" => history'.got = ids
    OBVIOUS
  <2>2. objects = Chunk(ids, from, n) /\ (~first => history.got = SubSeq(ids, 1, from))
    BY <1>3, <2>1
  <2>3. /\ Until(ids, from, n) \in from..Len(ids)
        /\ Len(objects) = Until(ids, from, n) - from
        /\ SubSeq(ids, 1, from) \o objects = SubSeq(ids, 1, Until(ids, from, n))
    <3>1. IsChunk(ids, from, n, Chunk(ids, from, n))
      BY ChunkIsChunk
    <3> QED
      BY <2>2, <3>1 DEF IsChunk
  <2>4. /\ SubSeq(ids, 1, Len(ids)) = ids /\ SubSeq(ids, 1, 0) = <<>>
        /\ <<>> \o objects = objects
    BY WholeSeq
  <2>5. index' = Until(ids, from, n)
    BY <1>1, <2>2, <2>3
  <2>6. history'.got = SubSeq(ids, 1, index')
    <3>1. CASE first
      <4>1. SubSeq(ids, 1, from) = <<>> /\ history'.got = objects
        BY <1>1, <2>4, <3>1
      <4> QED
        BY <2>2, <2>3, <2>4, <2>5, <4>1
    <3>2. CASE ~first
      BY <1>1, <2>2, <2>3, <2>5, <3>2
    <3> QED
      BY <3>1, <3>2
  <2>7. continued'.type = "INVALID" => index' = Len(ids)
    BY <1>1, <2>2, <2>3
  <2> QED
    BY <2>4, <2>6, <2>7
<1>5. RemainingIsExact'
  BY <1>1, <1>2 DEF RemainingIsExact
<1>6. Kept
  BY <1>1, <1>2, <1>4, <1>5 DEF Kept
<1>7. ASSUME continued'.type # "INVALID" PROVE NamedSound(Len(asked), n)'
  <2>1. Len(objects) = n /\ (first \/ index' < Len(ids)) /\ index' = from + n
    BY <1>1, <1>7
  <2>2. Multiple(index', n)
    <3>1. Multiple(from + n, n)
      BY NextMultiple
    <3> QED
      BY <2>1, <3>1
  <2>3. index' = n \/ index' < Len(ids)
    BY <2>1
  <2>4. asked' = ids /\ index' <= Len(ids)
    BY <1>1
  <2>5. history'.want = asked' /\ Len(history'.got) = index'
        /\ continued'.count = Len(asked') /\ continued'.remaining = Len(asked') - index'
    BY <1>1, <1>2, <2>4
  <2>6. AllKnown' => history'.got = SubSeq(asked', 1, index')
    BY <1>4, <2>4
  <2> QED
    BY <2>2, <2>3, <2>4, <2>5, <2>6 DEF NamedSound
<1>8. ~first => Grown
  <2>1. Len(history'.got) >= from
    BY <1>1
  <2> QED
    BY <1>2, <2>1 DEF Grown
<1> QED
  BY <1>1, <1>6, <1>7, <1>8

LEMMA Least ==
  ASSUME NEW T \in SUBSET Nat, T # {}
  PROVE  \E x \in T : \A y \in T : x <= y
<1>1. PICK R : R = OpToRel(<, Nat)
  OBVIOUS
<1>2. IsWellFoundedOn(R, Nat)
  BY <1>1, NatLessThanWellFounded
<1>3. \A x, y \in Nat : y < x => <<y, x>> \in R
  BY <1>1 DEF OpToRel
<1>4. PICK x \in T : \A y \in T : ~ (<<y, x>> \in R)
  BY <1>2, WFMin
<1>5. ASSUME NEW y \in T PROVE x <= y
  <2>1. ~ (y < x)
    BY <1>3, <1>4
  <2> QED
    BY <2>1
<1> QED
  BY <1>5

LEMMA EntryIs == \A id \in Known : Params[Entry(id)] = id
<1>1. TAKE id \in Known
<1>2. \E i \in DOMAIN Params : Params[i] = id
  BY DEF Known
<1> QED
  BY <1>2 DEF Entry

\* A parameter that is known is described by its own entry.
LEMMA DescribedFacts ==
  ASSUME NEW listed \in Seq(Ids),
         NEW objects, objects = [i \in DOMAIN listed |-> Params[Entry(listed[i])]]
  PROVE  /\ objects \in Seq(Ids) /\ Len(objects) = Len(listed)
         /\ (\A i \in DOMAIN listed : listed[i] \in Known) => objects = listed
<1>1. DOMAIN listed = 1..Len(listed) /\ Len(listed) \in Nat
  BY LenProperties
<1>2. \A i \in DOMAIN listed : Params[Entry(listed[i])] \in Ids
  BY EntryFacts, KnownIds
<1>3. objects \in [1..Len(listed) -> Ids]
  BY <1>1, <1>2
<1>4. objects \in Seq(Ids)
  BY <1>1, <1>3, SeqDef
<1>5. Len(objects) = Len(listed)
  BY <1>1, <1>3, <1>4
<1>6. ASSUME \A i \in DOMAIN listed : listed[i] \in Known PROVE objects = listed
  <2>1. \A i \in 1..Len(objects) : objects[i] = listed[i]
    BY <1>1, <1>5, <1>6, EntryIs
  <2> QED
    BY <1>4, <1>5, <2>1, SeqEqual
<1> QED
  BY <1>4, <1>5, <1>6

LEMMA ChunkKnown ==
  ASSUME NEW ids \in Seq(Ids), NEW from \in 0..Len(ids), NEW n \in Nat, n > 0,
         \A i \in DOMAIN ids : ids[i] \in Known
  PROVE  \A i \in DOMAIN Chunk(ids, from, n) : Chunk(ids, from, n)[i] \in Known
<1>1. ids \in Seq(Known)
  <2>1. DOMAIN ids = 1..Len(ids) /\ Len(ids) \in Nat /\ ids \in [1..Len(ids) -> Ids]
    BY LenProperties
  <2>2. ids \in [1..Len(ids) -> Known]
    BY <2>1
  <2> QED
    BY <2>1, <2>2, SeqDef
<1>2. PICK s : s = Chunk(ids, from, n)
  OBVIOUS
<1>3. s \in Seq(Known)
  BY <1>1, <1>2, ChunkFacts
<1> QED
  BY <1>2, <1>3, LenProperties, ElementOfSeq

LEMMA DescribeNamedKept ==
  ASSUME ListingTypeOK, NEW c \in Continued, NEW ids \in Seq(Ids), ids # <<>>,
         NEW from \in 0..Len(ids), NEW first \in BOOLEAN,
         DescribeNamed(c, ids, from, first),
         c.count = Len(ids), c.remaining = Len(ids) - from, c.type # "INVALID",
         first => from = 0,
         ~first => history.want = ids /\ Len(history.got) = from,
         asked' = ids, Len(ids) <= BufferCount, Multiple(from, DescPerReply),
         (\A i \in DOMAIN ids : ids[i] \in Known) =>
           (~first => history.got = SubSeq(ids, 1, from))
  PROVE  /\ Kept /\ (~first => Grown)
         /\ index' \in Nat /\ continued'.type \in {c.type, "INVALID"}
         /\ continued'.type # "INVALID" => NamedSound(Len(asked), DescPerReply)'
         /\ cursor' \in 0..Len(Params)
<1>1. PICK listed : listed = Chunk(ids, from, DescPerReply)
  OBVIOUS
<1>2. PICK objects : objects = [i \in DOMAIN listed |-> Params[Entry(listed[i])]]
  OBVIOUS
<1>3. ListNamed("infos", c, ids, from, DescPerReply, objects, first)
  BY <1>1, <1>2 DEF DescribeNamed
<1>4. /\ Until(ids, from, DescPerReply) \in from..Len(ids)
      /\ listed \in Seq(Ids) /\ Len(listed) = Until(ids, from, DescPerReply) - from
  BY <1>1, ChunkFacts, Constants
<1>5. /\ objects \in Seq(Ids) /\ Len(objects) = Len(listed)
      /\ (\A i \in DOMAIN listed : listed[i] \in Known) => objects = listed
  BY <1>2, <1>4, DescribedFacts
<1>6. (\A i \in DOMAIN ids : ids[i] \in Known) => objects = listed
  BY <1>1, <1>5, ChunkKnown, Constants
<1>7. Len(objects) <= Until(ids, from, DescPerReply) - from
  BY <1>4, <1>5
<1>8. /\ Kept /\ (~first => Grown)
      /\ index' \in Nat /\ continued'.type \in {c.type, "INVALID"}
      /\ continued'.type # "INVALID" => NamedSound(Len(asked), DescPerReply)'
  BY <1>1, <1>3, <1>5, <1>6, <1>7, Constants, NamedKept
<1>9. cursor' = IF listed = <<>> THEN cursor ELSE Entry(listed[Len(listed)])
  BY <1>1 DEF DescribeNamed
<1>10. cursor' \in 0..Len(Params)
  <2>1. cursor \in 0..Len(Params)
    BY DEF ListingTypeOK
  <2>2. \A id : Entry(id) \in 0..Len(Params)
    BY EntryFacts, Constants
  <2> QED
    BY <1>9, <2>1, <2>2
<1> QED
  BY <1>8, <1>10

LEMMA ReadNamedKept ==
  ASSUME ListingTypeOK, NEW c \in Continued, NEW ids \in Seq(Ids), ids # <<>>,
         NEW from \in 0..Len(ids), NEW first \in BOOLEAN,
         ReadNamed(c, ids, from, first),
         c.count = Len(ids), c.remaining = Len(ids) - from, c.type # "INVALID",
         first => from = 0,
         ~first => history.want = ids /\ Len(history.got) = from,
         asked' = ids, Len(ids) <= BufferCount, Multiple(from, ValuesPerReply),
         (\A i \in DOMAIN ids : ids[i] \in Known) =>
           (~first => history.got = SubSeq(ids, 1, from))
  PROVE  /\ Kept /\ (~first => Grown)
         /\ index' \in Nat /\ continued'.type \in {c.type, "INVALID"}
         /\ continued'.type # "INVALID" =>
              NamedSound(Len(asked), ValuesPerReply)' /\ read_count' = Len(ids)
         /\ read_count' \in Nat
         /\ cursor' = cursor
<1>1. PICK listed : listed = Chunk(ids, from, ValuesPerReply)
  OBVIOUS
<1>2. PICK unknown : unknown = {i \in DOMAIN listed : listed[i] \notin Known}
  OBVIOUS
<1> DEFINE least == CHOOSE i \in unknown : \A j \in unknown : i <= j
           objects == IF unknown = {} THEN listed ELSE SubSeq(listed, 1, least - 1)
<1>3. unknown # {} => least \in 1..Len(listed)
  <2>1. SUFFICES ASSUME unknown # {} PROVE least \in 1..Len(listed)
    OBVIOUS
  <2>2. unknown \subseteq 1..Len(listed) /\ unknown \subseteq Nat
    <3>1. listed \in Seq(Ids)
      BY <1>1, ChunkFacts, Constants
    <3> QED
      BY <1>2, <3>1, LenProperties
  <2>3. \E i \in unknown : \A j \in unknown : i <= j
    BY <2>1, <2>2, Least
  <2>4. least \in unknown
    BY <2>3
  <2> QED
    BY <2>2, <2>4
<1>4. /\ ListNamed("values", c, ids, from, ValuesPerReply, objects, first)
      /\ read_count' = IF unknown = {} THEN Len(ids) ELSE 0
      /\ cursor' = cursor
  BY <1>1, <1>2 DEF ReadNamed
<1> HIDE DEF least
<1>5. /\ Until(ids, from, ValuesPerReply) \in from..Len(ids)
      /\ listed \in Seq(Ids) /\ Len(listed) = Until(ids, from, ValuesPerReply) - from
      /\ Len(listed) <= ValuesPerReply
  BY <1>1, ChunkFacts, Constants
<1>6. /\ objects \in Seq(Ids) /\ Len(objects) <= Len(listed)
      /\ unknown # {} => Len(objects) < Len(listed)
  <2>1. CASE unknown = {}
    BY <1>5, <2>1
  <2>2. CASE unknown # {}
    <3>1. PICK k \in 1..Len(listed) : objects = SubSeq(listed, 1, k - 1)
      BY <1>3, <2>2
    <3>2. Len(listed) \in Nat /\ k \in Int /\ k - 1 \in Int
      BY <1>5
    <3>3. \A i \in 1..(k - 1) : listed[i] \in Ids
      BY <1>5, <3>2, ElementOfSeq
    <3>4. /\ SubSeq(listed, 1, k - 1) \in Seq(Ids)
          /\ Len(SubSeq(listed, 1, k - 1)) = IF 1 <= k - 1 THEN (k - 1) - 1 + 1 ELSE 0
      BY <3>2, <3>3, SubSeqProperties
    <3>5. Len(SubSeq(listed, 1, k - 1)) = k - 1
      BY <3>2, <3>4
    <3>6. Len(objects) = k - 1 /\ objects \in Seq(Ids)
      BY <3>1, <3>4, <3>5
    <3> HIDE DEF objects
    <3> QED
      BY <3>2, <3>6
  <2> QED
    BY <2>1, <2>2
<1>7. (\A i \in DOMAIN ids : ids[i] \in Known) => objects = listed
  <2>1. (\A i \in DOMAIN ids : ids[i] \in Known) => unknown = {}
    BY <1>1, <1>2, ChunkKnown, Constants
  <2> QED
    BY <2>1
<1> HIDE DEF objects
<1>8. Len(objects) <= Until(ids, from, ValuesPerReply) - from
  BY <1>5, <1>6
<1>9. /\ Kept /\ (~first => Grown)
      /\ index' \in Nat /\ continued'.type \in {c.type, "INVALID"}
      /\ continued'.type # "INVALID" => NamedSound(Len(asked), ValuesPerReply)'
  BY <1>1, <1>4, <1>6, <1>7, <1>8, Constants, NamedKept
<1>10. continued'.type # "INVALID" => Len(objects) = ValuesPerReply
  BY <1>4, <1>6, <1>8, Constants, ListNamedStep
<1>11. continued'.type # "INVALID" => unknown = {}
  <2>1. Len(objects) \in Nat /\ Len(listed) \in Nat
    BY <1>5, <1>6
  <2> QED
    BY <1>5, <1>6, <1>10, <2>1, Constants
<1>12. Len(ids) \in Nat
  OBVIOUS
<1> QED
  BY <1>4, <1>9, <1>11, <1>12

LEMMA ListAllKept ==
  ASSUME ListingTypeOK, NEW kind \in {"infos", "values"}, NEW c \in Continued,
         NEW from \in 0..Len(Params), NEW n \in Nat, n > 0, NEW first \in BOOLEAN,
         ListAll(kind, c, from, n, first),
         c.count = Len(Params), c.remaining = Len(Params) - from, c.type # "INVALID",
         first => from = 0,
         ~first => history.want = Params /\ history.got = SubSeq(Params, 1, from)
  PROVE  /\ Kept /\ (~first => Grown)
         /\ cursor' = Until(Params, from, n) /\ cursor' \in 0..Len(Params)
         /\ continued'.type \in {c.type, "INVALID"}
         /\ continued'.type # "INVALID" =>
              /\ AllSound'
              /\ first \/ cursor' < Len(Params) \/ (kind = "infos" /\ from = Len(Params))
<1>1. /\ cursor' = Until(Params, from, n) /\ cursor' \in from..Len(Params)
      /\ continued' \in Continued /\ continued'.count = Len(Params)
      /\ continued'.remaining = Len(Params) - cursor'
      /\ continued'.type \in {c.type, "INVALID"}
      /\ continued'.type = "INVALID" => cursor' = Len(Params)
      /\ continued'.type # "INVALID" =>
           first \/ cursor' < Len(Params) \/ (kind = "infos" /\ from = Len(Params))
      /\ history'.got = SubSeq(Params, 1, cursor')
      /\ Given(Params, cursor', kind)
  BY ListAllStep
<1>2. /\ history' \in History /\ history'.want = Params
      /\ reply' \in Reply /\ reply'.kind \in {"none", kind}
      /\ reply'.kind # "none" => reply'.count = Len(Params)
                                 /\ reply'.remaining = Len(Params) - cursor'
  BY <1>1 DEF Given
<1>3. PICK at : at = cursor'
  OBVIOUS
<1>4. at \in 0..Len(Params) /\ Len(Params) \in Nat /\ Params \in Seq(Ids)
  BY <1>1, <1>3, Constants, KnownIds
<1>5. \A k \in 0..Len(Params) : Len(SubSeq(Params, 1, k)) = k
  <2>1. TAKE k \in 0..Len(Params)
  <2>2. \A i \in 1..k : Params[i] \in Ids
    BY <1>4, ElementOfSeq
  <2>3. Len(SubSeq(Params, 1, k)) = IF 1 <= k THEN k - 1 + 1 ELSE 0
    BY <1>4, <2>2, SubSeqProperties
  <2> QED
    BY <1>4, <2>3
<1>6. RemainingIsExact'
  BY <1>1, <1>2, <1>3, <1>4, <1>5 DEF RemainingIsExact
<1>7. continued'.type = "INVALID" => history'.got = history'.want
  BY <1>1, <1>2, <1>4, WholeSeq
<1>8. Kept
  BY <1>1, <1>2, <1>6, <1>7 DEF Kept
<1>9. AllSound'
  BY <1>1, <1>2 DEF AllSound
<1>10. cursor' \in 0..Len(Params)
  BY <1>3, <1>4
<1>11. ~first => Grown
  <2>1. ~first => Len(history.got) = from
    BY <1>5
  <2>2. Len(history'.got) = cursor' /\ cursor' >= from
    BY <1>1, <1>3, <1>4, <1>5
  <2> QED
    BY <1>2, <2>1, <2>2 DEF Grown
<1> QED
  BY <1>1, <1>8, <1>9, <1>10, <1>11

-------------------------------------------------------------------------------
(* Every step keeps the invariant *)

LEMMA FreshFacts ==
  ASSUME NEW type \in Types, NEW count \in Nat
  PROVE  /\ Fresh(type, count) \in Continued /\ Fresh(type, count).type = type
         /\ Fresh(type, count).count = count /\ Fresh(type, count).remaining = count
  BY DEF Fresh, Continued

LEMMA TypesKept ==
  ASSUME continued' \in Continued, history' \in History, reply' \in Reply,
         asked' \in Seq(Ids), index' \in Nat, info_count' \in Nat, read_count' \in Nat,
         cursor' \in 0..Len(Params),
         ex' \in [cursor : 0..Len(Extended), pid : Ids \cup {All}, num : Nat]
  PROVE  ListingTypeOK'
  BY DEF ListingTypeOK, Continued, History, Reply

LEMMA TypeParts ==
  ASSUME ListingTypeOK
  PROVE  /\ continued \in Continued /\ history \in History /\ reply \in Reply
         /\ asked \in Seq(Ids)
         /\ index \in Nat /\ info_count \in Nat /\ read_count \in Nat
         /\ cursor \in 0..Len(Params)
         /\ ex \in [cursor : 0..Len(Extended), pid : Ids \cup {All}, num : Nat]
  BY DEF ListingTypeOK, Continued, History, Reply

LEMMA InitIInv == Init => IInv
<1> SUFFICES ASSUME Init PROVE IInv
  OBVIOUS
<1>1. /\ continued = NotContinued /\ asked = <<>> /\ index = 0 /\ info_count = 0
      /\ read_count = 0 /\ cursor = 0 /\ reply = Silence /\ history = Nobody
      /\ ex = [cursor |-> 0, pid |-> All, num |-> 0]
  BY DEF Init
<1>2. continued \in Continued /\ continued.type = "INVALID"
  BY <1>1 DEF NotContinued, Continued, Types
<1>3. history \in History /\ history.want = <<>> /\ history.got = <<>>
  BY <1>1, EmptySeq DEF Nobody, History
<1>4. ex \in [cursor : 0..Len(Extended), pid : Ids \cup {All}, num : Nat]
  BY <1>1, Constants
<1>5. ListingTypeOK
  <2>1. reply \in Reply /\ asked \in Seq(Ids) /\ cursor \in 0..Len(Params)
    BY <1>1, SilenceFacts, EmptySeq, Constants
  <2> QED
    BY <1>1, <1>2, <1>3, <1>4, <2>1 DEF ListingTypeOK, Continued, History, Reply
<1>6. RemainingIsExact
  BY <1>1, SilenceFacts DEF RemainingIsExact
<1> QED
  BY <1>2, <1>3, <1>5, <1>6 DEF IInv, DiscoverSound, ReadSound, ExSound, GotAll

LEMMA DiscoverIInv ==
  ASSUME IInv, NEW ids \in Requests, DiscoverParameters(ids)
  PROVE  IInv'
<1>1. /\ asked' = IF ids = <<>> THEN asked ELSE ids
      /\ info_count' = Len(ids) /\ read_count' = read_count /\ ex' = ex
  BY DEF DiscoverParameters, Asked
<1>2. ListingTypeOK /\ ids \in Seq(Ids) /\ Len(ids) \in Nat /\ Len(ids) <= BufferCount
      /\ (ids # <<>> => Len(ids) > 0)
  BY RequestFacts DEF IInv
<1>3. CASE ids = <<>>
  <2>1. PICK c : c = Fresh("DISCOVER_PARAMETERS", Len(Params))
    OBVIOUS
  <2>2. /\ c \in Continued /\ c.type = "DISCOVER_PARAMETERS"
        /\ c.count = Len(Params) /\ c.remaining = Len(Params)
    BY <2>1, FreshFacts, Constants DEF Types
  <2>3. ListAll("infos", c, 0, DescPerReply, TRUE) /\ index' = 0
    BY <1>3, <2>1 DEF DiscoverParameters
  <2>4. /\ Kept
        /\ cursor' = Until(Params, 0, DescPerReply) /\ cursor' \in 0..Len(Params)
        /\ continued'.type \in {"DISCOVER_PARAMETERS", "INVALID"}
        /\ continued'.type # "INVALID" => AllSound'
    <3>1. 0 \in 0..Len(Params) /\ c.remaining = Len(Params) - 0
      BY <2>2, Constants
    <3> QED
      BY <1>2, <2>2, <2>3, <3>1, Constants, ListAllKept
  <2>5. cursor' < Len(Params)
    BY <2>4, Constants DEF Until
  <2>6. info_count' = 0
    BY <1>1, <1>3, EmptySeq
  <2>7. ListingTypeOK'
    <3>1. asked' \in Seq(Ids) /\ index' \in Nat /\ read_count' \in Nat
          /\ ex' \in [cursor : 0..Len(Extended), pid : Ids \cup {All}, num : Nat]
      BY <1>1, <1>2, <1>3, <2>3, TypeParts
    <3> QED
      BY <2>4, <2>6, <3>1, TypesKept DEF Kept
  <2>8. DiscoverSound' /\ ReadSound' /\ ExSound' /\ GotAll'
    BY <2>4, <2>5, <2>6 DEF Kept, DiscoverSound, ReadSound, ExSound, GotAll
  <2> QED
    BY <2>4, <2>7, <2>8 DEF IInv, Kept
<1>4. CASE ids # <<>>
  <2>1. PICK c : c = Fresh("DISCOVER_PARAMETERS", Len(ids))
    OBVIOUS
  <2>2. /\ c \in Continued /\ c.type = "DISCOVER_PARAMETERS"
        /\ c.count = Len(ids) /\ c.remaining = Len(ids)
    BY <1>2, <2>1, FreshFacts DEF Types
  <2>3. DescribeNamed(c, ids, 0, TRUE)
    BY <1>4, <2>1 DEF DiscoverParameters
  <2>4. /\ Kept
        /\ index' \in Nat /\ continued'.type \in {"DISCOVER_PARAMETERS", "INVALID"}
        /\ continued'.type # "INVALID" => NamedSound(Len(asked), DescPerReply)'
        /\ cursor' \in 0..Len(Params)
    <3>1. asked' = ids /\ 0 \in 0..Len(ids) /\ c.remaining = Len(ids) - 0
          /\ Multiple(0, DescPerReply)
      BY <1>1, <1>2, <1>4, <2>2, ZeroIsMultiple, Constants
    <3> QED
      BY <1>2, <1>4, <2>2, <2>3, <3>1, DescribeNamedKept
  <2>5. asked' = ids /\ info_count' = Len(asked') /\ info_count' # 0
    BY <1>1, <1>2, <1>4
  <2>6. ListingTypeOK'
    <3>1. asked' \in Seq(Ids) /\ info_count' \in Nat /\ read_count' \in Nat
          /\ ex' \in [cursor : 0..Len(Extended), pid : Ids \cup {All}, num : Nat]
      BY <1>1, <1>2, <2>5, TypeParts
    <3> QED
      BY <2>4, <3>1, TypesKept DEF Kept
  <2>7. DiscoverSound' /\ ReadSound' /\ ExSound' /\ GotAll'
    BY <2>4, <2>5 DEF Kept, DiscoverSound, ReadSound, ExSound, GotAll, NamedSound
  <2> QED
    BY <2>4, <2>6, <2>7 DEF IInv, Kept
<1> QED
  BY <1>3, <1>4

LEMMA ContinueDiscoverIInv ==
  ASSUME IInv, ContinueDiscover
  PROVE  IInv' /\ Grown
<1>1. /\ asked' = asked /\ info_count' = info_count /\ read_count' = read_count /\ ex' = ex
      /\ continued.type = "DISCOVER_PARAMETERS"
  BY DEF ContinueDiscover
<1>2. ListingTypeOK /\ continued \in Continued /\ asked \in Seq(Ids) /\ Len(asked) \in Nat
  BY TypeParts DEF IInv
<1>3. CASE info_count = 0
  <2>1. AllSound /\ cursor < Len(Params) /\ cursor \in 0..Len(Params)
    BY <1>1, <1>3, TypeParts DEF IInv, DiscoverSound
  <2>2. ListAll("infos", continued, cursor, DescPerReply, FALSE) /\ index' = index
    BY <1>3 DEF ContinueDiscover
  <2>3. /\ Kept /\ Grown
        /\ cursor' \in 0..Len(Params)
        /\ continued'.type \in {continued.type, "INVALID"}
        /\ continued'.type # "INVALID" =>
             AllSound' /\ (cursor' < Len(Params) \/ cursor = Len(Params))
    BY <1>1, <1>2, <2>1, <2>2, Constants, ListAllKept DEF AllSound
  <2>4. cursor # Len(Params)
    BY <2>1, Constants
  <2>5. ListingTypeOK'
    BY <1>1, <1>2, <2>2, <2>3, TypeParts, TypesKept DEF Kept
  <2>6. DiscoverSound' /\ ReadSound' /\ ExSound' /\ GotAll'
    BY <1>1, <1>3, <2>3, <2>4 DEF Kept, DiscoverSound, ReadSound, ExSound, GotAll
  <2> QED
    BY <2>3, <2>5, <2>6 DEF IInv, Kept
<1>4. CASE info_count # 0
  <2>1. NamedSound(info_count, DescPerReply) /\ index \in Nat
    BY <1>1, <1>4, TypeParts DEF IInv, DiscoverSound
  <2>2. DescribeNamed(continued, asked, index, FALSE)
    BY <1>4 DEF ContinueDiscover
  <2>3. /\ asked # <<>> /\ index \in 0..Len(asked) /\ continued.count = Len(asked)
        /\ continued.remaining = Len(asked) - index
        /\ history.want = asked /\ Len(history.got) = index
        /\ Len(asked) <= BufferCount /\ Multiple(index, DescPerReply)
        /\ info_count = Len(asked)
    BY <1>2, <1>4, <2>1, EmptySeq DEF NamedSound
  <2>4. (\A i \in DOMAIN asked : asked[i] \in Known) => history.got = SubSeq(asked, 1, index)
    BY <2>1 DEF NamedSound, AllKnown
  <2>5. /\ Kept /\ Grown
        /\ index' \in Nat /\ continued'.type \in {continued.type, "INVALID"}
        /\ continued'.type # "INVALID" => NamedSound(Len(asked), DescPerReply)'
        /\ cursor' \in 0..Len(Params)
    BY <1>1, <1>2, <2>2, <2>3, <2>4, DescribeNamedKept
  <2>6. ListingTypeOK'
    BY <1>1, <1>2, <2>5, TypeParts, TypesKept DEF Kept
  <2>7. info_count' = Len(asked') /\ info_count' # 0
    BY <1>1, <1>4, <2>3
  <2>8. DiscoverSound' /\ ReadSound' /\ ExSound' /\ GotAll'
    BY <1>1, <2>5, <2>7 DEF Kept, DiscoverSound, ReadSound, ExSound, GotAll, NamedSound
  <2> QED
    BY <2>5, <2>6, <2>8 DEF IInv, Kept
<1> QED
  BY <1>3, <1>4

LEMMA ReadIInv ==
  ASSUME IInv, NEW ids \in Requests, ReadParameters(ids)
  PROVE  IInv'
<1>1. /\ asked' = IF ids = <<>> THEN asked ELSE ids
      /\ info_count' = info_count /\ ex' = ex
  BY DEF ReadParameters, Asked
<1>2. ListingTypeOK /\ ids \in Seq(Ids) /\ Len(ids) \in Nat /\ Len(ids) <= BufferCount
      /\ (ids # <<>> => Len(ids) > 0)
  BY RequestFacts DEF IInv
<1>3. CASE ids = <<>>
  <2>1. PICK c : c = Fresh("READ_PARAMETERS", Len(Params))
    OBVIOUS
  <2>2. /\ c \in Continued /\ c.type = "READ_PARAMETERS"
        /\ c.count = Len(Params) /\ c.remaining = Len(Params)
    BY <2>1, FreshFacts, Constants DEF Types
  <2>3. ListAll("values", c, 0, ValuesPerReply, TRUE) /\ index' = 0 /\ read_count' = 0
    BY <1>3, <2>1 DEF ReadParameters
  <2>4. /\ Kept
        /\ cursor' \in 0..Len(Params)
        /\ continued'.type \in {"READ_PARAMETERS", "INVALID"}
        /\ continued'.type # "INVALID" => AllSound'
    <3>1. 0 \in 0..Len(Params) /\ c.remaining = Len(Params) - 0
      BY <2>2, Constants
    <3> QED
      BY <1>2, <2>2, <2>3, <3>1, Constants, ListAllKept
  <2>5. ListingTypeOK'
    <3>1. asked' \in Seq(Ids) /\ index' \in Nat /\ read_count' \in Nat /\ info_count' \in Nat
          /\ ex' \in [cursor : 0..Len(Extended), pid : Ids \cup {All}, num : Nat]
      BY <1>1, <1>2, <1>3, <2>3, TypeParts
    <3> QED
      BY <2>4, <3>1, TypesKept DEF Kept
  <2>6. DiscoverSound' /\ ReadSound' /\ ExSound' /\ GotAll'
    BY <2>3, <2>4 DEF Kept, DiscoverSound, ReadSound, ExSound, GotAll
  <2> QED
    BY <2>4, <2>5, <2>6 DEF IInv, Kept
<1>4. CASE ids # <<>>
  <2>1. PICK c : c = Fresh("READ_PARAMETERS", Len(ids))
    OBVIOUS
  <2>2. /\ c \in Continued /\ c.type = "READ_PARAMETERS"
        /\ c.count = Len(ids) /\ c.remaining = Len(ids)
    BY <1>2, <2>1, FreshFacts DEF Types
  <2>3. ReadNamed(c, ids, 0, TRUE)
    BY <1>4, <2>1 DEF ReadParameters
  <2>4. /\ Kept
        /\ index' \in Nat /\ continued'.type \in {"READ_PARAMETERS", "INVALID"}
        /\ continued'.type # "INVALID" =>
             NamedSound(Len(asked), ValuesPerReply)' /\ read_count' = Len(ids)
        /\ read_count' \in Nat
        /\ cursor' = cursor
    <3>1. asked' = ids /\ 0 \in 0..Len(ids) /\ c.remaining = Len(ids) - 0
          /\ Multiple(0, ValuesPerReply)
      BY <1>1, <1>2, <1>4, <2>2, ZeroIsMultiple, Constants
    <3> QED
      BY <1>2, <1>4, <2>2, <2>3, <3>1, ReadNamedKept
  <2>5. asked' = ids /\ Len(ids) # 0
    BY <1>1, <1>2, <1>4
  <2>6. ListingTypeOK'
    <3>1. asked' \in Seq(Ids) /\ info_count' \in Nat /\ cursor' \in 0..Len(Params)
          /\ ex' \in [cursor : 0..Len(Extended), pid : Ids \cup {All}, num : Nat]
      BY <1>1, <1>2, <2>4, <2>5, TypeParts
    <3> QED
      BY <2>4, <3>1, TypesKept DEF Kept
  <2>7. DiscoverSound' /\ ReadSound' /\ ExSound' /\ GotAll'
    BY <2>4, <2>5 DEF Kept, DiscoverSound, ReadSound, ExSound, GotAll, NamedSound
  <2> QED
    BY <2>4, <2>6, <2>7 DEF IInv, Kept
<1> QED
  BY <1>3, <1>4

LEMMA ContinueReadIInv ==
  ASSUME IInv, ContinueRead
  PROVE  IInv' /\ Grown
<1>1. /\ asked' = asked /\ info_count' = info_count /\ ex' = ex
      /\ continued.type = "READ_PARAMETERS"
  BY DEF ContinueRead
<1>2. ListingTypeOK /\ continued \in Continued /\ asked \in Seq(Ids) /\ Len(asked) \in Nat
  BY TypeParts DEF IInv
<1>3. CASE read_count = 0
  <2>1. AllSound /\ cursor \in 0..Len(Params)
    BY <1>1, <1>3, TypeParts DEF IInv, ReadSound
  <2>2. ListAll("values", continued, cursor, ValuesPerReply, FALSE)
        /\ index' = index /\ read_count' = read_count
    BY <1>3 DEF ContinueRead
  <2>3. /\ Kept /\ Grown
        /\ cursor' \in 0..Len(Params)
        /\ continued'.type \in {continued.type, "INVALID"}
        /\ continued'.type # "INVALID" => AllSound'
    BY <1>1, <1>2, <2>1, <2>2, Constants, ListAllKept DEF AllSound
  <2>4. ListingTypeOK'
    BY <1>1, <1>2, <2>2, <2>3, TypeParts, TypesKept DEF Kept
  <2>5. DiscoverSound' /\ ReadSound' /\ ExSound' /\ GotAll'
    BY <1>1, <1>3, <2>2, <2>3 DEF Kept, DiscoverSound, ReadSound, ExSound, GotAll
  <2> QED
    BY <2>3, <2>4, <2>5 DEF IInv, Kept
<1>4. CASE read_count # 0
  <2>1. NamedSound(read_count, ValuesPerReply) /\ index \in Nat
    BY <1>1, <1>4, TypeParts DEF IInv, ReadSound
  <2>2. ReadNamed(continued, asked, index, FALSE)
    BY <1>4 DEF ContinueRead
  <2>3. /\ asked # <<>> /\ index \in 0..Len(asked) /\ continued.count = Len(asked)
        /\ continued.remaining = Len(asked) - index
        /\ history.want = asked /\ Len(history.got) = index
        /\ Len(asked) <= BufferCount /\ Multiple(index, ValuesPerReply)
        /\ Len(asked) # 0
    BY <1>2, <1>4, <2>1, EmptySeq DEF NamedSound
  <2>4. (\A i \in DOMAIN asked : asked[i] \in Known) => history.got = SubSeq(asked, 1, index)
    BY <2>1 DEF NamedSound, AllKnown
  <2>5. /\ Kept /\ Grown
        /\ index' \in Nat /\ continued'.type \in {continued.type, "INVALID"}
        /\ continued'.type # "INVALID" =>
             NamedSound(Len(asked), ValuesPerReply)' /\ read_count' = Len(asked)
        /\ read_count' \in Nat
        /\ cursor' = cursor
    BY <1>1, <1>2, <2>2, <2>3, <2>4, ReadNamedKept
  <2>6. ListingTypeOK'
    BY <1>1, <1>2, <2>5, TypeParts, TypesKept DEF Kept
  <2>7. DiscoverSound' /\ ReadSound' /\ ExSound' /\ GotAll'
    BY <1>1, <2>3, <2>5 DEF Kept, DiscoverSound, ReadSound, ExSound, GotAll, NamedSound
  <2> QED
    BY <2>5, <2>6, <2>7 DEF IInv, Kept
<1> QED
  BY <1>3, <1>4

-------------------------------------------------------------------------------
(* Extensions, and what else moves this state *)

ExType == [cursor : 0..Len(Extended), pid : Ids \cup {All}, num : Nat]

LEMMA ExCountFacts == \A id : ExCount(id) \in Nat
<1>1. TAKE id
<1>2. IsFiniteSet(1..Len(Extended)) /\ DOMAIN Extended = 1..Len(Extended)
  BY FS_Interval, Constants, LenProperties
<1>3. PICK T : T = {i \in DOMAIN Extended : Extended[i] = id}
  OBVIOUS
<1>4. Cardinality(T) \in Nat
  BY <1>2, <1>3, FS_Subset, FS_CardinalityType
<1> QED
  BY <1>3, <1>4 DEF ExCount

LEMMA ExNextFacts ==
  ASSUME NEW e \in ExType
  PROVE  /\ ExNext(e) \in 0..Len(Extended)
         /\ ExNext(e) # 0 => Extended[ExNext(e)] \in Ids
<1>1. PICK hits : hits = {i \in DOMAIN Extended : i > e.cursor /\ e.pid \in {All, Extended[i]}}
  OBVIOUS
<1>2. hits \subseteq 1..Len(Extended) /\ hits \subseteq Nat
  BY <1>1, Constants, LenProperties
<1>3. ExNext(e) = 0 \/ ExNext(e) \in hits
  <2>1. CASE hits = {}
    BY <1>1, <2>1 DEF ExNext
  <2>2. CASE hits # {}
    <3>1. \E i \in hits : \A j \in hits : i <= j
      BY <1>2, <2>2, Least
    <3>2. (CHOOSE i \in hits : \A j \in hits : i <= j) \in hits
      BY <3>1
    <3> QED
      BY <1>1, <2>2, <3>2 DEF ExNext
  <2> QED
    BY <2>1, <2>2
<1>4. PICK i : i = ExNext(e)
  OBVIOUS
<1>5. i = 0 \/ i \in 1..Len(Extended)
  BY <1>2, <1>3, <1>4
<1>6. \A j \in 1..Len(Extended) : Extended[j] \in Ids
  BY KnownIds
<1> QED
  BY <1>4, <1>5, <1>6, Constants

LEMMA SendExFacts ==
  ASSUME NEW e \in ExType, continued' \in Continued, SendEx(e)
  PROVE  ex' \in ExType /\ reply' \in Reply /\ reply'.kind = "ex"
<1>1. PICK i : i = ExNext(e)
  OBVIOUS
<1>2. i \in 0..Len(Extended) /\ (i # 0 => Extended[i] \in Ids)
  BY <1>1, ExNextFacts
<1>3. PICK k : k = IF i = 0 THEN e.cursor ELSE i
  OBVIOUS
<1>4. ex' = [e EXCEPT !.cursor = k]
  BY <1>1, <1>3 DEF SendEx, ExAfter
<1>5. ex' \in ExType
  BY <1>2, <1>3, <1>4 DEF ExType
<1>6. PICK objects : objects = IF i = 0 THEN <<>> ELSE <<Extended[i]>>
  OBVIOUS
<1>7. objects \in Seq(Ids)
  BY <1>2, <1>6, EmptySeq
<1>8. Send("ex", objects)
  BY <1>1, <1>6 DEF SendEx
<1> QED
  BY <1>5, <1>7, <1>8, SendFacts

\* A step that answers about extensions, or about something else, leaves the
\* listings as they are.
LEMMA AsideIInv ==
  ASSUME IInv, continued.type \in {"INVALID", "DISCOVER_PARAM_EX"},
         history' = history,
         continued' \in Continued, continued'.type \in {"INVALID", "DISCOVER_PARAM_EX"},
         reply' \in Reply, reply'.kind \notin {"infos", "values"},
         asked' \in Seq(Ids), index' \in Nat, info_count' \in Nat, read_count' \in Nat,
         cursor' \in 0..Len(Params), ex' \in ExType, ExSound'
  PROVE  IInv'
<1>1. ListingTypeOK'
  BY TypeParts, TypesKept DEF IInv, ExType
<1>2. GotAll'
  BY DEF IInv, GotAll, AllKnown
<1>3. DiscoverSound' /\ ReadSound' /\ RemainingIsExact'
  BY DEF DiscoverSound, ReadSound, RemainingIsExact
<1> QED
  BY <1>1, <1>2, <1>3 DEF IInv

LEMMA DiscoverExIInv ==
  ASSUME IInv, NEW ids \in Requests, DiscoverParamEx(ids)
  PROVE  IInv'
<1>1. PICK total :
        total = IF ids = <<>> THEN Len(Extended)
                ELSE Cardinality({h \in (DOMAIN ids) \X (DOMAIN Extended) :
                                    ids[h[1]] = Extended[h[2]]})
  OBVIOUS
<1>2. PICK num : num = IF ids = <<>> THEN 0 ELSE ExCount(ids[1])
  OBVIOUS
<1>3. /\ ids \in Seq(Ids) /\ Len(ids) \in Nat /\ (ids = <<>> => Len(ids) = 0)
  BY RequestFacts, EmptySeq
<1>4. total \in Nat
  <2>1. /\ IsFiniteSet(1..Len(Extended)) /\ DOMAIN Extended = 1..Len(Extended)
        /\ IsFiniteSet(1..Len(ids)) /\ DOMAIN ids = 1..Len(ids)
    BY <1>3, FS_Interval, Constants, LenProperties
  <2>2. PICK T : T = {h \in (DOMAIN ids) \X (DOMAIN Extended) : ids[h[1]] = Extended[h[2]]}
    OBVIOUS
  <2>3. IsFiniteSet((DOMAIN ids) \X (DOMAIN Extended))
    BY <2>1, FS_Product
  <2>4. Cardinality(T) \in Nat
    BY <2>2, <2>3, FS_Subset, FS_CardinalityType
  <2> QED
    BY <1>1, <2>2, <2>4, Constants
<1>5. num \in Nat
  BY <1>2, ExCountFacts
<1>6. /\ continued.type = "INVALID" /\ history' = history /\ cursor' = cursor
      /\ read_count' = read_count /\ info_count' = Len(ids) /\ index' = 0
      /\ asked' = IF ids = <<>> THEN asked ELSE ids
  BY DEF DiscoverParamEx, PromptsAreTaken, Asked
<1>7. PICK e : e = IF ids = <<>> THEN [cursor |-> 0, pid |-> All, num |-> num]
                   ELSE [ex EXCEPT !.num = num]
  OBVIOUS
<1>8. ex \in ExType
  BY TypeParts DEF IInv, ExType
<1>9. e \in ExType
  BY <1>5, <1>7, <1>8, Constants, SMTT(30) DEF ExType
<1>10. asked' \in Seq(Ids) /\ cursor' \in 0..Len(Params) /\ read_count' \in Nat
  BY <1>3, <1>6, TypeParts DEF IInv
<1>11. CASE total = 0
  <2>1. continued' = NotContinued /\ Send("ex", <<>>) /\ ex' = e
    BY <1>1, <1>2, <1>7, <1>11 DEF DiscoverParamEx
  <2>2. continued' \in Continued /\ continued'.type = "INVALID"
    BY <2>1 DEF NotContinued, Continued, Types
  <2>3. reply' \in Reply /\ reply'.kind = "ex"
    BY <2>1, <2>2, SendFacts, EmptySeq
  <2>4. ExSound'
    BY <2>2 DEF ExSound
  <2> QED
    BY <1>3, <1>6, <1>9, <1>10, <2>1, <2>2, <2>3, <2>4, AsideIInv
<1>12. CASE total # 0
  <2>1. PICK type : type = IF total = 1 THEN "INVALID" ELSE "DISCOVER_PARAM_EX"
    OBVIOUS
  <2>2. continued' = [type |-> type, count |-> total, remaining |-> total - 1] /\ SendEx(e)
    BY <1>1, <1>2, <1>7, <1>12, <2>1 DEF DiscoverParamEx
  <2>3. continued' \in Continued /\ continued'.type \in {"INVALID", "DISCOVER_PARAM_EX"}
    BY <1>4, <1>12, <2>1, <2>2 DEF Continued, Types
  <2>4. ex' \in ExType /\ reply' \in Reply /\ reply'.kind = "ex"
    BY <1>9, <2>2, <2>3, SendExFacts
  <2>5. ExSound'
    BY <1>3, <1>4, <1>6, <1>12, <2>1, <2>2 DEF ExSound
  <2> QED
    BY <1>3, <1>6, <1>10, <2>3, <2>4, <2>5, AsideIInv
<1> QED
  BY <1>11, <1>12

LEMMA MoreExIInv ==
  ASSUME IInv, NEW e \in ExType, MoreEx(e), continued.type = "DISCOVER_PARAM_EX",
         index' \in Nat, UNCHANGED <<asked, info_count, read_count, cursor, history>>
  PROVE  IInv'
<1>1. PICK left : left = continued.remaining - 1
  OBVIOUS
<1>2. PICK t : t = Over(continued.type, left, FALSE)
  OBVIOUS
<1>3. continued \in Continued /\ continued.remaining > 0
  BY TypeParts DEF IInv, ExSound
<1>4. left \in Nat /\ t \in {"INVALID", "DISCOVER_PARAM_EX"} /\ (left = 0 => t = "INVALID")
  BY <1>1, <1>2, <1>3 DEF Over, Continued
<1>5. continued' = [continued EXCEPT !.remaining = left, !.type = t]
  BY <1>1, <1>2 DEF MoreEx
<1>6. continued' \in Continued /\ continued'.type = t /\ continued'.remaining = left
  BY <1>3, <1>4, <1>5 DEF Continued, Types
<1>7. PICK f : f = [e EXCEPT !.num = 0]
  OBVIOUS
<1>8. f \in ExType /\ SendEx(f)
  BY <1>7 DEF MoreEx, ExType
<1>9. ex' \in ExType /\ reply' \in Reply /\ reply'.kind = "ex"
  BY <1>6, <1>8, SendExFacts
<1>10. ExSound'
  BY <1>4, <1>6 DEF IInv, ExSound
<1> QED
  BY <1>4, <1>6, <1>9, <1>10, TypeParts, AsideIInv DEF IInv

LEMMA EndExIInv ==
  ASSUME IInv, continued.type = "DISCOVER_PARAM_EX",
         continued' \in Continued, continued'.type = "INVALID", reply' = Silence,
         ex' \in ExType, index' \in Nat,
         UNCHANGED <<asked, info_count, read_count, cursor, history>>
  PROVE  IInv'
<1>1. ExSound'
  BY DEF ExSound
<1> QED
  BY <1>1, SilenceFacts, TypeParts, AsideIInv DEF IInv

LEMMA ContinueExIInv ==
  ASSUME IInv, ContinueEx
  PROVE  IInv'
<1>1. /\ continued.type = "DISCOVER_PARAM_EX"
      /\ UNCHANGED <<asked, info_count, read_count, cursor, history>>
  BY DEF ContinueEx
<1>2. /\ continued \in Continued /\ ex \in ExType /\ index \in Nat /\ info_count \in Nat
      /\ asked \in Seq(Ids)
  BY TypeParts DEF IInv, ExType
<1>3. CASE MoreEx(ex) /\ index' = index
  BY <1>1, <1>2, <1>3, MoreExIInv
<1>4. CASE ContinueNextEx
  <2>1. PICK id : id = asked[index + 2]
    OBVIOUS
  <2>2. PICK e : e = IF ex.num = 0 THEN [cursor |-> 0, pid |-> id, num |-> ExCount(id)]
                     ELSE ex
    OBVIOUS
  <2>3. info_count # 0 /\ index + 1 < info_count /\ index' = index + 1
        /\ (MoreEx(e) \/ NoMoreEx(e))
    BY <1>4, <2>1, <2>2 DEF ContinueNextEx
  <2>4. id \in Ids
    <3>1. info_count = Len(asked)
      BY <1>1, <2>3 DEF IInv, ExSound
    <3>2. index + 2 \in 1..Len(asked)
      BY <1>2, <2>3, <3>1
    <3> QED
      BY <1>2, <2>1, <3>2, ElementOfSeq
  <2>5. e \in ExType /\ index' \in Nat
    BY <1>2, <2>2, <2>3, <2>4, ExCountFacts, Constants DEF ExType
  <2>6. CASE MoreEx(e)
    BY <1>1, <2>5, <2>6, MoreExIInv
  <2>7. CASE NoMoreEx(e)
    <3>1. continued' = [continued EXCEPT !.type = "INVALID"] /\ ex' = e /\ reply' = Silence
      BY <2>7 DEF NoMoreEx
    <3>2. continued' \in Continued /\ continued'.type = "INVALID"
      BY <1>2, <3>1 DEF Continued, Types
    <3> QED
      BY <1>1, <2>5, <3>1, <3>2, EndExIInv
  <2> QED
    BY <2>3, <2>6, <2>7
<1>5. CASE ContinueLastEx
  <2>1. PICK count : count = IF info_count = 0 THEN continued.count ELSE 0
    OBVIOUS
  <2>2. continued' = [continued EXCEPT !.type = "INVALID", !.count = count]
        /\ ex' = ex /\ reply' = Silence
        /\ index' = IF info_count = 0 THEN index ELSE index + 1
    BY <1>5, <2>1 DEF ContinueLastEx
  <2>3. continued' \in Continued /\ continued'.type = "INVALID"
    BY <1>2, <2>1, <2>2 DEF Continued, Types
  <2>4. index' \in Nat
    BY <1>2, <2>2
  <2> QED
    BY <1>1, <1>2, <2>2, <2>3, <2>4, EndExIInv
<1> QED
  BY <1>3, <1>4, <1>5 DEF ContinueEx

LEMMA OtherReply ==
  ASSUME NEW r, r = [Silence EXCEPT !.kind = "other"]
  PROVE  r \in Reply /\ r.kind = "other"
  BY EmptySeq DEF Silence, Reply

LEMMA NotContinuedFacts == NotContinued \in Continued /\ NotContinued.type = "INVALID"
  BY DEF NotContinued, Continued, Types

LEMMA EnableIInv ==
  ASSUME IInv, NEW id, EnableNotification(id)
  PROVE  IInv'
<1>1. /\ continued.type = "INVALID" /\ continued' = NotContinued /\ history' = history
      /\ ex' = ex /\ asked' = asked /\ index' = index
      /\ info_count' = info_count /\ read_count' = read_count
      /\ cursor' = Entry(id) - 1 /\ reply' = [Silence EXCEPT !.kind = "other"]
  BY DEF EnableNotification, PromptsAreTaken, request
<1>2. cursor' \in 0..Len(Params)
  BY <1>1, EntryFacts, Constants
<1>3. reply' \in Reply /\ reply'.kind = "other"
  BY <1>1, OtherReply
<1>4. ExSound'
  BY <1>1, NotContinuedFacts DEF ExSound
<1> QED
  BY <1>1, <1>2, <1>3, <1>4, NotContinuedFacts, TypeParts, AsideIInv DEF IInv, ExType

LEMMA ConnectIInv ==
  ASSUME IInv, Connect
  PROVE  IInv'
<1>1. /\ continued' = NotContinued /\ reply' = Silence /\ history' = Nobody
      /\ ex' = ex /\ cursor' = cursor /\ asked' = asked /\ index' = index
      /\ info_count' = info_count /\ read_count' = read_count
  BY DEF Connect, request
<1>2. history' \in History /\ history'.want = history'.got
  BY <1>1, EmptySeq DEF Nobody, History
<1>3. ListingTypeOK'
  BY <1>1, <1>2, NotContinuedFacts, SilenceFacts, TypeParts, TypesKept DEF IInv
<1>4. DiscoverSound' /\ ReadSound' /\ ExSound' /\ GotAll'
  BY <1>1, <1>2, NotContinuedFacts DEF DiscoverSound, ReadSound, ExSound, GotAll
<1>5. RemainingIsExact'
  BY <1>1, SilenceFacts DEF RemainingIsExact
<1> QED
  BY <1>3, <1>4, <1>5 DEF IInv

\* Nothing of a listing is touched by a failed affirm(), and nothing is left of it
\* after the reset.
LEMMA HaltIInv ==
  ASSUME IInv, NEW ids, Halt(ids)
  PROVE  IInv'
  BY DEF Halt, request, IInv, ListingTypeOK, DiscoverSound, ReadSound, ExSound, GotAll,
     RemainingIsExact, AllSound, NamedSound, AllKnown

LEMMA ResetIInv == Reset => IInv'
<1>1. Reset => Init'
  BY DEF Reset, Init
<1>2. (Init => IInv)'
  BY InitIInv, PTL
<1> QED
  BY <1>1, <1>2

LEMMA NextIInv ==
  ASSUME IInv, [Next]_vars
  PROVE  IInv'
<1>1. CASE UNCHANGED vars
  BY <1>1
  DEF vars, request, IInv, ListingTypeOK, DiscoverSound, ReadSound, ExSound, GotAll,
      RemainingIsExact, AllSound, NamedSound, AllKnown
<1>2. CASE Prompt
  BY <1>2, DiscoverIInv, ReadIInv, DiscoverExIInv, EnableIInv DEF Prompt
<1>3. CASE Continue
  BY <1>3, ContinueDiscoverIInv, ContinueReadIInv, ContinueExIInv DEF Continue
<1>4. CASE \/ Runs /\ Connect
           \/ \E ids \in Requests : Halt(ids)
           \/ Reset
  BY <1>4, ConnectIInv, HaltIInv, ResetIInv
<1> QED
  BY <1>1, <1>2, <1>3, <1>4 DEF Next

\* An affirm() that fails leaves the device stopped or running, nothing else.
LEMMA RunningTyped == Spec => [](running \in BOOLEAN)
<1>1. Init => running \in BOOLEAN
  BY DEF Init
<1>2. running \in BOOLEAN /\ [Next]_vars => (running \in BOOLEAN)'
  BY DEF Next, Prompt, Continue, Runs, Halt, Reset, vars
<1> QED
  BY <1>1, <1>2, PTL DEF Spec

LEMMA Invariance == Spec => []IInv
  BY InitIInv, NextIInv, PTL DEF Spec

-------------------------------------------------------------------------------
(* The theorems *)

\* Type correctness: the cursors stay inside the application's tables, and the
\* count of objects left, which is unsigned, is never counted down below zero.
THEOREM TypeCorrect == Spec => []TypeOK
<1>1. IInv /\ running \in BOOLEAN => TypeOK
  BY DEF IInv, TypeOK
<1> QED
  BY <1>1, RunningTyped, Invariance, PTL

\* Every message of a listing tells its client exactly how many objects there are
\* and how many of them are still to come.
THEOREM TellsWhatIsLeft == Spec => []RemainingIsExact
<1>1. IInv => RemainingIsExact
  BY DEF IInv
<1> QED
  BY <1>1, Invariance, PTL

LEMMA IndexStaysInside == IInv => IndexInArray
<1> SUFFICES ASSUME IInv PROVE IndexInArray
  OBVIOUS
<1>1. asked \in Seq(Ids) /\ Len(asked) \in Nat /\ index \in Nat
  BY TypeParts DEF IInv
<1>2. ASSUME NEW n \in Nat, n > 0, n < BufferCount, Multiple(BufferCount, n),
             NEW asking, NamedSound(asking, n)
      PROVE  index + n <= BufferCount \/ asking < BufferCount
  <2>1. /\ asking = Len(asked) /\ Len(asked) <= BufferCount
        /\ Multiple(index, n) /\ (index = n \/ index < Len(asked))
    BY <1>2 DEF NamedSound
  <2>2. index < BufferCount
    BY <1>1, <1>2, <2>1, Constants
  <2> QED
    BY <1>2, <2>1, <2>2, MultiplesApart
<1>3. continued.type = "DISCOVER_PARAMETERS" /\ info_count # 0 =>
        index + DescPerReply <= BufferCount \/ info_count < BufferCount
  BY <1>2, Constants, BufferIsMultiple DEF IInv, DiscoverSound
<1>4. continued.type = "READ_PARAMETERS" /\ read_count # 0 =>
        index + ValuesPerReply <= BufferCount \/ read_count < BufferCount
  BY <1>2, Constants, BufferIsMultiple DEF IInv, ReadSound
<1> QED
  BY <1>3, <1>4 DEF IndexInArray

\* The loop over the requested ids never looks beyond their array, for any request
\* the array can hold and any length of a reply that divides the array's.
THEOREM NeverBeyondTheArray == Spec => []IndexInArray
  BY IndexStaysInside, Invariance, PTL

-------------------------------------------------------------------------------
(* The refinement *)

Want == IF AllKnown THEN history.want ELSE <<>>
Got == IF AllKnown THEN history.got ELSE <<>>

LEMMA Histories ==
  ASSUME IInv
  PROVE  history.want \in Seq(Ids) /\ history.got \in Seq(Ids)
  BY TypeParts DEF IInv, History

\* What was asked for, as far as the abstract listing is concerned.
LEMMA WantFacts == IInv => Want \in Seq(Known)
<1> SUFFICES ASSUME IInv PROVE Want \in Seq(Known)
  OBVIOUS
<1>1. history.want \in Seq(Ids)
  BY Histories
<1>2. AllKnown => history.want \in Seq(Known)
  <2>1. DOMAIN history.want = 1..Len(history.want) /\ Len(history.want) \in Nat
        /\ history.want \in [1..Len(history.want) -> Ids]
    BY <1>1, LenProperties
  <2>2. AllKnown => history.want \in [1..Len(history.want) -> Known]
    BY <2>1 DEF AllKnown
  <2> QED
    BY <2>1, <2>2, SeqDef
<1> QED
  BY <1>2, EmptySeq DEF Want

\* What was given is the beginning of it.
GotIsPrefix ==
  /\ Len(Got) \in 0..Len(Want)
  /\ Got = SubSeq(Want, 1, Len(Got))

LEMMA PrefixOf ==
  ASSUME NEW S, NEW s \in Seq(S), NEW n \in 0..Len(s)
  PROVE  Len(SubSeq(s, 1, n)) = n
<1>1. \A i \in 1..n : s[i] \in S
  BY ElementOfSeq
<1>2. Len(SubSeq(s, 1, n)) = IF 1 <= n THEN n - 1 + 1 ELSE 0
  BY <1>1, SubSeqProperties
<1> QED
  BY <1>2

LEMMA PrefixFacts == IInv => GotIsPrefix
<1> SUFFICES ASSUME IInv PROVE GotIsPrefix
  OBVIOUS
<1>1. history.want \in Seq(Ids) /\ history.got \in Seq(Ids) /\ Len(history.want) \in Nat
  BY Histories
<1>2. AllKnown => \E n \in 0..Len(history.want) : history.got = SubSeq(history.want, 1, n)
  <2>1. SUFFICES ASSUME AllKnown
                 PROVE  \E n \in 0..Len(history.want) :
                          history.got = SubSeq(history.want, 1, n)
    OBVIOUS
  <2>2. continued.type \in Types /\ index \in Nat /\ cursor \in 0..Len(Params)
    BY TypeParts DEF IInv, Continued
  <2>3. CASE continued.type \in {"INVALID", "DISCOVER_PARAM_EX"}
    <3>1. history.got = SubSeq(history.want, 1, Len(history.want))
      BY <1>1, <2>1, <2>3, WholeSeq DEF IInv, GotAll
    <3> QED
      BY <1>1, <3>1
  <2>4. ASSUME AllSound
        PROVE  \E n \in 0..Len(history.want) : history.got = SubSeq(history.want, 1, n)
    BY <2>2, <2>4 DEF AllSound
  <2>5. ASSUME NEW asking, NEW m, NamedSound(asking, m)
        PROVE  \E n \in 0..Len(history.want) : history.got = SubSeq(history.want, 1, n)
    <3>1. /\ history.want = asked /\ history.got = SubSeq(asked, 1, index)
          /\ index <= Len(asked)
      BY <2>1, <2>5 DEF NamedSound
    <3> QED
      BY <1>1, <2>2, <3>1
  <2>6. CASE continued.type = "DISCOVER_PARAMETERS"
    BY <2>4, <2>5, <2>6 DEF IInv, DiscoverSound
  <2>7. CASE continued.type = "READ_PARAMETERS"
    BY <2>4, <2>5, <2>7 DEF IInv, ReadSound
  <2> QED
    BY <2>2, <2>3, <2>6, <2>7 DEF Types
<1>3. CASE AllKnown
  <2>1. PICK n \in 0..Len(history.want) : history.got = SubSeq(history.want, 1, n)
    BY <1>2, <1>3
  <2>2. Len(history.got) = n
    BY <1>1, <2>1, PrefixOf
  <2>3. Got = history.got /\ Want = history.want
    BY <1>3 DEF Got, Want
  <2> QED
    BY <2>1, <2>2, <2>3 DEF GotIsPrefix
<1>4. CASE ~AllKnown
  <2>1. Got = <<>> /\ Want = <<>> /\ Len(<<>>) = 0 /\ SubSeq(<<>>, 1, 0) = <<>>
    BY <1>4, WholeSeq, EmptySeq DEF Got, Want
  <2> QED
    BY <2>1 DEF GotIsPrefix
<1> QED
  BY <1>3, <1>4

\* A request is taken when all of the last was given.
LEMMA BeginRefines ==
  ASSUME IInv, IInv', continued.type = "INVALID"
  PROVE  Asking!Begin
<1>1. Got = Want
  BY DEF IInv, GotAll, Want, Got
<1>2. Want' \in Seq(Known)
  <2>1. (IInv => Want \in Seq(Known))'
    BY WantFacts, PTL
  <2> QED
    BY <2>1
<1>3. Len(Got') \in 0..Len(Want') /\ Got' = SubSeq(Want', 1, Len(Got'))
  <2>1. (IInv => GotIsPrefix)'
    BY PrefixFacts, PTL
  <2> QED
    BY <2>1 DEF GotIsPrefix
<1>4. Got' \in Asking!Prefixes(Want')
  BY <1>3 DEF Asking!Prefixes
<1> QED
  BY <1>1, <1>2, <1>4 DEF Asking!Begin, Asking!Prefixes, Want, Got

LEMMA SameOrLonger ==
  ASSUME NEW S, NEW s \in Seq(S), NEW m \in 0..Len(s), NEW n \in 0..Len(s), n >= m
  PROVE  SubSeq(s, 1, n) = SubSeq(s, 1, m) \/ n > m
<1>1. n = m \/ n > m
  BY LenProperties
<1> QED
  BY <1>1

\* A continued transaction gives more of what was asked for, or nothing.
LEMMA GiveRefines ==
  ASSUME IInv, IInv', Grown
  PROVE  Asking!Give \/ (Want' = Want /\ Got' = Got)
<1>1. AllKnown' <=> AllKnown
  BY DEF Grown, AllKnown
<1>2. Want' = Want
  BY <1>1 DEF Grown, Want
<1>3. Len(Got) \in 0..Len(Want) /\ Got = SubSeq(Want, 1, Len(Got))
  BY PrefixFacts DEF GotIsPrefix
<1>4. Len(Got') \in 0..Len(Want) /\ Got' = SubSeq(Want, 1, Len(Got'))
  <2>1. (IInv => GotIsPrefix)'
    BY PrefixFacts, PTL
  <2> QED
    BY <1>2, <2>1 DEF GotIsPrefix
<1>5. Len(Got') >= Len(Got)
  <2>1. CASE AllKnown
    <3>1. Got = history.got /\ Got' = history'.got
      BY <1>1, <2>1 DEF Got
    <3> QED
      BY <3>1, SMTT(40) DEF Grown
  <2>2. CASE ~AllKnown
    <3>1. Got = <<>> /\ Got' = <<>> /\ Len(<<>>) = 0
      BY <1>1, <2>2 DEF Got
    <3> QED
      BY <3>1
  <2> QED
    BY <2>1, <2>2
<1>6. Got' = Got \/ Len(Got') > Len(Got)
  <2>1. Want \in Seq(Known)
    BY WantFacts, ZenonT(40)
  <2>2. SubSeq(Want, 1, Len(Got')) = SubSeq(Want, 1, Len(Got)) \/ Len(Got') > Len(Got)
    BY <1>3, <1>4, <1>5, <2>1, SameOrLonger
  <2> QED
    BY <1>3, <1>4, <2>2
<1>7. CASE Got' = Got
  BY <1>2, <1>7
<1>8. CASE Len(Got') > Len(Got)
  <2>1. Got' \in Asking!Prefixes(Want)
    BY <1>4 DEF Asking!Prefixes
  <2> QED
    BY <1>2, <1>8, <2>1, SMTT(40) DEF Asking!Give, Asking!Prefixes, Want, Got
<1> QED
  BY <1>6, <1>7, <1>8

LEMMA AsideRefines ==
  ASSUME history' = history
  PROVE  Want' = Want /\ Got' = Got
  BY DEF Want, Got, AllKnown

LEMMA ConnectRefines ==
  ASSUME history' = Nobody
  PROVE  Asking!CutShort
  BY DEF Asking!CutShort, Nobody, AllKnown

LEMMA StepRefines ==
  ASSUME IInv, IInv', [Next]_vars
  PROVE  [Asking!Next]_<<Want, Got>>
<1>1. ASSUME NEW ids \in Requests, DiscoverParameters(ids) \/ ReadParameters(ids)
      PROVE  Asking!Begin
  BY <1>1, BeginRefines DEF DiscoverParameters, ReadParameters, PromptsAreTaken
<1>2. CASE \/ \E ids \in Requests : DiscoverParamEx(ids)
           \/ \E ids \in Requests : EnableNotification(ids[1])
           \/ \E ids \in Requests : Halt(ids)
           \/ ContinueEx \/ UNCHANGED vars
  <2>1. history' = history
    BY <1>2 DEF DiscoverParamEx, EnableNotification, Halt, ContinueEx, vars
  <2> QED
    BY <2>1, AsideRefines
<1>3. CASE ContinueDiscover \/ ContinueRead
  <2>1. Grown
    BY <1>3, ContinueDiscoverIInv, ContinueReadIInv
  <2>2. Asking!Give \/ (Want' = Want /\ Got' = Got)
    BY <2>1, GiveRefines
  <2> QED
    BY <2>2 DEF Asking!Next
<1>4. CASE Connect \/ Reset
  <2>1. Asking!CutShort
    BY <1>4, ConnectRefines DEF Connect, Reset
  <2> QED
    BY <2>1 DEF Asking!Next
<1>5. CASE Prompt
  BY <1>1, <1>2, <1>5 DEF Prompt, Asking!Next
<1>6. CASE Continue
  BY <1>2, <1>3, <1>6 DEF Continue
<1> QED
  BY <1>2, <1>4, <1>5, <1>6 DEF Next

LEMMA InitRefines == Init => Asking!Init
  BY DEF Init, Nobody, Asking!Init, AllKnown

\* The listings implement the abstract one: whatever the client asks for and
\* whatever else moves the cursors, it gets what it asked for, in order and all of
\* it, before the next request is taken.
THEOREM ListingsAreComplete == Spec => ImplementsListing
<1>1. IInv /\ IInv' /\ [Next]_vars =>
        [Asking!Next]_<<IF AllKnown THEN history.want ELSE <<>>,
                        IF AllKnown THEN history.got ELSE <<>> >>
  BY StepRefines DEF Want, Got
<1> QED
  BY <1>1, InitRefines, Invariance, PTL DEF Spec, ImplementsListing, Asking!Spec

===============================================================================
